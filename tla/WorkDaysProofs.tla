--------------------------- MODULE WorkDaysProofs ---------------------------
(***************************************************************************)
(* What holds of days, swaps, attendance and removals for any number of    *)
(* employees, days, rows and handlers.                                     *)
(***************************************************************************)
EXTENDS WorkDays, FiniteSetTheorems, TLAPS

-----------------------------------------------------------------------------
(***************************************************************************)
(* The test of OfficeNetworks is the usual one, for every width.           *)
(***************************************************************************)
(* Every prefix length gives the mask of as many leading ones, also the    *)
(* one whose shift count has no bit left (prefix length 0).                *)
LEMMA MaskBits ==
    ASSUME NEW prefixLength \in 0 .. Width, NEW i \in Bits
    PROVE  Mask(prefixLength)[i] = IF i >= Width - prefixLength THEN 1 ELSE 0
<1> USE WidthAssumption DEF Bits
<1>1. CASE prefixLength = 0
  BY <1>1 DEF Mask, Zero
<1>2. CASE prefixLength # 0
  <2> DEFINE n == Width - prefixLength
  <2>1. n \in 0 .. Width - 1
    BY <1>2
  <2>2. n % Width = n
    BY <2>1
  <2>3. Mask(prefixLength) = [j \in Bits |-> IF j < n THEN 0 ELSE Ones[j - n]]
    BY <1>2, <2>2 DEF Mask, ShiftLeft
  <2>4. i >= n => i - n \in Bits
    BY <2>1
  <2>5. i >= n => Ones[i - n] = 1
    BY <2>4 DEF Ones
  <2> QED
    BY <2>1, <2>3, <2>5
<1> QED
  BY <1>1, <1>2

(* Masked words are equal just when they agree where the mask is one.      *)
LEMMA AndAgrees ==
    ASSUME NEW x \in Word, NEW y \in Word, NEW mask \in Word
    PROVE  And(x, mask) = And(y, mask) <=> \A i \in Bits : mask[i] = 1 => x[i] = y[i]
<1>1. ASSUME And(x, mask) = And(y, mask), NEW i \in Bits, mask[i] = 1
      PROVE  x[i] = y[i]
  <2>1. And(x, mask)[i] = And(y, mask)[i]
    BY <1>1
  <2>2. x[i] \in {0, 1} /\ y[i] \in {0, 1}
    BY DEF Word
  <2> QED
    BY <1>1, <2>1, <2>2 DEF And
<1>2. ASSUME \A i \in Bits : mask[i] = 1 => x[i] = y[i]
      PROVE  And(x, mask) = And(y, mask)
  <2>1. \A i \in Bits : And(x, mask)[i] = And(y, mask)[i]
    <3>1. \A i \in Bits : x[i] \in {0, 1} /\ y[i] \in {0, 1} /\ mask[i] \in {0, 1}
      BY DEF Word
    <3> QED
      BY <1>2, <3>1 DEF And
  <2> QED
    BY <2>1 DEF And
<1> QED
  BY <1>1, <1>2

(* For every width, an address is inside a block just when their first     *)
(* prefixLength bits are the same.                                         *)
THEOREM PrefixMatch == CidrIsAPrefix
<1> SUFFICES ASSUME NEW ip \in Word, NEW range \in Word, NEW prefixLength \in 0 .. Width
             PROVE  IsIpv4InsideCidr(ip, [range |-> range, prefixLength |-> prefixLength])
                        <=> \A i \in Bits : i >= Width - prefixLength => ip[i] = range[i]
  BY DEF CidrIsAPrefix, SameStart
<1> DEFINE mask == Mask(prefixLength)
<1>1. mask \in Word
  BY WidthAssumption DEF Mask, ShiftLeft, Ones, Zero, Word, Bits
<1>2. \A i \in Bits : mask[i] = 1 <=> i >= Width - prefixLength
  BY MaskBits
<1>3. IsIpv4InsideCidr(ip, [range |-> range, prefixLength |-> prefixLength])
          <=> And(ip, mask) = And(range, mask)
  BY WidthAssumption, NoneAssumption DEF IsIpv4InsideCidr
<1> HIDE DEF mask
<1> QED
  BY <1>1, <1>2, <1>3, AndAgrees

-----------------------------------------------------------------------------
(***************************************************************************)
(* What a handler holds at each of its stops                               *)
(***************************************************************************)
Approval == {"pending", "approved", "rejected"}

\* What a day is resolved for: asking for a swap, approving one, and attendance.
RequestUse ==
    {use \in [op : {"request"}, id : RequestIds, employee : Employees, original : Dates,
              replacement : Dates, status : {"pending"}] : use.original # use.replacement}

ReviewUse ==
    {use \in [op : {"review"}, id : RequestIds, employee : Employees, original : Dates,
              replacement : Dates, status : {"approved"}] : use.original # use.replacement}

AttendUse ==
    [op : {"attend"}, id : RecordIds, employee : Employees, date : Dates, in : Marks,
     out : Marks]

Searches == {"override", "holiday", "schedule"}

\* The day of an attendance record, and the first and the second day of a swap.
TheDay(at, use) ==
    [at |-> at, id |-> use.id, use |-> use, days |-> <<use.date>>, found |-> <<>>]
FirstDay(at, use) ==
    [at |-> at, id |-> use.id, use |-> use, days |-> <<use.original, use.replacement>>,
     found |-> <<>>]
SecondDay(at, use, day) ==
    [at |-> at, id |-> use.id, use |-> use, days |-> <<use.replacement>>, found |-> <<day>>]

UseTask(at, use) == [at |-> at, id |-> use.id, use |-> use]

OfficeTask(use, day) == [at |-> "offices", id |-> use.id, use |-> use, day |-> day]
OutTask(use, day, o) ==
    [at |-> "check_out", id |-> use.id, use |-> use, day |-> day, checkIn |-> o]

Searching(t) ==
    \E at \in Searches :
        \/ \E use \in AttendUse : t = TheDay(at, use)
        \/ \E use \in RequestUse \cup ReviewUse :
               t = FirstDay(at, use) \/ \E day \in DayResolution : t = SecondDay(at, use, day)

Attending(t) ==
    \E use \in AttendUse, day \in DayResolution :
        t = OfficeTask(use, day) \/ \E o \in Opt(Offices) : t = OutTask(use, day, o)

Swapping(t) ==
    \/ \E use \in RequestUse : t = UseTask("pending", use)
    \/ \E use \in ReviewUse : t = UseTask("swap", use)

\* A row is never saved with the deletion mark set, and no request exchanges a day for itself.
SavingRow(t) ==
    \/ \E s \in Schedules, row \in WorkSchedule : row.live /\ t = Saving("schedules", s, row)
    \/ \E y \in HolidayIds, row \in Holiday : row.live /\ t = Saving("holidays", y, row)
    \/ \E o \in Offices, row \in OfficeLocation : row.live /\ t = Saving("offices", o, row)
    \/ \E r \in RequestIds, row \in OffDayReplacementRequest :
           row.original # row.replacement /\ t = Saving("requests", r, row)
    \/ \E a \in RecordIds, row \in AttendanceRecord : t = Saving("records", a, row)

RemovalTask(at, table, id) == [at |-> at, table |-> table, id |-> id]

Removing(t) ==
    \E at \in {"count", "delete"} :
        \/ \E s \in Schedules : t = RemovalTask(at, "schedules", s)
        \/ \E y \in HolidayIds : t = RemovalTask(at, "holidays", y)
        \/ \E o \in Offices : t = RemovalTask(at, "offices", o)

Assigning(t) ==
    \/ \E dto \in AssignWorkScheduleDto : t = [at |-> "assign", id |-> None, row |-> dto]
    \/ \E dto \in CreateEmployeeDayOverrideDto :
           t = [at |-> "override_save", id |-> None, dto |-> dto]

SoundTask(t) ==
    \/ t = Idle
    \/ Searching(t) \/ Attending(t) \/ Swapping(t) \/ SavingRow(t) \/ Removing(t) \/ Assigning(t)

-----------------------------------------------------------------------------
(***************************************************************************)
(* Types                                                                   *)
(***************************************************************************)
Assigners == {h \in Handlers : At(h, "assign")}

TablesTyped ==
    /\ schedules \in [Schedules -> Opt(WorkSchedule)]
    /\ holidays \in [HolidayIds -> Opt(Holiday)]
    /\ offices \in [Offices -> Opt(OfficeLocation)]
    /\ requests \in [RequestIds -> Opt(OffDayReplacementRequest)]
    /\ \A r \in RequestIds : requests[r] # None => requests[r].original # requests[r].replacement
    /\ records \in [RecordIds -> Opt(AttendanceRecord)]
    /\ assignments \in Seq(EmployeeWorkSchedule)
    /\ overrides \in [Employees -> [Dates -> Opt(EmployeeDayOverrideType)]]
    /\ swaps \in [RequestIds -> Nat]

TasksTyped ==
    /\ DOMAIN task = Handlers
    /\ task = [h \in Handlers |-> task[h]]
    /\ \A h \in Handlers : SoundTask(task[h])

CountsTyped ==
    /\ arrived \in 0..MaxLoad /\ overlaps \in 0..arrived /\ failures \in 0..MaxFailures
    /\ IsFiniteSet(Assigners)
    /\ Len(assignments) + Cardinality(Assigners) <= MaxAssignments

TypeInv == TablesTyped /\ TasksTyped /\ CountsTyped

LEMMA ContinueTask ==
    ASSUME TasksTyped, NEW h \in Handlers, NEW next, Continue(h, next)
    PROVE  /\ task'[h] = next
           /\ \A g \in Handlers : g # h => task'[g] = task[g]
           /\ DOMAIN task' = Handlers
           /\ task' = [g \in Handlers |-> task'[g]]
<1>1. task' = [task EXCEPT ![h] = next] /\ DOMAIN task = Handlers
  BY DEF TasksTyped, Continue
<1>2. task' = [g \in Handlers |-> IF g = h THEN next ELSE task[g]]
  BY <1>1
<1> QED BY <1>2

(***************************************************************************)
(* Resolving days                                                          *)
(***************************************************************************)
LEMMA OneLeft ==
    ASSUME NEW date
    PROVE  Len(<<date>>) = 1 /\ Head(<<date>>) = date
OBVIOUS

LEMMA TwoLeft ==
    ASSUME NEW first, NEW second
    PROVE  /\ Len(<<first, second>>) = 2
           /\ Head(<<first, second>>) = first
           /\ Tail(<<first, second>>) = <<second>>
OBVIOUS

LEMMA FoundOne ==
    ASSUME NEW day
    PROVE  Append(<<>>, day) = <<day>>
OBVIOUS

LEMMA FoundTwo ==
    ASSUME NEW first, NEW second
    PROVE  /\ Append(<<first>>, second)[1] = first
           /\ Append(<<first>>, second)[2] = second
OBVIOUS

\* The days still to be resolved, and the stops of a resolution.
LEMMA SearchFields ==
    /\ \A at, use :
          /\ TheDay(at, use).at = at /\ TheDay(at, use).id = use.id
          /\ TheDay(at, use).use = use /\ Head(TheDay(at, use).days) = use.date
          /\ TheDay(at, use).found = <<>>
    /\ \A at, use :
          /\ FirstDay(at, use).at = at /\ FirstDay(at, use).id = use.id
          /\ FirstDay(at, use).use = use /\ Head(FirstDay(at, use).days) = use.original
          /\ FirstDay(at, use).found = <<>>
    /\ \A at, use, day :
          /\ SecondDay(at, use, day).at = at /\ SecondDay(at, use, day).id = use.id
          /\ SecondDay(at, use, day).use = use
          /\ Head(SecondDay(at, use, day).days) = use.replacement
          /\ SecondDay(at, use, day).found = <<day>>
BY OneLeft, TwoLeft DEF TheDay, FirstDay, SecondDay

LEMMA SearchAdvances ==
    /\ \A at, use, next : [TheDay(at, use) EXCEPT !.at = next] = TheDay(next, use)
    /\ \A at, use, next : [FirstDay(at, use) EXCEPT !.at = next] = FirstDay(next, use)
    /\ \A at, use, day, next :
          [SecondDay(at, use, day) EXCEPT !.at = next] = SecondDay(next, use, day)
BY DEF TheDay, FirstDay, SecondDay

\* A day that is resolved is the record's, or the first of a swap, or lets the swap pass.
LEMMA ResolvedTheDay ==
    ASSUME NEW at, NEW use \in AttendUse, NEW day
    PROVE  Resolved(TheDay(at, use), day) = OfficeTask(use, day)
BY OneLeft DEF Resolved, TheDay, OfficeTask, AttendUse

LEMMA ResolvedMany ==
    ASSUME NEW t, NEW day, Len(t.days) = 2
    PROVE  Resolved(t, day) =
               [t EXCEPT !.at = "override", !.days = Tail(@), !.found = Append(t.found, day)]
<1>1. Len(t.days) > 1 /\ ~(Len(t.days) = 1 /\ t.use.op = "attend")
  OBVIOUS
<1> QED BY <1>1, Zenon DEF Resolved

LEMMA ResolvedFirstDay ==
    ASSUME NEW at, NEW use, NEW day
    PROVE  Resolved(FirstDay(at, use), day) = SecondDay("override", use, day)
<1> DEFINE t == FirstDay(at, use)
<1>1. Len(t.days) = 2 /\ Tail(t.days) = <<use.replacement>> /\ Append(t.found, day) = <<day>>
  BY TwoLeft, FoundOne DEF FirstDay
<1>2. Resolved(t, day) =
          [t EXCEPT !.at = "override", !.days = <<use.replacement>>, !.found = <<day>>]
  <2>1. Resolved(t, day) =
            [t EXCEPT !.at = "override", !.days = Tail(@), !.found = Append(t.found, day)]
    BY <1>1, ResolvedMany
  <2> QED BY <1>1, <2>1, Zenon
<1> QED BY <1>2 DEF FirstDay, SecondDay

LEMMA ResolvedSecondDay ==
    ASSUME NEW at, NEW use \in RequestUse \cup ReviewUse, NEW first, NEW day
    PROVE  Resolved(SecondDay(at, use, first), day) =
               IF first.offDay /\ ~day.offDay
               THEN UseTask(IF use.op = "request" THEN "pending" ELSE "swap", use) ELSE Idle
<1> DEFINE t == SecondDay(at, use, first)
<1>1. Len(t.days) = 1 /\ t.use = use /\ t.id = use.id /\ t.found = <<first>>
  BY OneLeft DEF SecondDay
<1>2. use.op # "attend"
  BY DEF RequestUse, ReviewUse
<1>3. Swappable(Append(t.found, day)) <=> first.offDay /\ ~day.offDay
  BY <1>1, FoundTwo DEF Swappable
<1> HIDE DEF t
<1>4. ~(Len(t.days) > 1) /\ ~(Len(t.days) = 1 /\ t.use.op = "attend")
  BY <1>1, <1>2
<1>5. Resolved(t, day) =
          IF ~Swappable(Append(t.found, day)) THEN Idle
          ELSE [at |-> IF t.use.op = "request" THEN "pending" ELSE "swap",
                id |-> t.id, use |-> t.use]
  BY <1>4, Zenon DEF Resolved
<1> QED BY <1>1, <1>3, <1>5, Zenon DEF UseTask, t


\* What a query finds the day to be, ...
FoundDay(at, e, date, day) ==
    \/ at = "override" /\ overrides[e][date] # None /\ day = ByOverride(overrides[e][date])
    \/ at = "holiday" /\ \E y \in HighestPriority(Matching(e, date)) : day = ByHoliday(y)
    \/ /\ at = "schedule"
       /\ \/ /\ LatestAssignment(e) = 0 \/ ~InEffect(assignments[LatestAssignment(e)], date)
             /\ day = ByDefault
          \/ /\ LatestAssignment(e) # 0 /\ InEffect(assignments[LatestAssignment(e)], date)
             /\ LiveIn(schedules, assignments[LatestAssignment(e)].schedule)
             /\ day = BySchedule(schedules[assignments[LatestAssignment(e)].schedule], date)

\* ... and what it finds when it leaves the day to the next query.
NothingAt(at, e, date) ==
    \/ at = "override" /\ overrides[e][date] = None
    \/ at = "holiday" /\ Matching(e, date) = {}

NextSearch(at) == IF at = "override" THEN "holiday" ELSE "schedule"

SearchEnds(t, next) ==
    \/ t.at = "schedule" /\ next = Idle
    \/ /\ NothingAt(t.at, t.use.employee, Head(t.days))
       /\ next = [t EXCEPT !.at = NextSearch(t.at)]
    \/ \E day \in DayResolution :
           FoundDay(t.at, t.use.employee, Head(t.days), day) /\ next = Resolved(t, day)

LEMMA SearchStep ==
    ASSUME NEW h \in Handlers, FindOverride(h) \/ FindHolidays(h) \/ FindSchedule(h)
    PROVE  /\ task[h].at \in Searches
           /\ \E next : Read(h, next) /\ SearchEnds(task[h], next)
<1> PICK t : t = task[h]
  OBVIOUS
<1> DEFINE e == t.use.employee
           date == Head(t.days)
           i == LatestAssignment(e)
<1>1. CASE FindOverride(h)
  <2>1. t.at = "override" /\ Read(h, IF overrides[e][date] = None THEN [t EXCEPT !.at = "holiday"]
                                     ELSE Resolved(t, ByOverride(overrides[e][date])))
    BY <1>1, Zenon DEF FindOverride, At
  <2>2. CASE overrides[e][date] = None
    BY <2>1, <2>2 DEF SearchEnds, NothingAt, NextSearch, Searches
  <2>3. CASE overrides[e][date] # None
    <3>1. ByOverride(overrides[e][date]) \in DayResolution
      BY DEF ByOverride, DayResolution, Opt
    <3>2. FoundDay(t.at, e, date, ByOverride(overrides[e][date]))
      BY <2>1, <2>3 DEF FoundDay
    <3> HIDE DEF e, date
    <3> QED BY <2>1, <2>3, <3>1, <3>2 DEF SearchEnds, Searches, e, date
  <2> QED BY <2>2, <2>3
<1>2. CASE FindHolidays(h)
  <2>1. t.at = "holiday"
    BY <1>2 DEF FindHolidays, At
  <2>2. CASE Matching(e, date) = {}
    <3>1. Read(h, [t EXCEPT !.at = "schedule"])
      BY <1>2, <2>2, Zenon DEF FindHolidays
    <3> QED BY <2>1, <2>2, <3>1 DEF SearchEnds, NothingAt, NextSearch, Searches
  <2>3. CASE Matching(e, date) # {}
    <3>1. PICK y \in HighestPriority(Matching(e, date)) : Read(h, Resolved(t, ByHoliday(y)))
      BY <1>2, <2>3, Zenon DEF FindHolidays
    <3>2. y \in HolidayIds
      BY <3>1 DEF HighestPriority, Matching
    <3>3. ByHoliday(y) \in DayResolution /\ FoundDay(t.at, e, date, ByHoliday(y))
      BY <2>1, <3>1, <3>2 DEF ByHoliday, DayResolution, Opt, FoundDay
    <3> HIDE DEF e, date
    <3> QED BY <2>1, <3>1, <3>3 DEF SearchEnds, Searches, e, date
  <2> QED BY <2>2, <2>3
<1>3. CASE FindSchedule(h)
  <2> DEFINE schedule == assignments[i].schedule
  <2>1. t.at = "schedule"
    BY <1>3 DEF FindSchedule, At
  <2>2. CASE i = 0 \/ ~InEffect(assignments[i], date)
    <3>1. Read(h, Resolved(t, ByDefault))
      BY <1>3, <2>2, Zenon DEF FindSchedule
    <3>2. ByDefault \in DayResolution /\ FoundDay(t.at, e, date, ByDefault)
      BY <2>1, <2>2 DEF ByDefault, DayResolution, Opt, FoundDay
    <3> HIDE DEF e, date
    <3> QED BY <2>1, <3>1, <3>2 DEF SearchEnds, Searches, e, date
  <2>3. CASE i # 0 /\ InEffect(assignments[i], date) /\ ~LiveIn(schedules, schedule)
    <3>1. Read(h, Idle)
      BY <1>3, <2>3, Zenon DEF FindSchedule
    <3> QED BY <2>1, <3>1 DEF SearchEnds, Searches
  <2>4. CASE i # 0 /\ InEffect(assignments[i], date) /\ LiveIn(schedules, schedule)
    <3> DEFINE day == BySchedule(schedules[schedule], date)
    <3>1. Read(h, Resolved(t, day))
      BY <1>3, <2>4, Zenon DEF FindSchedule
    <3>2. day \in DayResolution
      BY DEF BySchedule, DayResolution, Opt
    <3>3. FoundDay(t.at, e, date, day)
      BY <2>1, <2>4 DEF FoundDay
    <3> HIDE DEF e, date, day
    <3> QED BY <2>1, <3>1, <3>2, <3>3 DEF SearchEnds, Searches, e, date
  <2> QED BY <2>2, <2>3, <2>4
<1> QED BY <1>1, <1>2, <1>3


LEMMA SearchTheDay ==
    ASSUME NEW at \in Searches, NEW use \in AttendUse, NEW next,
           SearchEnds(TheDay(at, use), next)
    PROVE  \/ next = Idle
           \/ /\ NothingAt(at, use.employee, use.date)
              /\ next = TheDay(NextSearch(at), use)
           \/ \E day \in DayResolution :
                  FoundDay(at, use.employee, use.date, day) /\ next = OfficeTask(use, day)
<1> PICK t : t = TheDay(at, use)
  OBVIOUS
<1>1. t.at = at /\ t.use = use /\ Head(t.days) = use.date
  BY SearchFields
<1>2. /\ [t EXCEPT !.at = NextSearch(at)] = TheDay(NextSearch(at), use)
      /\ \A day : Resolved(t, day) = OfficeTask(use, day)
  BY SearchAdvances, ResolvedTheDay
<1>3. SearchEnds(t, next)
  OBVIOUS
<1> QED BY <1>1, <1>2, <1>3, Zenon DEF SearchEnds

LEMMA SearchFirstDay ==
    ASSUME NEW at \in Searches, NEW use \in RequestUse \cup ReviewUse, NEW next,
           SearchEnds(FirstDay(at, use), next)
    PROVE  \/ next = Idle
           \/ /\ NothingAt(at, use.employee, use.original)
              /\ next = FirstDay(NextSearch(at), use)
           \/ \E day \in DayResolution :
                  /\ FoundDay(at, use.employee, use.original, day)
                  /\ next = SecondDay("override", use, day)
<1> PICK t : t = FirstDay(at, use)
  OBVIOUS
<1>1. t.at = at /\ t.use = use /\ Head(t.days) = use.original
  BY SearchFields
<1>2. /\ [t EXCEPT !.at = NextSearch(at)] = FirstDay(NextSearch(at), use)
      /\ \A day : Resolved(t, day) = SecondDay("override", use, day)
  BY SearchAdvances, ResolvedFirstDay
<1>3. SearchEnds(t, next)
  OBVIOUS
<1> QED BY <1>1, <1>2, <1>3, Zenon DEF SearchEnds

LEMMA SearchSecondDay ==
    ASSUME NEW at \in Searches, NEW use \in RequestUse \cup ReviewUse, NEW first, NEW next,
           SearchEnds(SecondDay(at, use, first), next)
    PROVE  \/ next = Idle
           \/ /\ NothingAt(at, use.employee, use.replacement)
              /\ next = SecondDay(NextSearch(at), use, first)
           \/ /\ \E day \in DayResolution :
                  FoundDay(at, use.employee, use.replacement, day) /\ ~day.offDay
              /\ first.offDay
              /\ next = UseTask(IF use.op = "request" THEN "pending" ELSE "swap", use)
<1> PICK t : t = SecondDay(at, use, first)
  OBVIOUS
<1> PICK passed : passed = UseTask(IF use.op = "request" THEN "pending" ELSE "swap", use)
  OBVIOUS
<1>1. t.at = at /\ t.use = use /\ Head(t.days) = use.replacement
  BY SearchFields
<1>2. /\ [t EXCEPT !.at = NextSearch(at)] = SecondDay(NextSearch(at), use, first)
      /\ \A day : Resolved(t, day) = IF first.offDay /\ ~day.offDay THEN passed ELSE Idle
  BY SearchAdvances, ResolvedSecondDay
<1>3. SearchEnds(t, next)
  OBVIOUS
<1> QED BY <1>1, <1>2, <1>3, Zenon DEF SearchEnds

LEMMA NextSearchOnward ==
    \A at, e, date : NextSearch(at) \in {"holiday", "schedule"}
BY DEF NextSearch

\* Whatever the query finds, the handler goes on with a sound task of the same request, or ends.
LEMMA SearchSound ==
    ASSUME NEW t, NEW next, Searching(t), SearchEnds(t, next)
    PROVE  /\ SoundTask(next)
           /\ next.at \in Searches \cup {"idle", "offices", "pending", "swap"}
           /\ next.at # "assign" /\ t.at \in Searches
           /\ next = Idle \/ next.id = t.id
<1> USE SearchFields, NextSearchOnward
<1>1. PICK at \in Searches :
        \/ \E use \in AttendUse : t = TheDay(at, use)
        \/ \E use \in RequestUse \cup ReviewUse :
               t = FirstDay(at, use) \/ \E day \in DayResolution : t = SecondDay(at, use, day)
  BY DEF Searching
<1>2. ASSUME NEW use \in AttendUse, t = TheDay(at, use)
      PROVE  /\ SoundTask(next) /\ t.at = at /\ (next = Idle \/ next.id = t.id)
             /\ next.at \in Searches \cup {"idle", "offices", "pending", "swap"}
  <2>1. \/ next = Idle
        \/ next = TheDay(NextSearch(at), use)
        \/ \E day \in DayResolution : next = OfficeTask(use, day)
    BY <1>2, SearchTheDay
  <2>2. \/ next = Idle
        \/ Searching(next) /\ next.at \in Searches /\ next.id = use.id
        \/ Attending(next) /\ next.at = "offices" /\ next.id = use.id
    BY <2>1 DEF Searching, Searches, Attending, OfficeTask
  <2> QED BY <1>2, <2>2 DEF SoundTask, Idle, Searches
<1>3. ASSUME NEW use \in RequestUse \cup ReviewUse, t = FirstDay(at, use)
      PROVE  /\ SoundTask(next) /\ t.at = at /\ (next = Idle \/ next.id = t.id)
             /\ next.at \in Searches \cup {"idle", "offices", "pending", "swap"}
  <2>1. \/ next = Idle
        \/ next = FirstDay(NextSearch(at), use)
        \/ \E day \in DayResolution : next = SecondDay("override", use, day)
    BY <1>3, SearchFirstDay
  <2>2. \/ next = Idle
        \/ Searching(next) /\ next.at \in Searches /\ next.id = use.id
    BY <2>1 DEF Searching, Searches
  <2> QED BY <1>3, <2>2 DEF SoundTask, Idle, Searches
<1>4. ASSUME NEW use \in RequestUse \cup ReviewUse, NEW first \in DayResolution,
             t = SecondDay(at, use, first)
      PROVE  /\ SoundTask(next) /\ t.at = at /\ (next = Idle \/ next.id = t.id)
             /\ next.at \in Searches \cup {"idle", "offices", "pending", "swap"}
  <2>1. \/ next = Idle
        \/ next = SecondDay(NextSearch(at), use, first)
        \/ next = UseTask(IF use.op = "request" THEN "pending" ELSE "swap", use)
    BY <1>4, SearchSecondDay
  <2>2. CASE next = UseTask(IF use.op = "request" THEN "pending" ELSE "swap", use)
    <3>1. Swapping(next) /\ next.at \in {"pending", "swap"} /\ next.id = use.id
      BY <2>2 DEF Swapping, RequestUse, ReviewUse, UseTask
    <3> QED BY <1>4, <3>1 DEF SoundTask
  <2>3. CASE next # UseTask(IF use.op = "request" THEN "pending" ELSE "swap", use)
    <3>1. \/ next = Idle
          \/ Searching(next) /\ next.at \in Searches /\ next.id = use.id
      BY <2>1, <2>3 DEF Searching, Searches
    <3> QED BY <1>4, <3>1 DEF SoundTask, Idle, Searches
  <2> QED BY <2>2, <2>3
<1> QED BY <1>1, <1>2, <1>3, <1>4 DEF Searches


-----------------------------------------------------------------------------
(***************************************************************************)
(* Arrivals                                                                *)
(***************************************************************************)
\* What a request begins with, by the table it is about.
SavesRow(next) ==
    \/ \E s \in Schedules, row \in WorkSchedule : row.live /\ next = Saving("schedules", s, row)
    \/ \E y \in HolidayIds, row \in Holiday : row.live /\ next = Saving("holidays", y, row)
    \/ \E o \in Offices, row \in OfficeLocation : row.live /\ next = Saving("offices", o, row)

RemovesRow(next) ==
    \/ \E s \in Schedules : LiveIn(schedules, s) /\ next = RemovalTask("count", "schedules", s)
    \/ \E y \in HolidayIds : LiveIn(holidays, y) /\ next = RemovalTask("count", "holidays", y)
    \/ \E o \in Offices : LiveIn(offices, o) /\ next = RemovalTask("count", "offices", o)

Assigns(next) ==
    \E dto \in AssignWorkScheduleDto :
        /\ LiveIn(schedules, dto.schedule)
        /\ Len(assignments) + Cardinality(Assigners) < MaxAssignments
        /\ next = [at |-> "assign", id |-> None, row |-> dto]

Overrides(next) ==
    \E dto \in CreateEmployeeDayOverrideDto :
        next = [at |-> "override_save", id |-> None, dto |-> dto]

AsksForSwap(next) ==
    \E use \in RequestUse : use.id \in Fresh(requests) /\ next = FirstDay("override", use)

ReviewsSwap(next) ==
    \/ \E use \in ReviewUse :
           /\ requests[use.id] # None /\ requests[use.id].status = "pending"
           /\ next = FirstDay("override", use)
    \/ \E r \in RequestIds, row \in OffDayReplacementRequest :
           /\ requests[r] # None /\ requests[r].status = "pending"
           /\ row.original # row.replacement /\ row.status # "approved"
           /\ next = Saving("requests", r, row)

RecordsDay(next) ==
    \E use \in AttendUse : use.id \in Fresh(records) /\ next = TheDay("override", use)

Decided(row, approval) == [row EXCEPT !.approval = approval]

Decides(next) ==
    \E a \in RecordIds, approval \in Approval :
        records[a] # None /\ next = Saving("records", a, Decided(records[a], approval))

NewTask(next) ==
    \/ SavesRow(next) \/ RemovesRow(next) \/ Assigns(next) \/ Overrides(next)
    \/ AsksForSwap(next) \/ ReviewsSwap(next) \/ RecordsDay(next) \/ Decides(next)

LEMMA RowFields ==
    ASSUME TablesTyped
    PROVE  /\ \A s \in Schedules : schedules[s] # None => schedules[s] \in WorkSchedule
           /\ \A y \in HolidayIds : holidays[y] # None => holidays[y] \in Holiday
           /\ \A o \in Offices : offices[o] # None => offices[o] \in OfficeLocation
           /\ \A r \in RequestIds : requests[r] # None =>
                  requests[r] \in OffDayReplacementRequest
           /\ \A a \in RecordIds : records[a] # None => records[a] \in AttendanceRecord
BY DEF TablesTyped, Opt

LEMMA DecidedTyped ==
    ASSUME NEW row \in AttendanceRecord, NEW approval \in Approval
    PROVE  /\ Decided(row, approval) \in AttendanceRecord
           /\ Decided(row, approval).day = row.day
           /\ Decided(row, approval).checkIn = row.checkIn
           /\ Decided(row, approval).checkOut = row.checkOut
           /\ Decided(row, approval).employee = row.employee
           /\ Decided(row, approval).date = row.date
BY DEF Decided, AttendanceRecord, Approval

LEMMA NewIdFresh ==
    ASSUME NEW table, Fresh(table) # {}
    PROVE  NewId(table) \in Fresh(table)
BY DEF NewId

LEMMA ScheduleArrival ==
    ASSUME TypeInv, NEW h \in Handlers, ScheduleRequest(h)
    PROVE  \E next : Arrive(h, next) /\ NewTask(next)
<1> USE DEF TypeInv
<1>1. ASSUME NEW rules \in Rules, CreateSchedule(h, rules)
      PROVE  \E next : Arrive(h, next) /\ SavesRow(next)
  <2>1. NewId(schedules) \in Schedules
    BY <1>1, NewIdFresh DEF CreateSchedule, Fresh, TablesTyped
  <2>2. [live |-> TRUE, weekDays |-> rules] \in WorkSchedule
    BY RowAssumption DEF WorkSchedule
  <2> QED BY <1>1, <2>1, <2>2 DEF CreateSchedule, SavesRow
<1>2. ASSUME NEW s \in Schedules, NEW rules \in Rules, UpdateSchedule(h, s, rules)
      PROVE  \E next : Arrive(h, next) /\ SavesRow(next)
  <2>1. schedules[s] \in WorkSchedule /\ schedules[s].live
    BY <1>2, RowFields DEF UpdateSchedule, LiveIn
  <2> DEFINE row == [schedules[s] EXCEPT !.weekDays = rules]
  <2>2. row \in WorkSchedule /\ row.live
    BY <2>1, RowAssumption DEF WorkSchedule
  <2>3. Arrive(h, Saving("schedules", s, row))
    BY <1>2 DEF UpdateSchedule
  <2> HIDE DEF row
  <2> QED BY <2>2, <2>3 DEF SavesRow
<1>3. ASSUME NEW s \in Schedules, RemoveSchedule(h, s)
      PROVE  \E next : Arrive(h, next) /\ RemovesRow(next)
  BY <1>3 DEF RemoveSchedule, RemovesRow, RemovalTask
<1>4. ASSUME NEW dto \in AssignWorkScheduleDto, AssignToEmployee(h, dto)
      PROVE  \E next : Arrive(h, next) /\ Assigns(next)
  BY <1>4 DEF AssignToEmployee, Assigns, Assigners
<1>5. ASSUME NEW dto \in CreateEmployeeDayOverrideDto, CreateEmployeeDayOverride(h, dto)
      PROVE  \E next : Arrive(h, next) /\ Overrides(next)
  BY <1>5 DEF CreateEmployeeDayOverride, Overrides
<1>6. ASSUME NEW dto \in CreateOffDayReplacementRequestDto, CreateReplacementRequest(h, dto)
      PROVE  \E next : Arrive(h, next) /\ AsksForSwap(next)
  <2> DEFINE use == [op |-> "request", id |-> NewId(requests), employee |-> dto.employee,
                     original |-> dto.original, replacement |-> dto.replacement,
                     status |-> "pending"]
  <2>1. NewId(requests) \in Fresh(requests) /\ Fresh(requests) \subseteq RequestIds
    BY <1>6, NewIdFresh DEF CreateReplacementRequest, Fresh, TablesTyped
  <2>2. use \in RequestUse
    BY <2>1 DEF RequestUse, CreateOffDayReplacementRequestDto
  <2>3. Resolving(use, <<dto.original, dto.replacement>>) = FirstDay("override", use)
    BY DEF Resolving, FirstDay
  <2> QED BY <1>6, <2>1, <2>2, <2>3 DEF CreateReplacementRequest, AsksForSwap
<1>7. ASSUME NEW r \in RequestIds, NEW decision \in ReviewOffDayReplacementRequestDto,
             ReviewReplacementRequest(h, r, decision)
      PROVE  \E next : Arrive(h, next) /\ ReviewsSwap(next)
  <2> DEFINE use == [op |-> "review", id |-> r, employee |-> requests[r].employee,
                     original |-> requests[r].original,
                     replacement |-> requests[r].replacement, status |-> decision]
  <2>1. /\ requests[r] # None /\ requests[r].status = "pending"
        /\ requests[r] \in OffDayReplacementRequest
        /\ requests[r].original # requests[r].replacement
    BY <1>7, RowFields DEF ReviewReplacementRequest, TablesTyped
  <2>2. CASE decision = "approved"
    <3>1. use \in ReviewUse
      BY <2>1, <2>2 DEF ReviewUse, OffDayReplacementRequest
    <3>2. Arrive(h, Resolving(use, <<use.original, use.replacement>>))
      BY <1>7, <2>2, Zenon DEF ReviewReplacementRequest
    <3>3. Resolving(use, <<use.original, use.replacement>>) = FirstDay("override", use)
      BY DEF Resolving, FirstDay
    <3>4. use.id = r
      OBVIOUS
    <3> HIDE DEF use
    <3> QED BY <2>1, <3>1, <3>2, <3>3, <3>4 DEF ReviewsSwap
  <2>3. CASE decision # "approved"
    <3>1. Arrive(h, Saving("requests", r, RequestRow(use)))
      BY <1>7, <2>3, Zenon DEF ReviewReplacementRequest
    <3> DEFINE row == RequestRow(use)
    <3>2. /\ row \in OffDayReplacementRequest /\ row.original # row.replacement
          /\ row.status # "approved"
      BY <2>1, <2>3 DEF RequestRow, OffDayReplacementRequest, ReviewOffDayReplacementRequestDto
    <3> HIDE DEF row
    <3> QED BY <2>1, <3>1, <3>2 DEF ReviewsSwap, row
  <2> QED BY <2>2, <2>3
<1> QED BY <1>1, <1>2, <1>3, <1>4, <1>5, <1>6, <1>7, Zenon DEF ScheduleRequest, NewTask

LEMMA HolidayArrival ==
    ASSUME TypeInv, NEW h \in Handlers, HolidayRequest(h)
    PROVE  \E next : Arrive(h, next) /\ NewTask(next)
<1> USE DEF TypeInv
<1>1. ASSUME NEW dto \in CreateHolidayDto, CreateHoliday(h, dto)
      PROVE  \E next : Arrive(h, next) /\ SavesRow(next)
  <2>1. NewId(holidays) \in HolidayIds
    BY <1>1, NewIdFresh DEF CreateHoliday, Fresh, TablesTyped
  <2>2. [live |-> TRUE, isActive |-> TRUE, date |-> dto.date, target |-> dto.target] \in Holiday
    BY DEF CreateHolidayDto, Holiday, HolidayTarget
  <2> QED BY <1>1, <2>1, <2>2 DEF CreateHoliday, SavesRow
<1>2. ASSUME NEW y \in HolidayIds, NEW dto \in UpdateHolidayDto, UpdateHoliday(h, y, dto)
      PROVE  \E next : Arrive(h, next) /\ SavesRow(next)
  <2>1. [live |-> TRUE, isActive |-> dto.isActive, date |-> dto.date, target |-> dto.target]
            \in Holiday
    BY DEF UpdateHolidayDto, Holiday, HolidayTarget
  <2> QED BY <1>2, <2>1 DEF UpdateHoliday, SavesRow
<1>3. ASSUME NEW y \in HolidayIds, RemoveHoliday(h, y)
      PROVE  \E next : Arrive(h, next) /\ RemovesRow(next)
  BY <1>3 DEF RemoveHoliday, RemovesRow, RemovalTask
<1> QED BY <1>1, <1>2, <1>3, Zenon DEF HolidayRequest, NewTask

LEMMA OfficeArrival ==
    ASSUME TypeInv, NEW h \in Handlers, OfficeRequest(h)
    PROVE  \E next : Arrive(h, next) /\ NewTask(next)
<1> USE DEF TypeInv
<1>1. ASSUME NEW o \in Offices, NEW isActive \in BOOLEAN, UpdateOffice(h, o, isActive)
      PROVE  \E next : Arrive(h, next) /\ SavesRow(next)
  <2>1. offices[o] \in OfficeLocation /\ offices[o].live
    BY <1>1, RowFields DEF UpdateOffice, LiveIn
  <2> DEFINE row == [offices[o] EXCEPT !.isActive = isActive]
  <2>2. row \in OfficeLocation /\ row.live
    BY <2>1 DEF OfficeLocation
  <2>3. Arrive(h, Saving("offices", o, row))
    BY <1>1 DEF UpdateOffice
  <2> HIDE DEF row
  <2> QED BY <2>2, <2>3 DEF SavesRow
<1>2. ASSUME NEW o \in Offices, RemoveOffice(h, o)
      PROVE  \E next : Arrive(h, next) /\ RemovesRow(next)
  BY <1>2 DEF RemoveOffice, RemovesRow, RemovalTask
<1> QED BY <1>1, <1>2, Zenon DEF OfficeRequest, NewTask

LEMMA AttendanceArrival ==
    ASSUME TypeInv, NEW h \in Handlers, AttendanceRequest(h)
    PROVE  \E next : Arrive(h, next) /\ NewTask(next)
<1> USE DEF TypeInv
<1>1. ASSUME NEW dto \in CreateAttendanceDto, CreateAttendance(h, dto)
      PROVE  \E next : Arrive(h, next) /\ RecordsDay(next)
  <2> DEFINE use == [op |-> "attend", id |-> NewId(records), employee |-> dto.employee,
                     date |-> dto.date, in |-> dto.in, out |-> dto.out]
  <2>1. NewId(records) \in Fresh(records) /\ Fresh(records) \subseteq RecordIds
    BY <1>1, NewIdFresh DEF CreateAttendance, Fresh, TablesTyped
  <2>2. use \in AttendUse
    BY <2>1 DEF AttendUse, CreateAttendanceDto
  <2>3. Resolving(use, <<dto.date>>) = TheDay("override", use)
    BY DEF Resolving, TheDay
  <2> QED BY <1>1, <2>1, <2>2, <2>3 DEF CreateAttendance, RecordsDay
<1>2. ASSUME NEW a \in RecordIds, NEW decision \in ApproveAttendanceDto,
             ApproveAttendance(h, a, decision)
      PROVE  \E next : Arrive(h, next) /\ Decides(next)
  BY <1>2 DEF ApproveAttendance, Decides, Decided, ApproveAttendanceDto, Approval
<1> QED BY <1>1, <1>2, Zenon DEF AttendanceRequest, NewTask

LEMMA Arrival ==
    ASSUME TypeInv, NEW h \in Handlers, Request(h)
    PROVE  \E next : Arrive(h, next) /\ NewTask(next)
BY ScheduleArrival, HolidayArrival, OfficeArrival, AttendanceArrival DEF Request


-----------------------------------------------------------------------------
(***************************************************************************)
(* Saves and removals, table by table                                      *)
(***************************************************************************)
PutSchedule(s, row) ==
    /\ schedules' = [schedules EXCEPT ![s] = row]
    /\ UNCHANGED <<holidays, offices, requests, records, assignments, overrides>>
PutHoliday(y, row) ==
    /\ holidays' = [holidays EXCEPT ![y] = row]
    /\ UNCHANGED <<schedules, offices, requests, records, assignments, overrides>>
PutOffice(o, row) ==
    /\ offices' = [offices EXCEPT ![o] = row]
    /\ UNCHANGED <<schedules, holidays, requests, records, assignments, overrides>>
PutRequest(r, row) ==
    /\ requests' = [requests EXCEPT ![r] = row]
    /\ UNCHANGED <<schedules, holidays, offices, records, assignments, overrides>>
PutRecord(a, row) ==
    /\ records' = [records EXCEPT ![a] = row]
    /\ UNCHANGED <<schedules, holidays, offices, requests, assignments, overrides>>

LEMMA PutForms ==
    \A id, row :
        /\ Put("schedules", id, row) => PutSchedule(id, row)
        /\ Put("holidays", id, row) => PutHoliday(id, row)
        /\ Put("offices", id, row) => PutOffice(id, row)
        /\ Put("requests", id, row) => PutRequest(id, row)
        /\ Put("records", id, row) => PutRecord(id, row)
BY DEF Put, PutSchedule, PutHoliday, PutOffice, PutRequest, PutRecord

LEMMA SavingFields ==
    \A table, id, row :
        /\ Saving(table, id, row).at = "save" /\ Saving(table, id, row).table = table
        /\ Saving(table, id, row).id = id /\ Saving(table, id, row).row = row
BY DEF Saving

SavedRow(t) ==
    \/ \E s \in Schedules, row \in WorkSchedule :
           row.live /\ t = Saving("schedules", s, row) /\ PutSchedule(s, row)
    \/ \E y \in HolidayIds, row \in Holiday :
           row.live /\ t = Saving("holidays", y, row) /\ PutHoliday(y, row)
    \/ \E o \in Offices, row \in OfficeLocation :
           row.live /\ t = Saving("offices", o, row) /\ PutOffice(o, row)

SavedRequest(t) ==
    \E r \in RequestIds, row \in OffDayReplacementRequest :
        /\ row.original # row.replacement
        /\ t = Saving("requests", r, row) /\ PutRequest(r, row)

SavedRecord(t) ==
    \E a \in RecordIds, row \in AttendanceRecord :
        t = Saving("records", a, row) /\ PutRecord(a, row)

\* A handler at a save holds a row for one of the tables.
LEMMA StopOf ==
    ASSUME NEW t, SoundTask(t)
    PROVE  /\ t.at \in Searches => Searching(t)
           /\ t.at \in {"offices", "check_out"} => Attending(t)
           /\ t.at \in {"pending", "swap"} => Swapping(t)
           /\ t.at = "save" => SavingRow(t)
           /\ t.at \in {"count", "delete"} => Removing(t)
           /\ t.at \in {"assign", "override_save"} => Assigning(t)
           /\ t.at = "idle" => t = Idle
<1>1. t = Idle => t.at = "idle"
  BY DEF Idle
<1>2. Searching(t) => t.at \in Searches
  BY SearchFields DEF Searching
<1>3. Attending(t) => t.at \in {"offices", "check_out"}
  BY DEF Attending, OfficeTask, OutTask
<1>4. Swapping(t) => t.at \in {"pending", "swap"}
  BY DEF Swapping, UseTask
<1>5. SavingRow(t) => t.at = "save"
  BY SavingFields DEF SavingRow
<1>6. Removing(t) => t.at \in {"count", "delete"}
  BY DEF Removing, RemovalTask
<1>7. Assigning(t) => t.at \in {"assign", "override_save"}
  BY DEF Assigning
<1> QED BY <1>1, <1>2, <1>3, <1>4, <1>5, <1>6, <1>7 DEF SoundTask, Searches

LEMMA SaveStep ==
    ASSUME TasksTyped, NEW h \in Handlers, Save(h)
    PROVE  /\ Step(h, Idle) /\ UNCHANGED swaps
           /\ SavedRow(task[h]) \/ SavedRequest(task[h]) \/ SavedRecord(task[h])
<1> PICK t : t = task[h]
  OBVIOUS
<1>1. t.at = "save" /\ Put(t.table, t.id, t.row) /\ Step(h, Idle) /\ UNCHANGED swaps
  BY DEF Save, At
<1>2. SavingRow(t)
  BY <1>1, StopOf DEF TasksTyped
<1>3. ASSUME NEW s \in Schedules, NEW row \in WorkSchedule, row.live,
             t = Saving("schedules", s, row)
      PROVE  SavedRow(t)
  BY <1>1, <1>3, PutForms, SavingFields DEF SavedRow
<1>4. ASSUME NEW y \in HolidayIds, NEW row \in Holiday, row.live,
             t = Saving("holidays", y, row)
      PROVE  SavedRow(t)
  BY <1>1, <1>4, PutForms, SavingFields DEF SavedRow
<1>5. ASSUME NEW o \in Offices, NEW row \in OfficeLocation, row.live,
             t = Saving("offices", o, row)
      PROVE  SavedRow(t)
  BY <1>1, <1>5, PutForms, SavingFields DEF SavedRow
<1>6. ASSUME NEW r \in RequestIds, NEW row \in OffDayReplacementRequest,
             row.original # row.replacement, t = Saving("requests", r, row)
      PROVE  SavedRequest(t)
  BY <1>1, <1>6, PutForms, SavingFields DEF SavedRequest
<1>7. ASSUME NEW a \in RecordIds, NEW row \in AttendanceRecord, t = Saving("records", a, row)
      PROVE  SavedRecord(t)
  BY <1>1, <1>7, PutForms, SavingFields DEF SavedRecord
<1> QED BY <1>1, <1>2, <1>3, <1>4, <1>5, <1>6, <1>7, Zenon DEF SavingRow

\* Wiping out a row keeps all of it but the mark.
Wiped(row) == [row EXCEPT !.live = FALSE]

DeletedRow(t) ==
    \/ \E s \in Schedules :
           t = RemovalTask("delete", "schedules", s) /\ PutSchedule(s, Wiped(schedules[s]))
    \/ \E y \in HolidayIds :
           t = RemovalTask("delete", "holidays", y) /\ PutHoliday(y, Wiped(holidays[y]))
    \/ \E o \in Offices :
           t = RemovalTask("delete", "offices", o) /\ PutOffice(o, Wiped(offices[o]))

LEMMA RemovalFields ==
    \A at, table, id :
        /\ RemovalTask(at, table, id).at = at /\ RemovalTask(at, table, id).table = table
        /\ RemovalTask(at, table, id).id = id
BY DEF RemovalTask

LEMMA DeleteStep ==
    ASSUME TasksTyped, NEW h \in Handlers, Delete(h)
    PROVE  /\ Step(h, Idle) /\ UNCHANGED swaps
           /\ DeletedRow(task[h])
<1> PICK t : t = task[h]
  OBVIOUS
<1>1. t.at = "delete" /\ Step(h, Idle) /\ UNCHANGED swaps
  BY DEF Delete, At
<1>2. Removing(t)
  BY <1>1, StopOf DEF TasksTyped
<1>3. \/ t.table = "schedules" /\ PutSchedule(t.id, Wiped(schedules[t.id]))
      \/ t.table = "holidays" /\ PutHoliday(t.id, Wiped(holidays[t.id]))
      \/ t.table = "offices" /\ PutOffice(t.id, Wiped(offices[t.id]))
  BY PutForms, Zenon DEF Delete, Wiped
<1>4. \/ \E s \in Schedules : t = RemovalTask("delete", "schedules", s)
      \/ \E y \in HolidayIds : t = RemovalTask("delete", "holidays", y)
      \/ \E o \in Offices : t = RemovalTask("delete", "offices", o)
  BY <1>1, <1>2, RemovalFields DEF Removing
<1>5. \A table, id : RemovalTask("delete", table, id).table = table
                  /\ RemovalTask("delete", table, id).id = id
  BY RemovalFields
<1>6. DeletedRow(t)
  BY <1>3, <1>4, <1>5 DEF DeletedRow
<1> QED BY <1>1, <1>6


-----------------------------------------------------------------------------
(***************************************************************************)
(* Types are kept                                                          *)
(***************************************************************************)
LEMMA Grows ==
    ASSUME NEW S, NEW T, NEW x, IsFiniteSet(S), T \subseteq S \cup {x}
    PROVE  /\ IsFiniteSet(T)
           /\ Cardinality(S) \in Nat /\ Cardinality(T) \in Nat
           /\ Cardinality(T) <= Cardinality(S) + 1
<1>1. /\ IsFiniteSet(S \cup {x}) /\ Cardinality(S) \in Nat
      /\ Cardinality(S \cup {x}) <= Cardinality(S) + 1
  <2>1. IsFiniteSet(S \cup {x})
    BY FS_AddElement
  <2>2. Cardinality(S \cup {x}) = IF x \in S THEN Cardinality(S) ELSE Cardinality(S) + 1
    BY FS_AddElement
  <2>3. Cardinality(S) \in Nat
    BY FS_CardinalityType
  <2> QED BY <2>1, <2>2, <2>3
<1>2. /\ IsFiniteSet(T) /\ Cardinality(T) <= Cardinality(S \cup {x})
      /\ Cardinality(T) \in Nat /\ Cardinality(S \cup {x}) \in Nat
  BY <1>1, FS_Subset, FS_CardinalityType
<1> QED BY <1>1, <1>2

LEMMA Shrinks ==
    ASSUME NEW S, NEW T, IsFiniteSet(S), T \subseteq S
    PROVE  /\ IsFiniteSet(T)
           /\ Cardinality(S) \in Nat /\ Cardinality(T) \in Nat
           /\ Cardinality(T) <= Cardinality(S)
BY FS_Subset, FS_CardinalityType

LEMMA TasksStep ==
    ASSUME TasksTyped, NEW h \in Handlers, NEW next, Continue(h, next), SoundTask(next)
    PROVE  TasksTyped'
<1>1. /\ task'[h] = next /\ \A g \in Handlers : g # h => task'[g] = task[g]
      /\ DOMAIN task' = Handlers /\ task' = [g \in Handlers |-> task'[g]]
  BY ContinueTask
<1>2. \A g \in Handlers : SoundTask(task'[g])
  BY <1>1 DEF TasksTyped
<1> QED BY <1>1, <1>2 DEF TasksTyped

LEMMA CountsStep ==
    ASSUME TypeInv, NEW h \in Handlers, NEW next, Continue(h, next), next.at # "assign",
           assignments' = assignments,
           arrived' \in 0..MaxLoad, overlaps' \in 0..arrived', failures' \in 0..MaxFailures
    PROVE  CountsTyped'
<1>1. task'[h] = next /\ \A g \in Handlers : g # h => task'[g] = task[g]
  BY ContinueTask DEF TypeInv
<1>2. Assigners' \subseteq Assigners
  BY <1>1 DEF Assigners, At
<1>3. /\ IsFiniteSet(Assigners') /\ Cardinality(Assigners') <= Cardinality(Assigners)
      /\ Cardinality(Assigners') \in Nat /\ Cardinality(Assigners) \in Nat
  BY <1>2, Shrinks DEF TypeInv, CountsTyped
<1>4. Len(assignments) \in Nat
  BY DEF TypeInv, TablesTyped
<1> QED BY <1>3, <1>4, WorkDaysAssumption DEF TypeInv, CountsTyped

LEMMA NewTaskSound ==
    ASSUME TablesTyped, NEW next, NewTask(next)
    PROVE  SoundTask(next) /\ (next.at = "assign" => Assigns(next)) /\ next.at # "idle"
<1>1. CASE SavesRow(next)
  BY <1>1, SavingFields DEF SavesRow, SoundTask, SavingRow
<1>2. CASE RemovesRow(next)
  BY <1>2, RemovalFields DEF RemovesRow, SoundTask, Removing
<1>3. CASE Assigns(next)
  BY <1>3 DEF Assigns, SoundTask, Assigning
<1>4. CASE Overrides(next)
  BY <1>4 DEF Overrides, SoundTask, Assigning
<1>5. CASE AsksForSwap(next)
  BY <1>5, SearchFields DEF AsksForSwap, SoundTask, Searching, Searches
<1>6. CASE ReviewsSwap(next)
  BY <1>6, SearchFields, SavingFields DEF ReviewsSwap, SoundTask, Searching, SavingRow, Searches
<1>7. CASE RecordsDay(next)
  BY <1>7, SearchFields DEF RecordsDay, SoundTask, Searching, Searches
<1>8. CASE Decides(next)
  BY <1>8, SavingFields, DecidedTyped, RowFields DEF Decides, SoundTask, SavingRow
<1> QED BY <1>1, <1>2, <1>3, <1>4, <1>5, <1>6, <1>7, <1>8 DEF NewTask

LEMMA ArriveTypes ==
    ASSUME TypeInv, NEW h \in Handlers, NEW next, Arrive(h, next), NewTask(next)
    PROVE  TypeInv'
<1> USE DEF TypeInv
<1>1. TasksTyped'
  BY NewTaskSound, TasksStep DEF Arrive
<1>2. TablesTyped'
  BY DEF Arrive, tables, TablesTyped
<1>3. /\ arrived' \in 0..MaxLoad /\ overlaps' \in 0..arrived' /\ failures' \in 0..MaxFailures
      /\ UNCHANGED assignments /\ Continue(h, next)
  BY WorkDaysAssumption DEF Arrive, Ready, CountsTyped, tables
<1>4. CountsTyped'
  <2>1. CASE next.at # "assign"
    BY <1>3, <2>1, CountsStep
  <2>2. CASE next.at = "assign"
    <3>1. Len(assignments) + Cardinality(Assigners) < MaxAssignments
      BY <2>2, NewTaskSound DEF Assigns
    <3>2. task'[h] = next /\ \A g \in Handlers : g # h => task'[g] = task[g]
      BY <1>3, ContinueTask
    <3>3. Assigners' \subseteq Assigners \cup {h}
      BY <3>2 DEF Assigners, At
    <3>4. /\ IsFiniteSet(Assigners') /\ Cardinality(Assigners') <= Cardinality(Assigners) + 1
          /\ Cardinality(Assigners') \in Nat /\ Cardinality(Assigners) \in Nat
      BY <3>3, Grows DEF CountsTyped
    <3>5. Len(assignments) \in Nat
      BY DEF TablesTyped
    <3> QED BY <1>3, <3>1, <3>4, <3>5, WorkDaysAssumption DEF CountsTyped
  <2> QED BY <2>1, <2>2
<1> QED BY <1>1, <1>2, <1>4


LEMMA StepTypes ==
    ASSUME TypeInv, NEW h \in Handlers, NEW next, Step(h, next), SoundTask(next),
           next.at # "assign", TablesTyped', UNCHANGED assignments
    PROVE  TypeInv'
<1>1. Continue(h, next) /\ UNCHANGED <<arrived, overlaps, failures>>
  BY DEF Step
<1>2. TasksTyped'
  BY <1>1, TasksStep DEF TypeInv
<1>3. CountsTyped'
  BY <1>1, CountsStep DEF TypeInv, CountsTyped
<1> QED BY <1>2, <1>3 DEF TypeInv

LEMMA ReadTypes ==
    ASSUME TypeInv, NEW h \in Handlers, NEW next, Read(h, next), SoundTask(next),
           next.at # "assign"
    PROVE  TypeInv'
<1>1. Step(h, next) /\ UNCHANGED <<tables, swaps>>
  BY DEF Read
<1>2. TablesTyped' /\ UNCHANGED assignments
  BY <1>1 DEF TypeInv, TablesTyped, tables
<1> QED BY <1>1, <1>2, StepTypes

LEMMA IdleSound == SoundTask(Idle) /\ Idle.at = "idle"
BY DEF SoundTask, Idle

LEMMA SearchTypes ==
    ASSUME TypeInv, NEW h \in Handlers, FindOverride(h) \/ FindHolidays(h) \/ FindSchedule(h)
    PROVE  TypeInv'
<1>1. PICK next : task[h].at \in Searches /\ Read(h, next) /\ SearchEnds(task[h], next)
  BY SearchStep
<1>2. Searching(task[h])
  BY <1>1, StopOf DEF TypeInv, TasksTyped
<1>3. SoundTask(next) /\ next.at # "assign"
  BY <1>1, <1>2, SearchSound
<1> QED BY <1>1, <1>3, ReadTypes

LEMMA WipedTyped ==
    /\ \A row \in WorkSchedule : Wiped(row) \in WorkSchedule /\ ~Wiped(row).live
    /\ \A row \in Holiday : Wiped(row) \in Holiday /\ ~Wiped(row).live
    /\ \A row \in OfficeLocation : Wiped(row) \in OfficeLocation /\ ~Wiped(row).live
BY DEF Wiped, WorkSchedule, Holiday, OfficeLocation

LEMMA SaveTypes ==
    ASSUME TypeInv, NEW h \in Handlers, Save(h)
    PROVE  TypeInv'
<1> USE DEF TypeInv
<1>1. Step(h, Idle) /\ UNCHANGED swaps
  BY SaveStep
<1>2. TablesTyped' /\ UNCHANGED assignments
  <2>1. CASE SavedRow(task[h])
    <3>1. CASE \E s \in Schedules, row \in WorkSchedule : PutSchedule(s, row)
      BY <1>1, <3>1 DEF TablesTyped, PutSchedule, Opt
    <3>2. CASE \E y \in HolidayIds, row \in Holiday : PutHoliday(y, row)
      BY <1>1, <3>2 DEF TablesTyped, PutHoliday, Opt
    <3>3. CASE \E o \in Offices, row \in OfficeLocation : PutOffice(o, row)
      BY <1>1, <3>3 DEF TablesTyped, PutOffice, Opt
    <3> QED BY <2>1, <3>1, <3>2, <3>3 DEF SavedRow
  <2>2. CASE SavedRequest(task[h])
    BY <1>1, <2>2 DEF SavedRequest, TablesTyped, PutRequest, Opt
  <2>3. CASE SavedRecord(task[h])
    BY <1>1, <2>3 DEF SavedRecord, TablesTyped, PutRecord, Opt
  <2> QED BY <2>1, <2>2, <2>3, SaveStep
<1> QED BY <1>1, <1>2, IdleSound, StepTypes


\* What is to be removed has a row, deleted or not: without it the deletion would save no row.
HasRow(table, id) ==
    /\ table = "schedules" => schedules[id] # None
    /\ table = "holidays" => holidays[id] # None
    /\ table = "offices" => offices[id] # None

TargetsExist ==
    \A h \in Handlers :
        task[h].at \in {"count", "delete"} => HasRow(task[h].table, task[h].id)

RowsEndure ==
    /\ \A s \in Schedules : schedules[s] # None => schedules'[s] # None
    /\ \A y \in HolidayIds : holidays[y] # None => holidays'[y] # None
    /\ \A o \in Offices : offices[o] # None => offices'[o] # None

LEMMA TargetTyped ==
    ASSUME NEW t, SoundTask(t), t.at \in {"count", "delete"}
    PROVE  /\ t.table = "schedules" => t.id \in Schedules
           /\ t.table = "holidays" => t.id \in HolidayIds
           /\ t.table = "offices" => t.id \in Offices
           /\ t.table \in {"schedules", "holidays", "offices"}
           /\ t = RemovalTask(t.at, t.table, t.id)
<1>1. Removing(t)
  BY StopOf
<1> QED BY <1>1, RemovalFields DEF Removing

LEMMA TargetsStep ==
    ASSUME TypeInv, TargetsExist, NEW h \in Handlers, NEW next, Continue(h, next), RowsEndure,
           next.at \in {"count", "delete"} => SoundTask(next) /\ HasRow(next.table, next.id)
    PROVE  TargetsExist'
<1>0. task'[h] = next /\ \A g \in Handlers : g # h => task'[g] = task[g]
  BY ContinueTask DEF TypeInv
<1> SUFFICES ASSUME NEW g \in Handlers, task'[g].at \in {"count", "delete"}
             PROVE  HasRow(task[g].table, task[g].id)'
  BY DEF TargetsExist
<1> PICK t : t = task'[g]
  OBVIOUS
<1>1. SoundTask(t) /\ HasRow(t.table, t.id)
  BY <1>0 DEF TargetsExist, TypeInv, TasksTyped
<1>2. /\ t.table = "schedules" => schedules'[t.id] # None
      /\ t.table = "holidays" => holidays'[t.id] # None
      /\ t.table = "offices" => offices'[t.id] # None
  BY <1>1, TargetTyped DEF HasRow, RowsEndure
<1> QED BY <1>2 DEF HasRow

IInv == TypeInv /\ TargetsExist

LEMMA RowsStay ==
    ASSUME UNCHANGED <<schedules, holidays, offices>>
    PROVE  RowsEndure
BY DEF RowsEndure

LEMMA ReadInv ==
    ASSUME IInv, NEW h \in Handlers, NEW next, Read(h, next), SoundTask(next),
           next.at # "assign",
           next.at \in {"count", "delete"} => HasRow(next.table, next.id)
    PROVE  IInv'
<1>1. TypeInv'
  BY ReadTypes DEF IInv
<1>2. Continue(h, next) /\ RowsEndure
  BY RowsStay DEF Read, Step, tables
<1> QED BY <1>1, <1>2, TargetsStep DEF IInv

LEMMA EndInv ==
    ASSUME IInv, NEW h \in Handlers, Step(h, Idle), TypeInv', RowsEndure
    PROVE  IInv'
<1>1. Continue(h, Idle)
  BY DEF Step
<1> QED BY <1>1, IdleSound, TargetsStep DEF IInv

LEMMA ArriveInv ==
    ASSUME IInv, NEW h \in Handlers, NEW next, Arrive(h, next), NewTask(next)
    PROVE  IInv'
<1>1. TypeInv' /\ SoundTask(next)
  BY ArriveTypes, NewTaskSound DEF IInv, TypeInv
<1>2. Continue(h, next) /\ RowsEndure
  BY RowsStay DEF Arrive, tables
<1>3. next.at \in {"count", "delete"} => HasRow(next.table, next.id)
  <2>1. CASE RemovesRow(next)
    BY <2>1, RemovalFields DEF RemovesRow, HasRow, LiveIn
  <2>2. CASE ~RemovesRow(next)
    BY <2>2, SavingFields, SearchFields
    DEF NewTask, SavesRow, Assigns, Overrides, AsksForSwap, ReviewsSwap, RecordsDay, Decides
  <2> QED BY <2>1, <2>2
<1> QED BY <1>1, <1>2, <1>3, TargetsStep DEF IInv

LEMMA SearchInv ==
    ASSUME IInv, NEW h \in Handlers, FindOverride(h) \/ FindHolidays(h) \/ FindSchedule(h)
    PROVE  IInv'
<1>1. PICK next : task[h].at \in Searches /\ Read(h, next) /\ SearchEnds(task[h], next)
  BY SearchStep
<1>2. Searching(task[h])
  BY <1>1, StopOf DEF IInv, TypeInv, TasksTyped
<1>3. SoundTask(next) /\ next.at # "assign"
  BY <1>1, <1>2, SearchSound
<1>4. next.at \notin {"count", "delete"}
  BY <1>1, <1>2, SearchSound DEF Searches
<1> QED BY <1>1, <1>3, <1>4, ReadInv

LEMMA SaveInv ==
    ASSUME IInv, NEW h \in Handlers, Save(h)
    PROVE  IInv'
<1>1. TypeInv' /\ Step(h, Idle)
  BY SaveTypes, SaveStep DEF IInv, TypeInv
<1>2. RowsEndure
  <2>0. SavedRow(task[h]) \/ SavedRequest(task[h]) \/ SavedRecord(task[h])
    BY SaveStep DEF IInv, TypeInv
  <2> USE RowAssumption DEF IInv, TypeInv, TablesTyped, RowsEndure
  <2>1. CASE \E s \in Schedules, row \in WorkSchedule : PutSchedule(s, row)
    BY <2>1 DEF PutSchedule
  <2>2. CASE \E y \in HolidayIds, row \in Holiday : PutHoliday(y, row)
    BY <2>2 DEF PutHoliday
  <2>3. CASE \E o \in Offices, row \in OfficeLocation : PutOffice(o, row)
    BY <2>3 DEF PutOffice
  <2>4. CASE SavedRequest(task[h]) \/ SavedRecord(task[h])
    BY <2>4, RowsStay DEF SavedRequest, SavedRecord, PutRequest, PutRecord
  <2> QED BY <2>0, <2>1, <2>2, <2>3, <2>4 DEF SavedRow
<1> QED BY <1>1, <1>2, EndInv

LEMMA DeleteInv ==
    ASSUME IInv, NEW h \in Handlers, Delete(h)
    PROVE  IInv'
<1> USE DEF IInv, TypeInv
<1>1. Step(h, Idle) /\ UNCHANGED swaps /\ DeletedRow(task[h])
  BY DeleteStep
<1>2. HasRow(task[h].table, task[h].id)
  BY <1>1, RemovalFields DEF DeletedRow, TargetsExist
<1>3. TablesTyped' /\ UNCHANGED assignments /\ RowsEndure
  <2>1. ASSUME NEW s \in Schedules, task[h] = RemovalTask("delete", "schedules", s),
               PutSchedule(s, Wiped(schedules[s]))
        PROVE  TablesTyped' /\ UNCHANGED assignments /\ RowsEndure
    <3>1. Wiped(schedules[s]) \in WorkSchedule
      BY <1>2, <2>1, RemovalFields, RowFields, WipedTyped DEF HasRow
    <3> HIDE DEF Wiped
    <3> QED BY <1>1, <2>1, <3>1, RowAssumption DEF TablesTyped, PutSchedule, Opt, RowsEndure
  <2>2. ASSUME NEW y \in HolidayIds, task[h] = RemovalTask("delete", "holidays", y),
               PutHoliday(y, Wiped(holidays[y]))
        PROVE  TablesTyped' /\ UNCHANGED assignments /\ RowsEndure
    <3>1. Wiped(holidays[y]) \in Holiday
      BY <1>2, <2>2, RemovalFields, RowFields, WipedTyped DEF HasRow
    <3> QED BY <1>1, <2>2, <3>1, RowAssumption DEF TablesTyped, PutHoliday, Opt, RowsEndure
  <2>3. ASSUME NEW o \in Offices, task[h] = RemovalTask("delete", "offices", o),
               PutOffice(o, Wiped(offices[o]))
        PROVE  TablesTyped' /\ UNCHANGED assignments /\ RowsEndure
    <3>1. Wiped(offices[o]) \in OfficeLocation
      BY <1>2, <2>3, RemovalFields, RowFields, WipedTyped DEF HasRow
    <3> QED BY <1>1, <2>3, <3>1, RowAssumption DEF TablesTyped, PutOffice, Opt, RowsEndure
  <2> QED BY <1>1, <2>1, <2>2, <2>3 DEF DeletedRow
<1>4. TypeInv'
  BY <1>1, <1>3, IdleSound, StepTypes
<1> QED BY <1>1, <1>3, <1>4, EndInv


LEMMA SaveAssignmentInv ==
    ASSUME IInv, NEW h \in Handlers, SaveAssignment(h)
    PROVE  IInv'
<1> USE DEF IInv, TypeInv
<1>1. /\ At(h, "assign") /\ Step(h, Idle) /\ assignments' = Append(assignments, task[h].row)
      /\ UNCHANGED <<schedules, holidays, offices, requests, records, overrides, swaps>>
  BY DEF SaveAssignment
<1>2. /\ Continue(h, Idle) /\ UNCHANGED <<arrived, overlaps, failures>>
  BY <1>1 DEF Step
<1>3. task[h].row \in EmployeeWorkSchedule
  BY <1>1, StopOf DEF TasksTyped, At, Assigning, AssignWorkScheduleDto
<1>4. TablesTyped' /\ Len(assignments) \in Nat /\ Len(assignments') = Len(assignments) + 1
  BY <1>1, <1>3 DEF TablesTyped
<1>5. task'[h] = Idle /\ \A g \in Handlers : g # h => task'[g] = task[g]
  BY <1>2, ContinueTask
<1>6. Assigners' = Assigners \ {h} /\ h \in Assigners
  BY <1>1, <1>5, IdleSound DEF Assigners, At
<1>7. IsFiniteSet(Assigners)
  BY DEF CountsTyped
<1>8. /\ IsFiniteSet(Assigners') /\ Cardinality(Assigners') = Cardinality(Assigners) - 1
      /\ Cardinality(Assigners') \in Nat /\ Cardinality(Assigners) \in Nat
  BY <1>6, <1>7, FS_RemoveElement, FS_CardinalityType
<1>9. CountsTyped'
  BY <1>2, <1>4, <1>8, WorkDaysAssumption DEF CountsTyped
<1>10. TasksTyped'
  BY <1>2, IdleSound, TasksStep
<1>11. RowsEndure
  BY <1>1, RowsStay
<1> QED BY <1>1, <1>4, <1>9, <1>10, <1>11, EndInv

LEMMA SaveOverrideInv ==
    ASSUME IInv, NEW h \in Handlers, SaveOverride(h)
    PROVE  IInv'
<1> USE DEF IInv, TypeInv
<1> PICK dto : dto = task[h].dto
  OBVIOUS
<1>1. /\ At(h, "override_save") /\ Step(h, Idle)
      /\ overrides' = [overrides EXCEPT ![dto.employee][dto.date] = dto.type]
      /\ UNCHANGED <<schedules, holidays, offices, requests, records, assignments, swaps>>
  BY DEF SaveOverride
<1>2. dto \in CreateEmployeeDayOverrideDto
  BY <1>1, StopOf DEF TasksTyped, At, Assigning
<1>3. dto.employee \in Employees /\ dto.date \in Dates /\ dto.type \in EmployeeDayOverrideType
  BY <1>2 DEF CreateEmployeeDayOverrideDto
<1>4. overrides' \in [Employees -> [Dates -> Opt(EmployeeDayOverrideType)]]
  BY <1>1, <1>3 DEF TablesTyped, Opt
<1>5. TablesTyped' /\ RowsEndure
  BY <1>1, <1>4, RowsStay DEF TablesTyped
<1>6. TypeInv'
  BY <1>1, <1>5, IdleSound, StepTypes
<1> QED BY <1>1, <1>5, <1>6, EndInv

LEMMA CountInv ==
    ASSUME IInv, NEW h \in Handlers, Count(h)
    PROVE  IInv'
<1> PICK t : t = task[h]
  OBVIOUS
<1>1. /\ t.at = "count"
      /\ Read(h, IF Uses(t.table, t.id) = {} THEN [t EXCEPT !.at = "delete"] ELSE Idle)
  BY DEF Count, At
<1>2. SoundTask(t) /\ HasRow(t.table, t.id)
  BY <1>1 DEF IInv, TypeInv, TasksTyped, TargetsExist
<1>3. t = RemovalTask("count", t.table, t.id)
  BY <1>1, <1>2, TargetTyped
<1> PICK next : next = RemovalTask("delete", t.table, t.id)
  OBVIOUS
<1>4. [t EXCEPT !.at = "delete"] = next
  BY <1>3 DEF RemovalTask
<1>5. SoundTask(next) /\ next.at = "delete" /\ HasRow(next.table, next.id)
  BY <1>1, <1>2, TargetTyped, RemovalFields DEF SoundTask, Removing
<1>6. Read(h, next) \/ Read(h, Idle)
  BY <1>1, <1>4
<1> QED BY <1>5, <1>6, IdleSound, ReadInv

LEMMA FindPendingInv ==
    ASSUME IInv, NEW h \in Handlers, FindPending(h)
    PROVE  IInv'
<1>1. PICK use \in RequestUse : task[h] = UseTask("pending", use)
  BY StopOf DEF IInv, TypeInv, TasksTyped, FindPending, At, Swapping, UseTask
<1>2. task[h].use = use /\ task[h].id = use.id
  BY <1>1 DEF UseTask
<1>3. Read(h, Idle) \/ Read(h, Saving("requests", use.id, RequestRow(use)))
  BY <1>2 DEF FindPending
<1>4. RequestRow(use) \in OffDayReplacementRequest /\ use.id \in RequestIds
      /\ RequestRow(use).original # RequestRow(use).replacement
  BY DEF RequestRow, OffDayReplacementRequest, RequestUse
<1>5. SoundTask(Saving("requests", use.id, RequestRow(use)))
  BY <1>4 DEF SoundTask, SavingRow
<1> QED BY <1>3, <1>5, SavingFields, IdleSound, ReadInv

LEMMA SaveSwapInv ==
    ASSUME IInv, NEW h \in Handlers, SaveSwap(h)
    PROVE  IInv'
<1> USE DEF IInv, TypeInv
<1>1. PICK use \in ReviewUse : task[h] = UseTask("swap", use)
  BY StopOf DEF TasksTyped, SaveSwap, At, Swapping, UseTask
<1>2. task[h].use = use
  BY <1>1 DEF UseTask
<1> PICK next : next = Saving("requests", use.id, RequestRow(use))
  OBVIOUS
<1>3. /\ overrides' = [overrides EXCEPT ![use.employee][use.original] = "working_day",
                                        ![use.employee][use.replacement] = "off_day"]
      /\ swaps' = [swaps EXCEPT ![use.id] = @ + 1]
      /\ Step(h, next)
      /\ UNCHANGED <<schedules, holidays, offices, requests, records, assignments>>
  BY <1>2 DEF SaveSwap
<1>4. /\ RequestRow(use) \in OffDayReplacementRequest /\ use.id \in RequestIds
      /\ RequestRow(use).original # RequestRow(use).replacement
      /\ use.employee \in Employees /\ use.original \in Dates /\ use.replacement \in Dates
  BY DEF RequestRow, OffDayReplacementRequest, ReviewUse
<1>5. SoundTask(next)
  BY <1>4 DEF SoundTask, SavingRow
<1>6. overrides' \in [Employees -> [Dates -> Opt(EmployeeDayOverrideType)]]
  BY <1>3, <1>4 DEF TablesTyped, Opt, EmployeeDayOverrideType
<1>7. swaps' \in [RequestIds -> Nat]
  BY <1>3, <1>4 DEF TablesTyped
<1>8. TablesTyped' /\ RowsEndure
  BY <1>3, <1>6, <1>7, RowsStay DEF TablesTyped
<1>9. TypeInv' /\ Continue(h, next)
  BY <1>3, <1>5, <1>8, SavingFields, StepTypes DEF Step
<1> QED BY <1>8, <1>9, SavingFields, TargetsStep

LEMMA MatchesTyped == \A mark \in Marks : Matches(mark) \subseteq Opt(Offices)
BY WorkDaysAssumption DEF Matches, Opt

LEMMA MatchCheckInStep ==
    ASSUME TasksTyped, NEW h \in Handlers, MatchCheckIn(h)
    PROVE  \E use \in AttendUse, day \in DayResolution, o \in Opt(Offices) :
               /\ task[h] = OfficeTask(use, day) /\ o \in Matches(use.in)
               /\ Read(h, OutTask(use, day, o))
<1>1. PICK use \in AttendUse, day \in DayResolution : task[h] = OfficeTask(use, day)
  BY StopOf DEF TasksTyped, MatchCheckIn, At, Attending, OfficeTask, OutTask
<1>2. task[h].use = use /\ task[h].id = use.id /\ task[h].day = day
  BY <1>1 DEF OfficeTask
<1>3. PICK o \in Matches(use.in) : Read(h, OutTask(use, day, o))
  BY <1>2 DEF MatchCheckIn, OutTask
<1>4. o \in Opt(Offices)
  BY <1>3, MatchesTyped DEF AttendUse
<1> QED BY <1>1, <1>3, <1>4

NewRecord(use, day, in, out) ==
    [employee |-> use.employee, date |-> use.date, day |-> day, checkIn |-> in,
     checkOut |-> out, approval |-> "pending"]

LEMMA MatchCheckOutStep ==
    ASSUME TasksTyped, NEW h \in Handlers, MatchCheckOut(h)
    PROVE  \E use \in AttendUse, day \in DayResolution, in \in Opt(Offices), out \in Opt(Offices) :
               /\ task[h] = OutTask(use, day, in) /\ out \in Matches(use.out)
               /\ Read(h, Saving("records", use.id, NewRecord(use, day, in, out)))
<1>1. PICK use \in AttendUse, day \in DayResolution, in \in Opt(Offices) :
          task[h] = OutTask(use, day, in)
  BY StopOf DEF TasksTyped, MatchCheckOut, At, Attending, OfficeTask, OutTask
<1>2. /\ task[h].use = use /\ task[h].id = use.id /\ task[h].day = day
      /\ task[h].checkIn = in
  BY <1>1 DEF OutTask
<1>3. PICK out \in Matches(use.out) :
          Read(h, Saving("records", use.id, NewRecord(use, day, in, out)))
  BY <1>2 DEF MatchCheckOut, NewRecord
<1>4. out \in Opt(Offices)
  BY <1>3, MatchesTyped DEF AttendUse
<1> QED BY <1>1, <1>3, <1>4

LEMMA MatchInv ==
    ASSUME IInv, NEW h \in Handlers, MatchCheckIn(h) \/ MatchCheckOut(h)
    PROVE  IInv'
<1>1. CASE MatchCheckIn(h)
  <2>1. PICK use \in AttendUse, day \in DayResolution, o \in Opt(Offices) :
            Read(h, OutTask(use, day, o))
    BY <1>1, MatchCheckInStep DEF IInv, TypeInv
  <2>2. SoundTask(OutTask(use, day, o)) /\ OutTask(use, day, o).at = "check_out"
    BY DEF SoundTask, Attending, OutTask
  <2> QED BY <2>1, <2>2, ReadInv
<1>2. CASE MatchCheckOut(h)
  <2>1. PICK use \in AttendUse, day \in DayResolution, in \in Opt(Offices), out \in Opt(Offices) :
            Read(h, Saving("records", use.id, NewRecord(use, day, in, out)))
    BY <1>2, MatchCheckOutStep DEF IInv, TypeInv
  <2>2. NewRecord(use, day, in, out) \in AttendanceRecord /\ use.id \in RecordIds
    BY DEF NewRecord, AttendanceRecord, AttendUse
  <2>3. SoundTask(Saving("records", use.id, NewRecord(use, day, in, out)))
    BY <2>2 DEF SoundTask, SavingRow
  <2> QED BY <2>1, <2>3, SavingFields, ReadInv
<1> QED BY <1>1, <1>2

LEMMA FailInv ==
    ASSUME IInv, NEW h \in Handlers, Fail(h)
    PROVE  IInv'
<1> USE DEF IInv, TypeInv
<1>1. Continue(h, Idle) /\ UNCHANGED <<tables, arrived, overlaps, swaps>>
      /\ failures' \in 0..MaxFailures
  BY WorkDaysAssumption DEF Fail, CountsTyped
<1>2. TablesTyped' /\ RowsEndure /\ UNCHANGED assignments
  BY <1>1, RowsStay DEF TablesTyped, tables
<1>3. TasksTyped' /\ CountsTyped'
  BY <1>1, <1>2, IdleSound, TasksStep, CountsStep DEF CountsTyped
<1> QED BY <1>1, <1>2, <1>3, IdleSound, TargetsStep

LEMMA InvInit == Init => IInv
<1> SUFFICES ASSUME Init PROVE IInv
  OBVIOUS
<1>1. PICK db \in Seeds : /\ schedules = db.schedules /\ holidays = db.holidays
                          /\ offices = db.offices /\ assignments = db.assignments
  BY DEF Init
<1>2. TablesTyped
  BY <1>1, SeedsAssumption DEF Init, TablesTyped, Opt
<1>3. TasksTyped
  BY IdleSound DEF Init, TasksTyped
<1>4. Assigners = {} /\ Cardinality({}) = 0 /\ IsFiniteSet({})
  BY IdleSound, FS_EmptySet DEF Init, Assigners, At
<1>5. CountsTyped
  BY <1>1, <1>2, <1>4, SeedsAssumption, WorkDaysAssumption
  DEF Init, CountsTyped, TablesTyped
<1>6. TargetsExist
  BY IdleSound DEF Init, TargetsExist
<1> QED BY <1>2, <1>3, <1>5, <1>6 DEF IInv, TypeInv

LEMMA InvStutter == ASSUME IInv, UNCHANGED vars PROVE IInv'
BY DEF IInv, TypeInv, TablesTyped, TasksTyped, CountsTyped, TargetsExist, HasRow, Assigners,
       At, vars, tables

LEMMA Invariance == IInv /\ [Next]_vars => IInv'
<1> SUFFICES ASSUME IInv, [Next]_vars PROVE IInv'
  OBVIOUS
<1>1. CASE UNCHANGED vars
  BY <1>1, InvStutter
<1>2. ASSUME NEW h \in Handlers, (Ready(h) /\ Request(h)) \/ Proceed(h) \/ Fail(h)
      PROVE  IInv'
  <2>1. CASE Request(h)
    BY <2>1, Arrival, ArriveInv DEF IInv
  <2>2. CASE Proceed(h)
    BY <2>2, SearchInv, SaveInv, SaveAssignmentInv, SaveOverrideInv, CountInv, DeleteInv,
       FindPendingInv, SaveSwapInv, MatchInv DEF Proceed
  <2>3. CASE Fail(h)
    BY <2>3, FailInv
  <2> QED BY <1>2, <2>1, <2>2, <2>3
<1> QED BY <1>1, <1>2 DEF Next

LEMMA InvAlways == Spec => []IInv
BY InvInit, Invariance, PTL DEF Spec


\* Rows, and the copies of them that requests save later, have the columns and values of their
\* entities, however requests overlap and fail (WorkSchedulesService, HolidaysService,
\* OfficeLocationsService, AttendanceService).
THEOREM TypeCorrect == Spec => []TypeOK
<1>1. IInv => TypeOK
  <2> SUFFICES ASSUME IInv PROVE TypeOK
    OBVIOUS
  <2> USE DEF IInv, TypeInv
  <2>1. /\ \A i \in 1..Len(assignments) : assignments[i] \in EmployeeWorkSchedule
        /\ Len(assignments) <= MaxAssignments
    <3>1. Cardinality(Assigners) \in Nat /\ Len(assignments) \in Nat
      BY FS_CardinalityType DEF CountsTyped, TablesTyped
    <3> QED BY <3>1, WorkDaysAssumption DEF CountsTyped, TablesTyped
  <2>2. \A h \in Handlers :
            task[h].at \in {"idle", "override", "holiday", "schedule", "save", "assign",
                            "override_save", "count", "delete", "pending", "swap", "offices",
                            "check_out"}
    <3>1. ASSUME NEW t, SoundTask(t)
          PROVE  \/ t.at \in Searches \/ t.at \in {"offices", "check_out"}
                 \/ t.at \in {"pending", "swap"} \/ t.at = "save"
                 \/ t.at \in {"count", "delete"} \/ t.at \in {"assign", "override_save"}
                 \/ t.at = "idle"
      <4>1. Searching(t) => t.at \in Searches
        BY SearchFields DEF Searching
      <4>2. Attending(t) => t.at \in {"offices", "check_out"}
        BY DEF Attending, OfficeTask, OutTask
      <4>3. Swapping(t) => t.at \in {"pending", "swap"}
        BY DEF Swapping, UseTask
      <4>4. SavingRow(t) => t.at = "save"
        BY SavingFields DEF SavingRow
      <4>5. Removing(t) => t.at \in {"count", "delete"}
        BY RemovalFields DEF Removing
      <4>6. Assigning(t) => t.at \in {"assign", "override_save"}
        BY DEF Assigning
      <4> QED BY <3>1, <4>1, <4>2, <4>3, <4>4, <4>5, <4>6, IdleSound DEF SoundTask
    <3> QED BY <3>1 DEF TasksTyped, Searches
  <2> QED BY <2>1, <2>2 DEF TypeOK, TablesTyped, CountsTyped
<1> QED BY <1>1, InvAlways, PTL


-----------------------------------------------------------------------------
(***************************************************************************)
(* Who is at work on a replacement request                                 *)
(***************************************************************************)
ForRequest(t, r) ==
    /\ t.id = r
    /\ \/ t.at \in Searches /\ t.use.op # "attend"
       \/ t.at \in {"pending", "swap"}
       \/ t.at = "save" /\ t.table = "requests"

\* About to record that the overrides are made.
Approving(t) == t.at = "save" /\ t.table = "requests" /\ t.row.status = "approved"

\* The request is under review, not being made.
Reviewing(t) ==
    \/ t.at \in Searches /\ t.use.op = "review"
    \/ t.at = "swap"
    \/ t.at = "save" /\ t.table = "requests" /\ t.row.status # "pending"

NotForRequests(t) == \A r : ~ForRequest(t, r)

LEMMA NotForms ==
    /\ NotForRequests(Idle)
    /\ \A at \in Searches, use \in AttendUse : NotForRequests(TheDay(at, use))
    /\ \A use, day : NotForRequests(OfficeTask(use, day))
    /\ \A use, day, o : NotForRequests(OutTask(use, day, o))
    /\ \A table, id, row : table # "requests" => NotForRequests(Saving(table, id, row))
    /\ \A at, table, id : at \in {"count", "delete"} =>
           NotForRequests(RemovalTask(at, table, id))
<1> USE DEF NotForRequests, ForRequest, Searches
<1>1. NotForRequests(Idle)
  BY DEF Idle
<1>2. ASSUME NEW at \in Searches, NEW use \in AttendUse
      PROVE  NotForRequests(TheDay(at, use))
  <2>1. use.op = "attend"
    BY DEF AttendUse
  <2> QED BY <2>1, SearchFields
<1>3. \A use, day : NotForRequests(OfficeTask(use, day))
  BY DEF OfficeTask
<1>4. \A use, day, o : NotForRequests(OutTask(use, day, o))
  BY DEF OutTask
<1>5. \A table, id, row : table # "requests" => NotForRequests(Saving(table, id, row))
  BY SavingFields
<1>6. \A at, table, id : at \in {"count", "delete"} =>
          NotForRequests(RemovalTask(at, table, id))
  BY RemovalFields
<1> QED BY <1>1, <1>2, <1>3, <1>4, <1>5, <1>6


OnlyFor(t, r) == ForRequest(t, r) /\ \A q : q # r => ~ForRequest(t, q)

LEMMA OnlyForms ==
    /\ \A at \in Searches, use \in RequestUse \cup ReviewUse :
           OnlyFor(FirstDay(at, use), use.id)
    /\ \A at \in Searches, use \in RequestUse \cup ReviewUse : \A day :
           OnlyFor(SecondDay(at, use, day), use.id)
    /\ \A at \in {"pending", "swap"} : \A use : OnlyFor(UseTask(at, use), use.id)
    /\ \A r, row : OnlyFor(Saving("requests", r, row), r)
<1> USE DEF OnlyFor, ForRequest
<1>1. \A use \in RequestUse \cup ReviewUse : use.op # "attend"
  BY DEF RequestUse, ReviewUse
<1>2. \A at \in Searches, use \in RequestUse \cup ReviewUse :
          OnlyFor(FirstDay(at, use), use.id)
  BY <1>1, SearchFields
<1>3. ASSUME NEW at \in Searches, NEW use \in RequestUse \cup ReviewUse, NEW day
      PROVE  OnlyFor(SecondDay(at, use, day), use.id)
  BY <1>1, SearchFields
<1>4. \A at \in {"pending", "swap"} : \A use : OnlyFor(UseTask(at, use), use.id)
  BY DEF UseTask
<1>5. \A r, row : OnlyFor(Saving("requests", r, row), r)
  BY SavingFields
<1> QED BY <1>2, <1>3, <1>4, <1>5


\* What a step from t to n is for the replacement requests: nothing, the beginning of one or of
\* its review, a query on the way, the end, the overrides, or the save of the row.
Aside(t, n) == UNCHANGED <<requests, swaps>> /\ NotForRequests(t) /\ NotForRequests(n)

Asked(t, n) ==
    /\ UNCHANGED <<requests, swaps>> /\ t = Idle
    /\ \E r \in RequestIds :
           OnlyFor(n, r) /\ r \in Fresh(requests) /\ ~Approving(n) /\ ~Reviewing(n)

Opened(t, n) ==
    /\ UNCHANGED <<requests, swaps>> /\ t = Idle
    /\ \E r \in RequestIds :
           /\ OnlyFor(n, r) /\ ~Approving(n)
           /\ requests[r] # None /\ requests[r].status = "pending"

Pursued(t, n) ==
    /\ UNCHANGED <<requests, swaps>>
    /\ \E r \in RequestIds :
           /\ OnlyFor(t, r) /\ OnlyFor(n, r) /\ ~Approving(t) /\ ~Approving(n)
           /\ Reviewing(n) => Reviewing(t)

Dropped(t, n) ==
    /\ UNCHANGED <<requests, swaps>> /\ n = Idle
    /\ \E r \in RequestIds : OnlyFor(t, r)

Swapped(t, n) ==
    /\ UNCHANGED requests
    /\ \E r \in RequestIds :
           /\ OnlyFor(t, r) /\ OnlyFor(n, r) /\ Reviewing(t) /\ ~Approving(t) /\ Approving(n)
           /\ swaps' = [swaps EXCEPT ![r] = @ + 1]

Stored(t, n) ==
    /\ UNCHANGED swaps /\ n = Idle
    /\ \E r \in RequestIds, row \in OffDayReplacementRequest :
           /\ t = Saving("requests", r, row) /\ OnlyFor(t, r)
           /\ requests' = [requests EXCEPT ![r] = row]

Others(h) == \A g \in Handlers : g # h => task'[g] = task[g]

LEMMA ArriveForRequests ==
    ASSUME IInv, NEW h \in Handlers, Request(h), Ready(h)
    PROVE  /\ Others(h)
           /\ Aside(task[h], task'[h]) \/ Asked(task[h], task'[h]) \/ Opened(task[h], task'[h])
           /\ task[h] = Idle /\ failures' = failures
           /\ overlaps' = IF Alone THEN overlaps ELSE overlaps + 1
<1> USE DEF IInv, TypeInv
<1>1. PICK n : Arrive(h, n) /\ NewTask(n)
  BY Arrival
<1>2. /\ task'[h] = n /\ Others(h) /\ task[h] = Idle
      /\ UNCHANGED <<requests, swaps, failures>>
      /\ overlaps' = IF Alone THEN overlaps ELSE overlaps + 1
  BY <1>1, ContinueTask, StopOf DEF Arrive, tables, Others, Ready, At, TasksTyped
<1>3. Aside(Idle, n) \/ Asked(Idle, n) \/ Opened(Idle, n)
  <2> USE NotForms, OnlyForms, <1>2
  <2>1. CASE SavesRow(n) \/ RemovesRow(n) \/ Decides(n)
    BY <2>1 DEF SavesRow, RemovesRow, Decides, Aside
  <2>2. CASE Assigns(n) \/ Overrides(n)
    <3>1. n.at \in {"assign", "override_save"}
      BY <2>2 DEF Assigns, Overrides
    <3>2. NotForRequests(n)
      BY <3>1 DEF NotForRequests, ForRequest, Searches
    <3> QED BY <3>2 DEF Aside
  <2>3. CASE AsksForSwap(n)
    <3>1. PICK use \in RequestUse : use.id \in Fresh(requests) /\ n = FirstDay("override", use)
      BY <2>3 DEF AsksForSwap
    <3>2. /\ n.at = "override" /\ n.use = use /\ use.op = "request" /\ use.id \in RequestIds
          /\ OnlyFor(n, use.id)
      BY <3>1, SearchFields DEF RequestUse, Searches
    <3>3. ~Approving(n) /\ ~Reviewing(n)
      BY <3>2 DEF Approving, Reviewing
    <3> QED BY <3>1, <3>2, <3>3 DEF Asked
  <2>4. CASE ReviewsSwap(n)
    <3>1. ASSUME NEW use \in ReviewUse, requests[use.id] # None,
                 requests[use.id].status = "pending", n = FirstDay("override", use)
          PROVE  Opened(Idle, n)
      <4>1. n.at = "override" /\ use.id \in RequestIds /\ OnlyFor(n, use.id)
        BY <3>1, SearchFields DEF ReviewUse, Searches
      <4> QED BY <3>1, <4>1 DEF Opened, Approving
    <3>2. ASSUME NEW r \in RequestIds, NEW row, requests[r] # None,
                 requests[r].status = "pending", row.status # "approved",
                 n = Saving("requests", r, row)
          PROVE  Opened(Idle, n)
      BY <3>2, SavingFields DEF Opened, Approving
    <3> QED BY <2>4, <3>1, <3>2 DEF ReviewsSwap
  <2>5. CASE RecordsDay(n)
    BY <2>5 DEF RecordsDay, Aside, Searches
  <2> QED BY <1>1, <2>1, <2>2, <2>3, <2>4, <2>5 DEF NewTask
<1> QED BY <1>2, <1>3

LEMMA SearchForRequests ==
    ASSUME IInv, NEW t, NEW n, Searching(t), SearchEnds(t, n), UNCHANGED <<requests, swaps>>
    PROVE  Aside(t, n) \/ Pursued(t, n) \/ (Dropped(t, n) /\ ~Approving(t))
<1> USE SearchFields, NotForms, OnlyForms, NextSearchOnward
<1>0. PICK at \in Searches :
        \/ \E use \in AttendUse : t = TheDay(at, use)
        \/ \E use \in RequestUse \cup ReviewUse :
               t = FirstDay(at, use) \/ \E day \in DayResolution : t = SecondDay(at, use, day)
  BY DEF Searching
<1>1. ASSUME NEW use \in AttendUse, t = TheDay(at, use)
      PROVE  Aside(t, n)
  <2>1. \/ n = Idle
        \/ n = TheDay(NextSearch(at), use)
        \/ \E day \in DayResolution : n = OfficeTask(use, day)
    BY <1>1, SearchTheDay
  <2>2. NotForRequests(n)
    BY <2>1 DEF Searches
  <2> QED BY <1>1, <2>2 DEF Aside
<1>2. ASSUME NEW use \in RequestUse \cup ReviewUse, OnlyFor(t, use.id), t.at = at, t.use = use,
             \/ n = Idle
             \/ OnlyFor(n, use.id) /\ n.use = use
                /\ (n.at \in Searches \/ (n.at = "pending" /\ use.op = "request")
                                      \/ (n.at = "swap" /\ use.op = "review"))
      PROVE  Pursued(t, n) \/ (Dropped(t, n) /\ ~Approving(t))
  <2>1. use.id \in RequestIds /\ ~Approving(t)
    BY <1>2 DEF RequestUse, ReviewUse, Approving, Searches
  <2>2. CASE n = Idle
    BY <1>2, <2>1, <2>2 DEF Dropped
  <2>3. CASE n # Idle
    <3>1. ~Approving(n)
      BY <1>2, <2>3 DEF Approving, Searches
    <3>2. Reviewing(n) => Reviewing(t)
      BY <1>2, <2>3 DEF Reviewing, Searches
    <3> QED BY <1>2, <2>1, <2>3, <3>1, <3>2 DEF Pursued
  <2> QED BY <2>2, <2>3
<1>3. ASSUME NEW use \in RequestUse \cup ReviewUse, t = FirstDay(at, use)
      PROVE  Pursued(t, n) \/ (Dropped(t, n) /\ ~Approving(t))
  <2>1. \/ n = Idle
        \/ n = FirstDay(NextSearch(at), use)
        \/ \E day \in DayResolution : n = SecondDay("override", use, day)
    BY <1>3, SearchFirstDay
  <2>2. n = Idle \/ (OnlyFor(n, use.id) /\ n.use = use /\ n.at \in Searches)
    BY <2>1 DEF Searches
  <2> QED BY <1>2, <1>3, <2>2
<1>4. ASSUME NEW use \in RequestUse \cup ReviewUse, NEW first \in DayResolution,
             t = SecondDay(at, use, first)
      PROVE  Pursued(t, n) \/ (Dropped(t, n) /\ ~Approving(t))
  <2>1. \/ n = Idle
        \/ n = SecondDay(NextSearch(at), use, first)
        \/ n = UseTask(IF use.op = "request" THEN "pending" ELSE "swap", use)
    BY <1>4, SearchSecondDay
  <2>2. CASE n = UseTask(IF use.op = "request" THEN "pending" ELSE "swap", use)
    <3>1. use.op \in {"request", "review"}
      BY DEF RequestUse, ReviewUse
    <3>2. /\ OnlyFor(n, use.id) /\ n.use = use
          /\ (n.at = "pending" /\ use.op = "request") \/ (n.at = "swap" /\ use.op = "review")
      BY <2>2, <3>1 DEF UseTask
    <3> QED BY <1>2, <1>4, <3>2
  <2>3. CASE n # UseTask(IF use.op = "request" THEN "pending" ELSE "swap", use)
    <3>1. n = Idle \/ (OnlyFor(n, use.id) /\ n.use = use /\ n.at \in Searches)
      BY <2>1, <2>3 DEF Searches
    <3> QED BY <1>2, <1>4, <3>1
  <2> QED BY <2>2, <2>3
<1> QED BY <1>0, <1>1, <1>3, <1>4


LEMMA ReadTasks ==
    ASSUME IInv, NEW h \in Handlers, NEW n, Step(h, n)
    PROVE  task'[h] = n /\ Others(h) /\ UNCHANGED <<overlaps, failures>>
BY ContinueTask DEF IInv, TypeInv, Step, Others

LEMMA ProceedForRequests ==
    ASSUME IInv, NEW h \in Handlers, Proceed(h)
    PROVE  /\ Others(h) /\ UNCHANGED <<overlaps, failures>>
           /\ \/ Aside(task[h], task'[h]) \/ Pursued(task[h], task'[h])
              \/ Dropped(task[h], task'[h]) /\ ~Approving(task[h])
              \/ Swapped(task[h], task'[h]) \/ Stored(task[h], task'[h])
<1> USE NotForms, OnlyForms DEF IInv, TypeInv
<1> PICK t : t = task[h]
  OBVIOUS
<1> PICK n : n = task'[h]
  OBVIOUS
<1> SUFFICES /\ Others(h) /\ UNCHANGED <<overlaps, failures>>
             /\ \/ Aside(t, n) \/ Pursued(t, n) \/ (Dropped(t, n) /\ ~Approving(t))
                \/ Swapped(t, n) \/ Stored(t, n)
  OBVIOUS
<1>0. SoundTask(t)
  BY DEF TasksTyped
<1>1. CASE FindOverride(h) \/ FindHolidays(h) \/ FindSchedule(h)
  <2>1. PICK next : t.at \in Searches /\ Read(h, next) /\ SearchEnds(t, next)
    BY <1>1, SearchStep
  <2>2. n = next /\ Others(h) /\ UNCHANGED <<overlaps, failures, requests, swaps>>
    BY <2>1, ReadTasks DEF Read, tables
  <2>3. Searching(t)
    BY <1>0, <2>1, StopOf
  <2> QED BY <2>1, <2>2, <2>3, SearchForRequests
<1>2. CASE Save(h)
  <2>1. /\ Step(h, Idle) /\ UNCHANGED swaps
        /\ SavedRow(t) \/ SavedRequest(t) \/ SavedRecord(t)
    BY <1>2, SaveStep
  <2>2. n = Idle /\ Others(h) /\ UNCHANGED <<overlaps, failures>>
    BY <2>1, ReadTasks
  <2>3. SavedRow(t) => Aside(t, n)
    BY <2>1, <2>2 DEF SavedRow, PutSchedule, PutHoliday, PutOffice, Aside
  <2>4. SavedRecord(t) => Aside(t, n)
    BY <2>1, <2>2 DEF SavedRecord, PutRecord, Aside
  <2>5. ASSUME SavedRequest(t)
        PROVE  Stored(t, n)
    <3>1. PICK r \in RequestIds, row \in OffDayReplacementRequest :
              t = Saving("requests", r, row) /\ PutRequest(r, row)
      BY <2>5 DEF SavedRequest
    <3>2. OnlyFor(t, r) /\ requests' = [requests EXCEPT ![r] = row]
      BY <3>1 DEF PutRequest
    <3> QED BY <2>1, <2>2, <3>1, <3>2 DEF Stored
  <2> QED BY <2>1, <2>2, <2>3, <2>4, <2>5
<1>3. CASE SaveAssignment(h) \/ SaveOverride(h)
  <2>1. Step(h, Idle) /\ UNCHANGED <<requests, swaps>> /\ t.at \in {"assign", "override_save"}
    BY <1>3 DEF SaveAssignment, SaveOverride, At
  <2>2. n = Idle /\ Others(h) /\ UNCHANGED <<overlaps, failures>>
    BY <2>1, ReadTasks
  <2>3. NotForRequests(t)
    BY <2>1 DEF NotForRequests, ForRequest, Searches
  <2> QED BY <2>1, <2>2, <2>3 DEF Aside
<1>4. CASE Count(h)
  <2>1. t.at = "count" /\ SoundTask(t)
    BY <1>0, <1>4 DEF Count, At
  <2>2. t = RemovalTask("count", t.table, t.id)
    BY <2>1, TargetTyped
  <2>3. [t EXCEPT !.at = "delete"] = RemovalTask("delete", t.table, t.id)
    BY <2>2 DEF RemovalTask
  <2>4. PICK next : Read(h, next) /\ next \in {Idle, RemovalTask("delete", t.table, t.id)}
    BY <1>4, <2>3 DEF Count
  <2>5. n = next /\ Others(h) /\ UNCHANGED <<overlaps, failures, requests, swaps>>
    BY <2>4, ReadTasks DEF Read, tables
  <2>6. NotForRequests(t) /\ NotForRequests(n)
    BY <2>2, <2>4, <2>5
  <2> QED BY <2>5, <2>6 DEF Aside
<1>5. CASE Delete(h)
  <2>1. Step(h, Idle) /\ UNCHANGED swaps /\ DeletedRow(t)
    BY <1>5, DeleteStep
  <2>2. n = Idle /\ Others(h) /\ UNCHANGED <<overlaps, failures>>
    BY <2>1, ReadTasks
  <2>3. NotForRequests(t) /\ UNCHANGED requests
    BY <2>1 DEF DeletedRow, PutSchedule, PutHoliday, PutOffice
  <2> QED BY <2>1, <2>2, <2>3 DEF Aside
<1>6. CASE FindPending(h)
  <2>1. PICK use \in RequestUse : t = UseTask("pending", use)
    BY <1>0, <1>6, StopOf DEF FindPending, At, Swapping, UseTask
  <2>2. t.at = "pending" /\ t.use = use /\ t.id = use.id /\ use.id \in RequestIds
    BY <2>1 DEF UseTask, RequestUse
  <2>3. PICK next : Read(h, next) /\ next \in {Idle, Saving("requests", use.id, RequestRow(use))}
    BY <1>6, <2>2 DEF FindPending
  <2>4. n = next /\ Others(h) /\ UNCHANGED <<overlaps, failures, requests, swaps>>
    BY <2>3, ReadTasks DEF Read, tables
  <2>5. OnlyFor(t, use.id) /\ ~Approving(t)
    BY <2>1, <2>2 DEF Approving
  <2>6. CASE n = Idle
    BY <2>2, <2>4, <2>5, <2>6 DEF Dropped
  <2>7. CASE n = Saving("requests", use.id, RequestRow(use))
    <3>1. n.at = "save" /\ n.row.status = "pending" /\ OnlyFor(n, use.id)
      BY <2>7, SavingFields DEF RequestRow, RequestUse
    <3>2. ~Approving(n) /\ ~Reviewing(n)
      BY <3>1 DEF Approving, Reviewing, Searches
    <3> QED BY <2>2, <2>4, <2>5, <3>1, <3>2 DEF Pursued
  <2> QED BY <2>3, <2>4, <2>6, <2>7
<1>7. CASE SaveSwap(h)
  <2>1. PICK use \in ReviewUse : t = UseTask("swap", use)
    BY <1>0, <1>7, StopOf DEF SaveSwap, At, Swapping, UseTask
  <2>2. t.at = "swap" /\ t.use = use /\ t.id = use.id /\ use.id \in RequestIds
    BY <2>1 DEF UseTask, ReviewUse
  <2>3. /\ Step(h, Saving("requests", use.id, RequestRow(use))) /\ UNCHANGED requests
        /\ swaps' = [swaps EXCEPT ![use.id] = @ + 1]
    BY <1>7, <2>2 DEF SaveSwap
  <2>4. /\ n = Saving("requests", use.id, RequestRow(use)) /\ Others(h)
        /\ UNCHANGED <<overlaps, failures>>
    BY <2>3, ReadTasks
  <2>5. Approving(n) /\ OnlyFor(n, use.id)
    BY <2>4, SavingFields DEF Approving, RequestRow, ReviewUse
  <2>6. OnlyFor(t, use.id) /\ ~Approving(t) /\ Reviewing(t)
    BY <2>1, <2>2 DEF Approving, Reviewing
  <2> QED BY <2>2, <2>3, <2>4, <2>5, <2>6 DEF Swapped
<1>8. CASE MatchCheckIn(h)
  <2>1. PICK use \in AttendUse, day \in DayResolution, o \in Opt(Offices) :
            t = OfficeTask(use, day) /\ Read(h, OutTask(use, day, o))
    BY <1>8, MatchCheckInStep
  <2>2. /\ n = OutTask(use, day, o) /\ Others(h)
        /\ UNCHANGED <<overlaps, failures, requests, swaps>>
    BY <2>1, ReadTasks DEF Read, tables
  <2> QED BY <2>1, <2>2 DEF Aside
<1>9. CASE MatchCheckOut(h)
  <2>1. PICK use \in AttendUse, day \in DayResolution, in \in Opt(Offices), out \in Opt(Offices) :
            /\ t = OutTask(use, day, in)
            /\ Read(h, Saving("records", use.id, NewRecord(use, day, in, out)))
    BY <1>9, MatchCheckOutStep
  <2>2. /\ n = Saving("records", use.id, NewRecord(use, day, in, out)) /\ Others(h)
        /\ UNCHANGED <<overlaps, failures, requests, swaps>>
    BY <2>1, ReadTasks DEF Read, tables
  <2> QED BY <2>1, <2>2 DEF Aside
<1> QED BY <1>1, <1>2, <1>3, <1>4, <1>5, <1>6, <1>7, <1>8, <1>9 DEF Proceed

LEMMA AssigningStops == \A t : Assigning(t) => t.at \in {"assign", "override_save"}
BY DEF Assigning

LEMMA FailForRequests ==
    ASSUME IInv, NEW h \in Handlers, Fail(h)
    PROVE  /\ Others(h) /\ overlaps' = overlaps /\ failures' = failures + 1
           /\ Aside(task[h], task'[h]) \/ Dropped(task[h], task'[h])
<1> USE NotForms, OnlyForms DEF IInv, TypeInv
<1> PICK t : t = task[h]
  OBVIOUS
<1>1. /\ task'[h] = Idle /\ Others(h) /\ overlaps' = overlaps /\ failures' = failures + 1
      /\ UNCHANGED <<requests, swaps>>
  BY ContinueTask DEF Fail, Others, tables
<1>2. SoundTask(t)
  BY DEF TasksTyped
<1>3. NotForRequests(t) \/ \E r \in RequestIds : OnlyFor(t, r)
  <2>1. CASE Searching(t)
    <3>1. \A use \in RequestUse \cup ReviewUse : use.id \in RequestIds
      BY DEF RequestUse, ReviewUse
    <3> QED BY <2>1, <3>1 DEF Searching
  <2>2. CASE Attending(t)
    BY <2>2 DEF Attending
  <2>3. CASE Swapping(t)
    BY <2>3 DEF Swapping, RequestUse, ReviewUse
  <2>4. CASE SavingRow(t)
    BY <2>4 DEF SavingRow
  <2>5. CASE Removing(t)
    BY <2>5 DEF Removing
  <2>6. CASE Assigning(t)
    <3>1. t.at \in {"assign", "override_save"}
      BY <2>6, AssigningStops
    <3> QED BY <3>1 DEF NotForRequests, ForRequest, Searches
  <2> QED BY <1>2, <2>1, <2>2, <2>3, <2>4, <2>5, <2>6 DEF SoundTask
<1> QED BY <1>1, <1>3 DEF Aside, Dropped


(* A request without a row has no overrides yet and is the business of one handler; one that  *)
(* is reviewed has a row; and whoever is about to approve it has made its overrides.          *)
RequestsTold ==
    /\ \A r \in RequestIds : requests[r] = None => swaps[r] = 0
    /\ \A r \in RequestIds, g \in Handlers, h \in Handlers :
           ForRequest(task[g], r) /\ ForRequest(task[h], r) /\ requests[r] = None => g = h
    /\ \A r \in RequestIds, h \in Handlers :
           ForRequest(task[h], r) /\ Reviewing(task[h]) => requests[r] # None
    /\ \A r \in RequestIds, h \in Handlers :
           ForRequest(task[h], r) /\ Approving(task[h]) => swaps[r] > 0
    /\ ApprovedIsSwapped

LEMMA FreshUntouched ==
    ASSUME NEW r \in Fresh(requests), NEW g \in Handlers
    PROVE  requests[r] = None /\ ~ForRequest(task[g], r)
BY DEF Fresh, Held, At, ForRequest, Searches

LEMMA ApprovingReviews == \A t : Approving(t) => Reviewing(t)
BY DEF Approving, Reviewing

LEMMA RequestsKept ==
    ASSUME IInv, RequestsTold, NEW h \in Handlers, Others(h),
           \/ Aside(task[h], task'[h]) \/ Asked(task[h], task'[h]) \/ Opened(task[h], task'[h])
           \/ Pursued(task[h], task'[h]) \/ Dropped(task[h], task'[h])
           \/ Swapped(task[h], task'[h]) \/ Stored(task[h], task'[h])
    PROVE  RequestsTold'
<1> PICK t : t = task[h]
  OBVIOUS
<1> PICK n : n = task'[h]
  OBVIOUS
<1>0. swaps \in [RequestIds -> Nat] /\ DOMAIN requests = RequestIds
  BY DEF IInv, TypeInv, TablesTyped
<1>0a. \A r : ~ForRequest(Idle, r)
  BY NotForms DEF NotForRequests
<1> USE NotForms, OnlyForms, ApprovingReviews DEF NotForRequests, OnlyFor
<1>1. CASE Aside(t, n)
  BY <1>1 DEF Aside, Others, RequestsTold, ApprovedIsSwapped
<1>2. CASE Asked(t, n)
  <2>1. PICK r \in RequestIds :
            OnlyFor(n, r) /\ r \in Fresh(requests) /\ ~Approving(n) /\ ~Reviewing(n)
    BY <1>2 DEF Asked
  <2>2. requests[r] = None /\ \A g \in Handlers : ~ForRequest(task[g], r)
    BY <2>1, FreshUntouched
  <2> QED BY <1>2, <2>1, <2>2 DEF Asked, Others, RequestsTold, ApprovedIsSwapped
<1>3. CASE Opened(t, n)
  BY <1>3 DEF Opened, Others, RequestsTold, ApprovedIsSwapped
<1>4. CASE Pursued(t, n)
  BY <1>4 DEF Pursued, Others, RequestsTold, ApprovedIsSwapped
<1>5. CASE Dropped(t, n)
  <2>1. UNCHANGED <<requests, swaps>> /\ n = Idle
    BY <1>5 DEF Dropped
  <2> HIDE NotForms, OnlyForms
  <2>2. \A g \in Handlers, r \in RequestIds : ForRequest(task'[g], r) => task'[g] = task[g]
    BY <2>1, <1>0a DEF Others
  <2> QED BY <2>1, <2>2 DEF RequestsTold, ApprovedIsSwapped
<1>6. CASE Swapped(t, n)
  <2>1. PICK r \in RequestIds :
            /\ OnlyFor(t, r) /\ OnlyFor(n, r) /\ Reviewing(t) /\ ~Approving(t) /\ Approving(n)
            /\ swaps' = [swaps EXCEPT ![r] = @ + 1]
    BY <1>6 DEF Swapped
  <2>2. /\ UNCHANGED requests /\ requests[r] # None
        /\ swaps'[r] = swaps[r] + 1 /\ swaps'[r] > 0
        /\ \A q \in RequestIds : q # r => swaps'[q] = swaps[q]
    BY <1>0, <1>6, <2>1 DEF Swapped, RequestsTold
  <2> HIDE NotForms, OnlyForms
  <2> QED BY <2>1, <2>2 DEF Others, RequestsTold, ApprovedIsSwapped
<1>7. CASE Stored(t, n)
  <2>1. PICK r \in RequestIds, row \in OffDayReplacementRequest :
            /\ t = Saving("requests", r, row) /\ OnlyFor(t, r)
            /\ requests' = [requests EXCEPT ![r] = row]
    BY <1>7 DEF Stored
  <2>2. /\ UNCHANGED swaps /\ n = Idle
        /\ requests'[r] = row /\ row # None
        /\ \A q \in RequestIds : q # r => requests'[q] = requests[q]
    BY <1>0, <1>7, <2>1, RowAssumption DEF Stored
  <2>3. row.status = "approved" => swaps[r] > 0
    <3>1. t.at = "save" /\ t.table = "requests" /\ t.row = row
      BY <2>1, SavingFields
    <3> HIDE NotForms, OnlyForms
    <3> QED BY <2>1, <3>1 DEF Approving, RequestsTold
  <2> HIDE NotForms, OnlyForms
  <2>4. \A g \in Handlers, q \in RequestIds : ForRequest(task'[g], q) => task'[g] = task[g]
    BY <2>2, <1>0a DEF Others
  <2>5. \A q \in RequestIds : requests'[q] = None => requests[q] = None
    BY <2>2
  <2> QED BY <2>2, <2>3, <2>4, <2>5 DEF RequestsTold, ApprovedIsSwapped
<1> QED BY <1>1, <1>2, <1>3, <1>4, <1>5, <1>6, <1>7


LEMMA RequestsInit == Init => RequestsTold
<1> SUFFICES ASSUME Init PROVE RequestsTold
  OBVIOUS
<1>1. \A g \in Handlers, r \in RequestIds : ~ForRequest(task[g], r)
  BY NotForms DEF Init, NotForRequests
<1> QED BY <1>1 DEF Init, RequestsTold, ApprovedIsSwapped

LEMMA RequestsInvariance == IInv /\ RequestsTold /\ [Next]_vars => RequestsTold'
<1> SUFFICES ASSUME IInv, RequestsTold, [Next]_vars PROVE RequestsTold'
  OBVIOUS
<1>1. CASE UNCHANGED vars
  BY <1>1 DEF RequestsTold, ApprovedIsSwapped, vars, tables
<1>2. ASSUME NEW h \in Handlers, (Ready(h) /\ Request(h)) \/ Proceed(h) \/ Fail(h)
      PROVE  RequestsTold'
  BY <1>2, ArriveForRequests, ProceedForRequests, FailForRequests, RequestsKept
<1> QED BY <1>1, <1>2 DEF Next

LEMMA RequestsAlways == Spec => []RequestsTold
BY InvInit, Invariance, RequestsInit, RequestsInvariance, PTL DEF Spec

\* A request that is approved has had its overrides made, whatever overlaps or fails in between:
\* they are saved before the request (WorkSchedulesService.reviewReplacementRequest).
THEOREM ApprovedSwapped == Spec => []ApprovedIsSwapped
<1>1. RequestsTold => ApprovedIsSwapped
  BY DEF RequestsTold
<1> QED BY <1>1, RequestsAlways, PTL

-----------------------------------------------------------------------------
(***************************************************************************)
(* Overrides and decisions: how many requests can be in doubt              *)
(***************************************************************************)
(* A request is settled if nobody is at work on it and its overrides are made just when it is *)
(* approved, or if a single handler is, which found it pending and will leave it so.          *)
Settled(r) ==
    /\ \A g \in Handlers, h \in Handlers :
           ForRequest(task[g], r) /\ ForRequest(task[h], r) => g = h
    /\ \A h \in Handlers : ForRequest(task[h], r) =>
           /\ requests[r].status = "pending"
           /\ swaps[r] = IF Approving(task[h]) THEN 1 ELSE 0
    /\ (\A h \in Handlers : ~ForRequest(task[h], r)) =>
           swaps[r] = IF requests[r].status = "approved" THEN 1 ELSE 0

Doubtful == {r \in RequestIds : requests[r] # None /\ ~Settled(r)}

DoubtsBounded ==
    /\ IsFiniteSet(Doubtful)
    /\ Cardinality(Doubtful) <= overlaps + failures

LEMMA SettledElsewhere ==
    ASSUME NEW h \in Handlers, Others(h), NEW r \in RequestIds,
           requests'[r] = requests[r], swaps'[r] = swaps[r],
           ~ForRequest(task[h], r), ~ForRequest(task'[h], r), Settled(r)
    PROVE  Settled(r)'
<1>1. \A g \in Handlers : \/ task'[g] = task[g]
                          \/ ~ForRequest(task[g], r) /\ ~ForRequest(task'[g], r)
  BY DEF Others
<1>2. \A g \in Handlers : ForRequest(task'[g], r) <=> ForRequest(task[g], r)
  BY <1>1
<1>3. \A g \in Handlers, k \in Handlers :
          ForRequest(task'[g], r) /\ ForRequest(task'[k], r) => g = k
  BY <1>2 DEF Settled
<1>4. \A g \in Handlers : ForRequest(task'[g], r) =>
          /\ requests'[r].status = "pending"
          /\ swaps'[r] = IF Approving(task'[g]) THEN 1 ELSE 0
  BY <1>1, <1>2 DEF Settled
<1>5. (\A g \in Handlers : ~ForRequest(task'[g], r)) =>
          swaps'[r] = IF requests'[r].status = "approved" THEN 1 ELSE 0
  BY <1>2 DEF Settled
<1> QED BY <1>3, <1>4, <1>5 DEF Settled

\* The same, with the task a handler stops at next given a name.
LEMMA SettledAfter ==
    ASSUME NEW h \in Handlers, NEW n, Others(h), task'[h] = n, NEW r \in RequestIds,
           \A g \in Handlers : g # h => ~ForRequest(task[g], r),
           ForRequest(n, r) => /\ requests'[r].status = "pending"
                               /\ swaps'[r] = IF Approving(n) THEN 1 ELSE 0,
           ~ForRequest(n, r) => swaps'[r] = IF requests'[r].status = "approved" THEN 1 ELSE 0
    PROVE  Settled(r)'
<1>1. \A g \in Handlers : ForRequest(task'[g], r) => g = h
  BY DEF Others
<1>2. \A g \in Handlers, k \in Handlers :
          ForRequest(task'[g], r) /\ ForRequest(task'[k], r) => g = k
  BY <1>1
<1>3. \A g \in Handlers : ForRequest(task'[g], r) =>
          /\ requests'[r].status = "pending"
          /\ swaps'[r] = IF Approving(task'[g]) THEN 1 ELSE 0
  BY <1>1
<1>4. (\A g \in Handlers : ~ForRequest(task'[g], r)) =>
          swaps'[r] = IF requests'[r].status = "approved" THEN 1 ELSE 0
  OBVIOUS
<1> QED BY <1>2, <1>3, <1>4 DEF Settled

LEMMA AsideDoubts ==
    ASSUME NEW h \in Handlers, Others(h), UNCHANGED <<requests, swaps>>,
           NEW x, \A r : r # x => ~ForRequest(task[h], r) /\ ~ForRequest(task'[h], r)
    PROVE  Doubtful' \subseteq Doubtful \cup {x}
<1> SUFFICES ASSUME NEW r \in RequestIds, requests[r] # None, Settled(r), r # x
             PROVE  Settled(r)'
  BY DEF Doubtful
<1> QED BY SettledElsewhere

LEMMA OpenedDoubts ==
    ASSUME NEW h \in Handlers, Others(h), Opened(task[h], task'[h])
    PROVE  /\ \E x : Doubtful' \subseteq Doubtful \cup {x}
           /\ Alone => Doubtful' \subseteq Doubtful
<1> PICK t : t = task[h]
  OBVIOUS
<1> PICK n : n = task'[h]
  OBVIOUS
<1>1. PICK x \in RequestIds :
          /\ OnlyFor(n, x) /\ ~Approving(n) /\ requests[x] # None
          /\ requests[x].status = "pending"
  BY DEF Opened
<1>2. UNCHANGED <<requests, swaps>> /\ \A r : r # x => ~ForRequest(t, r) /\ ~ForRequest(n, r)
  BY <1>1, NotForms DEF Opened, OnlyFor, NotForRequests
<1>3. Doubtful' \subseteq Doubtful \cup {x}
  BY <1>2, AsideDoubts
<1>5. ASSUME Alone, Settled(x) PROVE Settled(x)'
  <2>1. \A g \in Handlers : ~ForRequest(task[g], x)
    BY <1>5 DEF Alone, At, ForRequest, Searches
  <2>2. swaps[x] = 0
    BY <1>1, <1>5, <2>1 DEF Settled
  <2> QED BY <1>1, <1>2, <2>1, <2>2, SettledAfter DEF OnlyFor
<1> QED BY <1>1, <1>2, <1>3, <1>5 DEF Doubtful

\* No other step leaves a request in doubt, unless a handler dies before it saves an approval.
LEMMA HandledDoubts ==
    ASSUME IInv, RequestsTold, NEW h \in Handlers, Others(h),
           \/ Aside(task[h], task'[h]) \/ Asked(task[h], task'[h])
           \/ Pursued(task[h], task'[h]) \/ (Dropped(task[h], task'[h]) /\ ~Approving(task[h]))
           \/ Swapped(task[h], task'[h]) \/ Stored(task[h], task'[h])
    PROVE  Doubtful' \subseteq Doubtful
<1> PICK t : t = task[h]
  OBVIOUS
<1> PICK n : n = task'[h]
  OBVIOUS
<1>0. swaps \in [RequestIds -> Nat] /\ DOMAIN requests = RequestIds
  BY DEF IInv, TypeInv, TablesTyped
<1>0a. \A r : ~ForRequest(Idle, r)
  BY NotForms DEF NotForRequests
<1> SUFFICES ASSUME NEW r \in RequestIds, requests'[r] # None, requests[r] # None => Settled(r)
             PROVE  Settled(r)'
  BY DEF Doubtful
<1>1. ASSUME requests'[r] = requests[r], swaps'[r] = swaps[r],
             ~ForRequest(t, r), ~ForRequest(n, r)
      PROVE  Settled(r)'
  BY <1>1, SettledElsewhere
<1>2. CASE Aside(t, n)
  BY <1>1, <1>2 DEF Aside, NotForRequests
<1>3. CASE Asked(t, n)
  BY <1>0a, <1>1, <1>3, FreshUntouched DEF Asked, OnlyFor
<1>4. CASE Pursued(t, n)
  <2>1. PICK x \in RequestIds :
            OnlyFor(t, x) /\ OnlyFor(n, x) /\ ~Approving(t) /\ ~Approving(n)
    BY <1>4 DEF Pursued
  <2>2. UNCHANGED <<requests, swaps>>
    BY <1>4 DEF Pursued
  <2>3. CASE r # x
    BY <1>1, <2>1, <2>2, <2>3 DEF OnlyFor
  <2>4. CASE r = x
    <3>1. /\ \A g \in Handlers : g # h => ~ForRequest(task[g], r)
          /\ requests[r].status = "pending" /\ swaps[r] = 0
      BY <2>1, <2>2, <2>4 DEF OnlyFor, Settled
    <3> QED BY <2>1, <2>2, <2>4, <3>1, SettledAfter DEF OnlyFor
  <2> QED BY <2>3, <2>4
<1>5. CASE Dropped(t, n) /\ ~Approving(t)
  <2>1. PICK x \in RequestIds : OnlyFor(t, x)
    BY <1>5 DEF Dropped
  <2>2. UNCHANGED <<requests, swaps>> /\ n = Idle
    BY <1>5 DEF Dropped
  <2>3. CASE r # x
    BY <1>0a, <1>1, <2>1, <2>2, <2>3 DEF OnlyFor
  <2>4. CASE r = x
    <3>1. /\ \A g \in Handlers : g # h => ~ForRequest(task[g], r)
          /\ requests[r].status = "pending" /\ swaps[r] = 0
      BY <1>5, <2>1, <2>2, <2>4 DEF OnlyFor, Settled
    <3> QED BY <1>0a, <2>2, <3>1, SettledAfter
  <2> QED BY <2>3, <2>4
<1>6. CASE Swapped(t, n)
  <2>1. PICK x \in RequestIds :
            /\ OnlyFor(t, x) /\ OnlyFor(n, x) /\ Reviewing(t) /\ ~Approving(t) /\ Approving(n)
            /\ swaps' = [swaps EXCEPT ![x] = @ + 1]
    BY <1>6 DEF Swapped
  <2>2. UNCHANGED requests
    BY <1>6 DEF Swapped
  <2>3. CASE r # x
    BY <1>0, <1>1, <2>1, <2>2, <2>3 DEF OnlyFor
  <2>4. CASE r = x
    <3>1. /\ \A g \in Handlers : g # h => ~ForRequest(task[g], r)
          /\ requests[r].status = "pending" /\ swaps[r] = 0 /\ swaps'[r] = 1
      BY <1>0, <2>1, <2>2, <2>4 DEF OnlyFor, Settled
    <3> QED BY <2>1, <2>2, <2>4, <3>1, SettledAfter DEF OnlyFor
  <2> QED BY <2>3, <2>4
<1>7. CASE Stored(t, n)
  <2>1. PICK x \in RequestIds, row \in OffDayReplacementRequest :
            /\ t = Saving("requests", x, row) /\ OnlyFor(t, x)
            /\ requests' = [requests EXCEPT ![x] = row]
    BY <1>7 DEF Stored
  <2>2. UNCHANGED swaps /\ n = Idle
    BY <1>7 DEF Stored
  <2>3. CASE r # x
    BY <1>0, <1>0a, <1>1, <2>1, <2>2, <2>3 DEF OnlyFor
  <2>4. CASE r = x
    <3>1. requests'[r] = row /\ (Approving(t) <=> row.status = "approved")
      BY <1>0, <2>1, <2>4, SavingFields DEF Approving
    <3>2. /\ \A g \in Handlers : g # h => ~ForRequest(task[g], r)
          /\ swaps[r] = IF Approving(t) THEN 1 ELSE 0
      <4>1. CASE requests[r] = None
        <5>1. swaps[r] = 0 /\ ~Reviewing(t)
          BY <2>1, <2>4, <4>1 DEF RequestsTold, OnlyFor
        <5> QED BY <2>1, <2>4, <4>1, <5>1, ApprovingReviews DEF RequestsTold, OnlyFor
      <4>2. CASE requests[r] # None
        BY <2>1, <2>4, <4>2 DEF Settled, OnlyFor
      <4> QED BY <4>1, <4>2
    <3> QED BY <1>0a, <2>2, <3>1, <3>2, SettledAfter
  <2> QED BY <2>3, <2>4
<1> QED BY <1>2, <1>3, <1>4, <1>5, <1>6, <1>7


LEMMA BoundKept ==
    ASSUME NEW c \in Nat, NEW d \in Nat, NEW o \in Nat, NEW f \in Nat, NEW p \in Nat, NEW q \in Nat,
           c <= o + f, d <= c, o + f <= p + q
    PROVE  d <= p + q
OBVIOUS

LEMMA BoundRaised ==
    ASSUME NEW c \in Nat, NEW d \in Nat, NEW o \in Nat, NEW f \in Nat, NEW p \in Nat, NEW q \in Nat,
           c <= o + f, d <= c + 1, p + q = o + f + 1
    PROVE  d <= p + q
OBVIOUS

LEMMA DoubtsKept ==
    ASSUME IInv, RequestsTold, DoubtsBounded, Next
    PROVE  DoubtsBounded'
<1> PICK h \in Handlers : (Ready(h) /\ Request(h)) \/ Proceed(h) \/ Fail(h)
  BY DEF Next
<1>0. overlaps \in Nat /\ failures \in Nat
  BY DEF IInv, TypeInv, CountsTyped
<1> PICK S : S = Doubtful
  OBVIOUS
<1> PICK T : T = Doubtful'
  OBVIOUS
<1>1. ASSUME T \subseteq S, overlaps + failures <= overlaps' + failures',
             overlaps' \in Nat, failures' \in Nat
      PROVE  DoubtsBounded'
  <2>1. IsFiniteSet(S) /\ Cardinality(S) <= overlaps + failures
    BY DEF DoubtsBounded
  <2>2. /\ IsFiniteSet(T) /\ Cardinality(S) \in Nat /\ Cardinality(T) \in Nat
        /\ Cardinality(T) <= Cardinality(S)
    BY <1>1, <2>1, Shrinks
  <2>3. Cardinality(T) <= overlaps' + failures'
    BY <1>0, <1>1, <2>1, <2>2, BoundKept
  <2> QED BY <2>2, <2>3 DEF DoubtsBounded
<1>2. ASSUME NEW x, T \subseteq S \cup {x}, overlaps' + failures' = overlaps + failures + 1,
             overlaps' \in Nat, failures' \in Nat
      PROVE  DoubtsBounded'
  <2>1. IsFiniteSet(S) /\ Cardinality(S) <= overlaps + failures
    BY DEF DoubtsBounded
  <2>2. /\ IsFiniteSet(T) /\ Cardinality(S) \in Nat /\ Cardinality(T) \in Nat
        /\ Cardinality(T) <= Cardinality(S) + 1
    BY <1>2, <2>1, Grows
  <2>3. Cardinality(T) <= overlaps' + failures'
    BY <1>0, <1>2, <2>1, <2>2, BoundRaised
  <2> QED BY <2>2, <2>3 DEF DoubtsBounded
<1>3. CASE Ready(h) /\ Request(h)
  <2>1. /\ Others(h)
        /\ Aside(task[h], task'[h]) \/ Asked(task[h], task'[h]) \/ Opened(task[h], task'[h])
        /\ failures' = failures
        /\ overlaps' = IF Alone THEN overlaps ELSE overlaps + 1
    BY <1>3, ArriveForRequests
  <2>2. T \subseteq S \/ (~Alone /\ \E x : T \subseteq S \cup {x})
    BY <2>1, OpenedDoubts, HandledDoubts
  <2> QED BY <1>0, <1>1, <1>2, <2>1, <2>2
<1>4. CASE Proceed(h)
  <2>1. T \subseteq S /\ UNCHANGED <<overlaps, failures>>
    BY <1>4, ProceedForRequests, HandledDoubts
  <2> QED BY <1>0, <1>1, <2>1
<1>5. CASE Fail(h)
  <2>1. /\ Others(h) /\ overlaps' = overlaps /\ failures' = failures + 1
        /\ Aside(task[h], task'[h]) \/ Dropped(task[h], task'[h])
    BY <1>5, FailForRequests
  <2>2. CASE Aside(task[h], task'[h])
    <3>1. T \subseteq S
      BY <2>1, <2>2, HandledDoubts
    <3> QED BY <1>0, <1>1, <2>1, <3>1
  <2>3. CASE Dropped(task[h], task'[h])
    <3>1. UNCHANGED <<requests, swaps>> /\ task'[h] = Idle /\ \E x : OnlyFor(task[h], x)
      BY <2>3 DEF Dropped
    <3>2. \E x : T \subseteq S \cup {x}
      BY <2>1, <3>1, NotForms, AsideDoubts DEF OnlyFor, NotForRequests
    <3> QED BY <1>0, <1>2, <2>1, <3>2
  <2> QED BY <2>1, <2>2, <2>3
<1> QED BY <1>3, <1>4, <1>5

LEMMA DoubtsInit == Init => DoubtsBounded
<1> SUFFICES ASSUME Init PROVE DoubtsBounded
  OBVIOUS
<1>1. Doubtful = {} /\ overlaps = 0 /\ failures = 0
  BY DEF Init, Doubtful
<1>2. IsFiniteSet({}) /\ Cardinality({}) = 0
  BY FS_EmptySet
<1> QED BY <1>1, <1>2 DEF DoubtsBounded

LEMMA DoubtsInvariance == IInv /\ RequestsTold /\ DoubtsBounded /\ [Next]_vars => DoubtsBounded'
<1>1. DoubtsBounded /\ UNCHANGED vars => DoubtsBounded'
  BY DEF DoubtsBounded, Doubtful, Settled, vars, tables
<1> QED BY <1>1, DoubtsKept

LEMMA DoubtsAlways == Spec => []DoubtsBounded
<1>1. IInv /\ RequestsTold /\ DoubtsBounded /\ [Next]_vars => DoubtsBounded'
  BY DoubtsInvariance
<1> QED BY <1>1, DoubtsInit, InvAlways, RequestsAlways, PTL DEF Spec

\* Where no review is under way, an approved request has made its overrides once and any other
\* not at all, but for one request for each that overlapped another, and one for each handler
\* that died (WorkSchedulesService.reviewReplacementRequest reads the status, resolves both
\* days, saves the overrides, and then the request).
THEOREM SwapsRecorded == Spec => []SwapsAreRecorded
<1>1. IInv /\ DoubtsBounded => SwapsAreRecorded
  <2> SUFFICES ASSUME IInv, DoubtsBounded PROVE SwapsAreRecorded
    OBVIOUS
  <2> DEFINE Wrong == {r \in RequestIds :
                          /\ requests[r] # None /\ ~UnderReview(r)
                          /\ swaps[r] # (IF requests[r].status = "approved" THEN 1 ELSE 0)}
  <2>1. ASSUME NEW r \in RequestIds, ~UnderReview(r), NEW h \in Handlers
        PROVE  ~ForRequest(task[h], r)
    BY <2>1 DEF UnderReview, At, ForRequest, Searches
  <2>2. Wrong \subseteq Doubtful
    BY <2>1 DEF Doubtful, Settled
  <2>3. overlaps \in Nat /\ failures \in Nat
    BY DEF IInv, TypeInv, CountsTyped
  <2>4. IsFiniteSet(Doubtful) /\ Cardinality(Doubtful) <= overlaps + failures
    BY DEF DoubtsBounded
  <2> HIDE DEF Wrong
  <2>5. Cardinality(Wrong) <= overlaps + failures
    BY <2>2, <2>3, <2>4, Shrinks
  <2> QED BY <2>5 DEF SwapsAreRecorded, Wrong
<1> QED BY <1>1, InvAlways, DoubtsAlways, PTL


-----------------------------------------------------------------------------
(***************************************************************************)
(* Addresses and offices                                                   *)
(***************************************************************************)
\* A network matches just the addresses it has: the test of a block is that of its leading bits
\* (PrefixMatch).
LEMMA MatchesOwnAddresses ==
    ASSUME NEW n \in Networks, NEW ip \in Word
    PROVE  MatchesNetwork(ip, n) <=> HasAddress(n, ip)
<1>1. n \in BranchNetwork
  BY WorkDaysAssumption
<1>2. n.address \in Opt(Word) /\ n.cidr \in Opt(Cidr)
  BY <1>1 DEF BranchNetwork
<1>3. ip # None
  BY NoneAssumption
<1>4. ASSUME n.cidr # None
      PROVE  IsIpv4InsideCidr(ip, n.cidr) <=>
                 /\ n.cidr.range # None
                 /\ n.cidr.prefixLength \in 0 .. Width
                 /\ SameStart(ip, n.cidr.range, n.cidr.prefixLength)
  <2>1. n.cidr.range \in Word \cup {None} /\ n.cidr.prefixLength \in Int
    BY <1>2, <1>4 DEF Opt, Cidr
  <2>2. Width \in Nat
    BY WidthAssumption
  <2>3. n.cidr.prefixLength \in 0 .. Width <=>
            0 <= n.cidr.prefixLength /\ n.cidr.prefixLength <= Width
    BY <2>1, <2>2
  <2> DEFINE block == [range |-> n.cidr.range, prefixLength |-> n.cidr.prefixLength]
  <2>4. ASSUME n.cidr.range # None, n.cidr.prefixLength \in 0 .. Width
        PROVE  IsIpv4InsideCidr(ip, block) <=>
                   SameStart(ip, n.cidr.range, n.cidr.prefixLength)
    BY <2>1, <2>4, PrefixMatch DEF CidrIsAPrefix
  <2>5. IsIpv4InsideCidr(ip, block) <=> IsIpv4InsideCidr(ip, n.cidr)
    BY DEF IsIpv4InsideCidr
  <2> HIDE DEF block
  <2>6. IsIpv4InsideCidr(ip, n.cidr) =>
            n.cidr.range # None /\ n.cidr.prefixLength \in 0 .. Width
    BY <2>3 DEF IsIpv4InsideCidr
  <2> QED BY <2>4, <2>5, <2>6
<1> QED BY <1>4 DEF MatchesNetwork, HasAddress

\* Whoever reports from an address of a branch is found at an office of one of the branches that
\* have it, for addresses of any width, whichever of their networks is found first: a network
\* that matches is asked before the place (AttendanceService.findMatchingOffice).
THEOREM BranchesFound == Spec => []BranchAddressesAreFound
<1>1. BranchAddressesAreFound
  <2> DEFINE open == {o \in Offices : LiveIn(offices, o) /\ offices[o].isActive}
  <2> SUFFICES ASSUME NEW mark \in Marks, HomeBranches[mark] # {},
                      \A branch \in HomeBranches[mark] : \E o \in open : BranchOf[o] = branch,
                      \A o \in open : mark.ip \notin TrustedIps[o]
               PROVE  /\ Matches(mark) # {}
                      /\ \A o \in Matches(mark) : o # None /\ BranchOf[o] \in HomeBranches[mark]
    BY DEF BranchAddressesAreFound
  <2> DEFINE has == {m \in Networks : mark.ip # None /\ HasAddress(m, mark.ip)}
  <2>1. HomeBranches[mark] = {n.branch : n \in has}
    BY Zenon DEF HomeBranches
  <2>2. mark.ip # None
    BY <2>1
  <2>3. mark.ip \in Word
    BY <2>2, WorkDaysAssumption DEF Opt
  <2> DEFINE listed == {p \in open : mark.ip \in TrustedIps[p]}
             networks == {m \in Networks : mark.ip # None /\ MatchesNetwork(mark.ip, m)}
             inBranch(m) == {p \in open : BranchOf[p] = m.branch}
             nearest == {p \in open : \A q \in open :
                             Distance[mark.place][p] <= Distance[mark.place][q]}
             byPlace == IF mark.place = None \/ open = {} THEN {None} ELSE nearest
  <2>4. networks = has
    BY <2>3, MatchesOwnAddresses
  <2>5. Matches(mark) = IF listed # {} THEN listed
                        ELSE IF networks = {} THEN byPlace
                        ELSE UNION {IF inBranch(m) = {} THEN byPlace ELSE inBranch(m) :
                                    m \in networks}
    BY Zenon DEF Matches
  <2>6. listed = {} /\ has # {}
    BY <2>1
  <2>7. ASSUME NEW n \in has
        PROVE  inBranch(n) # {} /\ n.branch \in HomeBranches[mark]
    BY <2>1
  <2>8. ASSUME NEW o \in open PROVE o # None
    BY RowAssumption
  <2> HIDE DEF listed, networks, has, byPlace
  <2>9. Matches(mark) = UNION {inBranch(m) : m \in has}
    <3>1. Matches(mark) = UNION {IF inBranch(m) = {} THEN byPlace ELSE inBranch(m) : m \in has}
      BY <2>4, <2>5, <2>6, Zenon
    <3>2. \A m \in has : (IF inBranch(m) = {} THEN byPlace ELSE inBranch(m)) = inBranch(m)
      BY <2>7
    <3> HIDE DEF inBranch
    <3> QED BY <3>1, <3>2
  <2>10. Matches(mark) # {}
    BY <2>6, <2>7, <2>9
  <2>11. ASSUME NEW o \in Matches(mark)
         PROVE  o # None /\ BranchOf[o] \in HomeBranches[mark]
    <3>1. PICK n \in has : o \in inBranch(n)
      BY <2>9
    <3> QED BY <3>1, <2>7, <2>8
  <2> QED BY <2>10, <2>11
<1> QED BY <1>1, PTL


-----------------------------------------------------------------------------
(***************************************************************************)
(* Requests that take turns                                                *)
(***************************************************************************)
\* What is known of a day is what the tables say of it.
Fits(e, date, day) ==
    /\ day.offDay = Off(e, date)
    /\ day.holiday # None =>
           overrides[e][date] = None /\ day.holiday \in HighestPriority(Matching(e, date))

\* The queries before this one found nothing.
SoFar(at, e, date) ==
    /\ at \in {"holiday", "schedule"} => overrides[e][date] = None
    /\ at = "schedule" => Matching(e, date) = {}

TaskFits(t) ==
    /\ t.at \in Searches =>
           /\ SoFar(t.at, t.use.employee, Head(t.days))
           /\ \A day : t.found = <<day>> => Fits(t.use.employee, t.use.original, day)
    /\ t.at \in {"offices", "check_out"} => Fits(t.use.employee, t.use.date, t.day)
    /\ t.at = "save" /\ t.table = "records" /\ records[t.id] = None =>
           Fits(t.row.employee, t.row.date, t.row.day)
    /\ t.at = "swap" =>
           Off(t.use.employee, t.use.original) /\ ~Off(t.use.employee, t.use.replacement)

Lone == \A g \in Handlers, h \in Handlers : ~At(g, "idle") /\ ~At(h, "idle") => g = h

(* As long as no request has overlapped another, one handler is at work at most, and what it  *)
(* has found out still holds.                                                                 *)
SerialInv == overlaps = 0 => Lone /\ \A h \in Handlers : TaskFits(task[h])

LEMMA SearchOn ==
    ASSUME NEW at, NEW e, NEW date, SoFar(at, e, date), NothingAt(at, e, date)
    PROVE  SoFar(NextSearch(at), e, date)
BY DEF SoFar, NothingAt, NextSearch

LEMMA OffByTables ==
    ASSUME NEW e, NEW date
    PROVE  /\ overrides[e][date] # None =>
                  (Off(e, date) <=> overrides[e][date] # "working_day")
           /\ overrides[e][date] = None /\ Matching(e, date) # {} => Off(e, date)
           /\ overrides[e][date] = None /\ Matching(e, date) = {} =>
                  (Off(e, date) <=>
                      /\ LatestAssignment(e) # 0
                      /\ InEffect(assignments[LatestAssignment(e)], date)
                      /\ LiveIn(schedules, assignments[LatestAssignment(e)].schedule)
                      /\ schedules[assignments[LatestAssignment(e)].schedule].weekDays[WeekDay[date]]
                             = FALSE)
BY Zenon DEF Off

LEMMA OffBoolean == \A e, date : Off(e, date) \in BOOLEAN
BY DEF Off

LEMMA FoundFits ==
    ASSUME NEW at, NEW e, NEW date, NEW day, FoundDay(at, e, date, day), SoFar(at, e, date)
    PROVE  Fits(e, date, day)
<1>1. CASE at = "override"
  <2>1. /\ overrides[e][date] # None
        /\ day.offDay = (overrides[e][date] # "working_day") /\ day.holiday = None
    BY <1>1 DEF FoundDay, ByOverride
  <2> QED BY <2>1, OffByTables, OffBoolean DEF Fits
<1>2. CASE at = "holiday"
  <2>1. PICK y \in HighestPriority(Matching(e, date)) : day = ByHoliday(y)
    BY <1>2 DEF FoundDay
  <2>2. day.offDay = TRUE /\ day.holiday = y
    BY <2>1 DEF ByHoliday
  <2>3. overrides[e][date] = None /\ Matching(e, date) # {}
    BY <1>2, <2>1 DEF SoFar, HighestPriority
  <2> QED BY <2>1, <2>2, <2>3, OffByTables, OffBoolean DEF Fits
<1>3. CASE at = "schedule"
  <2>1. overrides[e][date] = None /\ Matching(e, date) = {}
    BY <1>3 DEF SoFar
  <2> DEFINE i == LatestAssignment(e)
  <2>2. CASE (i = 0 \/ ~InEffect(assignments[i], date)) /\ day = ByDefault
    <3>1. day.offDay = FALSE /\ day.holiday = None
      BY <2>2 DEF ByDefault
    <3> QED BY <2>1, <2>2, <3>1, OffByTables, OffBoolean DEF Fits
  <2>3. CASE /\ i # 0 /\ InEffect(assignments[i], date)
             /\ LiveIn(schedules, assignments[i].schedule)
             /\ day = BySchedule(schedules[assignments[i].schedule], date)
    <3>1. /\ day.offDay = (schedules[assignments[i].schedule].weekDays[WeekDay[date]] = FALSE)
          /\ day.holiday = None
      BY <2>3 DEF BySchedule
    <3> QED BY <2>1, <2>3, <3>1, OffByTables, OffBoolean DEF Fits
  <2> QED BY <1>3, <2>2, <2>3 DEF FoundDay
<1> QED BY <1>1, <1>2, <1>3 DEF FoundDay

LEMMA SearchFits ==
    ASSUME NEW t, NEW n, Searching(t), TaskFits(t), SearchEnds(t, n)
    PROVE  TaskFits(n)
<1> USE SearchFields, NextSearchOnward
<1>1. PICK at \in Searches :
        \/ \E use \in AttendUse : t = TheDay(at, use)
        \/ \E use \in RequestUse \cup ReviewUse :
               t = FirstDay(at, use) \/ \E day \in DayResolution : t = SecondDay(at, use, day)
  BY DEF Searching
<1>2. n = Idle => TaskFits(n)
  BY IdleSound DEF TaskFits, Searches
<1>3. ASSUME NEW use \in AttendUse, t = TheDay(at, use)
      PROVE  TaskFits(n)
  <2>1. SoFar(at, use.employee, use.date)
    BY <1>3 DEF TaskFits
  <2>2. ASSUME NothingAt(at, use.employee, use.date), n = TheDay(NextSearch(at), use)
        PROVE  TaskFits(n)
    <3>1. /\ n.at = NextSearch(at) /\ n.use = use /\ Head(n.days) = use.date
          /\ \A day : n.found # <<day>>
      <4>1. \A day : <<>> # <<day>>
        OBVIOUS
      <4>2. n.found = <<>> /\ n.at = NextSearch(at) /\ n.use = use
        BY <2>2
      <4>3. Head(n.days) = use.date
        BY <2>2
      <4> QED BY <4>1, <4>2, <4>3
    <3>2. n.at \in {"holiday", "schedule"} /\ SoFar(n.at, n.use.employee, Head(n.days))
      BY <2>1, <2>2, <3>1, SearchOn
    <3> QED BY <3>1, <3>2 DEF TaskFits, Searches
  <2>3. ASSUME NEW day, FoundDay(at, use.employee, use.date, day), n = OfficeTask(use, day)
        PROVE  TaskFits(n)
    <3>1. Fits(use.employee, use.date, day)
      BY <2>1, <2>3, FoundFits
    <3>2. n.at = "offices" /\ n.use = use /\ n.day = day
      BY <2>3 DEF OfficeTask
    <3> QED BY <3>1, <3>2 DEF TaskFits, Searches
  <2> QED BY <1>2, <1>3, <2>2, <2>3, SearchTheDay
<1>4. ASSUME NEW use \in RequestUse \cup ReviewUse, t = FirstDay(at, use)
      PROVE  TaskFits(n)
  <2>1. SoFar(at, use.employee, use.original)
    BY <1>4 DEF TaskFits
  <2>2. ASSUME NothingAt(at, use.employee, use.original), n = FirstDay(NextSearch(at), use)
        PROVE  TaskFits(n)
    <3>1. /\ n.at = NextSearch(at) /\ n.use = use /\ Head(n.days) = use.original
          /\ \A day : n.found # <<day>>
      BY <2>2
    <3>2. n.at \in {"holiday", "schedule"} /\ SoFar(n.at, n.use.employee, Head(n.days))
      BY <2>1, <2>2, <3>1, SearchOn
    <3> QED BY <3>1, <3>2 DEF TaskFits, Searches
  <2>3. ASSUME NEW day, FoundDay(at, use.employee, use.original, day),
               n = SecondDay("override", use, day)
        PROVE  TaskFits(n)
    <3>1. Fits(use.employee, use.original, day)
      BY <2>1, <2>3, FoundFits
    <3>2. n.at = "override" /\ n.use = use /\ \A other : n.found = <<other>> => other = day
      BY <2>3
    <3> QED BY <3>1, <3>2 DEF TaskFits, SoFar
  <2> QED BY <1>2, <1>4, <2>2, <2>3, SearchFirstDay
<1>5. ASSUME NEW use \in RequestUse \cup ReviewUse, NEW first \in DayResolution,
             t = SecondDay(at, use, first)
      PROVE  TaskFits(n)
  <2>1. SoFar(at, use.employee, use.replacement) /\ Fits(use.employee, use.original, first)
    BY <1>5 DEF TaskFits
  <2>2. ASSUME NothingAt(at, use.employee, use.replacement),
               n = SecondDay(NextSearch(at), use, first)
        PROVE  TaskFits(n)
    <3>1. /\ n.at \in {"holiday", "schedule"} /\ SoFar(n.at, n.use.employee, Head(n.days))
          /\ n.use = use /\ \A day : n.found = <<day>> => day = first
      BY <2>1, <2>2, SearchOn
    <3> QED BY <2>1, <3>1 DEF TaskFits, Searches
  <2>3. ASSUME NEW day, FoundDay(at, use.employee, use.replacement, day), ~day.offDay,
               first.offDay,
               n = UseTask(IF use.op = "request" THEN "pending" ELSE "swap", use)
        PROVE  TaskFits(n)
    <3>1. Fits(use.employee, use.replacement, day)
      BY <2>1, <2>3, FoundFits
    <3>2. Off(use.employee, use.original) /\ ~Off(use.employee, use.replacement)
      BY <2>1, <2>3, <3>1, OffBoolean DEF Fits
    <3>3. n.at \in {"pending", "swap"} /\ n.use = use
      BY <2>3 DEF UseTask
    <3> QED BY <3>2, <3>3 DEF TaskFits, Searches
  <2> QED BY <1>2, <1>5, <2>2, <2>3, SearchSecondDay
<1> QED BY <1>1, <1>3, <1>4, <1>5


\* A task that rests on nothing that was read of a day.
Plain(n) ==
    \/ n.at \in {"idle", "assign", "override_save", "count", "delete", "pending"}
    \/ n.at = "save" /\ n.table # "records"

LEMMA PlainFits ==
    ASSUME NEW n, Plain(n)
    PROVE  TaskFits(n) /\ TaskFits(n)'
BY DEF Plain, TaskFits, Searches

LEMMA OffKept ==
    ASSUME UNCHANGED <<schedules, holidays, assignments, overrides>>
    PROVE  /\ \A e, date : Off(e, date)' = Off(e, date)
           /\ \A e, date : Matching(e, date)' = Matching(e, date)
           /\ \A S : HighestPriority(S)' = HighestPriority(S)
BY DEF Off, Matching, HighestPriority, Rank, Covers, LiveIn, LatestAssignment

LEMMA FitsKept ==
    ASSUME UNCHANGED tables, NEW n, TaskFits(n)
    PROVE  TaskFits(n)'
<1>1. UNCHANGED <<schedules, holidays, assignments, overrides, records>>
  BY DEF tables
<1>2. \A e, date : (Matching(e, date)' = {}) <=> (Matching(e, date) = {})
  BY <1>1, OffKept
<1>3. \A at, e, date : SoFar(at, e, date)' <=> SoFar(at, e, date)
  BY <1>1, <1>2 DEF SoFar
<1>4. \A e, date, day : Fits(e, date, day)' <=> Fits(e, date, day)
  BY <1>1, OffKept DEF Fits, HighestPriority, Rank
<1> QED BY <1>1, <1>3, <1>4, OffKept DEF TaskFits

LEMMA NewTaskFits ==
    ASSUME NEW n, NewTask(n)
    PROVE  TaskFits(n)
<1> USE SavingFields, RemovalFields, SearchFields
<1>1. CASE SavesRow(n) \/ RemovesRow(n) \/ Assigns(n) \/ Overrides(n)
  <2>1. Plain(n)
    BY <1>1 DEF SavesRow, RemovesRow, Assigns, Overrides, Plain
  <2> QED BY <2>1, PlainFits
<1>2. CASE AsksForSwap(n) \/ ReviewsSwap(n) \/ RecordsDay(n)
  <2>1. Plain(n) \/ (n.at = "override" /\ n.found = <<>>)
    BY <1>2 DEF AsksForSwap, ReviewsSwap, RecordsDay, Plain
  <2>2. \A day : <<>> # <<day>>
    OBVIOUS
  <2> QED BY <2>1, <2>2, PlainFits DEF TaskFits, SoFar, Searches
<1>3. CASE Decides(n)
  BY <1>3 DEF Decides, TaskFits, Searches
<1> QED BY <1>1, <1>2, <1>3 DEF NewTask

LEMMA SerialStep ==
    ASSUME SerialInv, TasksTyped, NEW h \in Handlers, NEW n, task'[h] = n, Others(h),
           overlaps' = 0 => overlaps = 0 /\ (Alone \/ ~At(h, "idle")),
           overlaps' = 0 => TaskFits(n)'
    PROVE  SerialInv'
<1> SUFFICES ASSUME overlaps' = 0
             PROVE  (Lone /\ \A g \in Handlers : TaskFits(task[g]))'
  BY DEF SerialInv
<1>1. \A g \in Handlers : g # h => task'[g] = Idle
  BY StopOf DEF SerialInv, Lone, Alone, At, TasksTyped, Others
<1>2. Lone'
  BY <1>1, IdleSound DEF Lone, At
<1>3. ASSUME NEW g \in Handlers
      PROVE  TaskFits(task[g])'
  <2>1. PICK k : k = task'[g]
    OBVIOUS
  <2>2. TaskFits(k)'
    <3>1. CASE g = h
      BY <2>1, <3>1
    <3>2. CASE g # h
      BY <1>1, <2>1, <3>2, IdleSound, PlainFits DEF Plain
    <3> QED BY <3>1, <3>2
  <2> QED BY <2>1, <2>2 DEF TaskFits, Fits, SoFar
<1> QED BY <1>2, <1>3


LEMMA SerialArrives ==
    ASSUME IInv, SerialInv, NEW h \in Handlers, Request(h), Ready(h)
    PROVE  SerialInv'
<1>1. PICK n : Arrive(h, n) /\ NewTask(n)
  BY Arrival DEF IInv
<1>2. Others(h) /\ overlaps' = IF Alone THEN overlaps ELSE overlaps + 1
  BY ArriveForRequests
<1>3. task'[h] = n /\ UNCHANGED tables
  BY <1>1, ContinueTask DEF Arrive, IInv, TypeInv
<1>4. TaskFits(n)'
  BY <1>1, <1>3, NewTaskFits, FitsKept
<1>5. overlaps' = 0 => overlaps = 0 /\ Alone
  BY <1>2 DEF IInv, TypeInv, CountsTyped
<1> QED BY <1>2, <1>3, <1>4, <1>5, SerialStep DEF IInv, TypeInv

\* Where a handler goes on to, if what it has found out still holds.
LEMMA ProceedFits ==
    ASSUME IInv, NEW h \in Handlers, Proceed(h), TaskFits(task[h]), NEW n, n = task'[h]
    PROVE  TaskFits(n)'
<1> USE DEF IInv, TypeInv
<1> PICK t : t = task[h]
  OBVIOUS
<1>0. SoundTask(t)
  BY DEF TasksTyped
<1>1. CASE FindOverride(h) \/ FindHolidays(h) \/ FindSchedule(h)
  <2>1. PICK next : t.at \in Searches /\ Read(h, next) /\ SearchEnds(t, next)
    BY <1>1, SearchStep
  <2>2. next = n /\ UNCHANGED tables
    BY <2>1, ReadTasks DEF Read
  <2>3. TaskFits(n)
    BY <1>0, <2>1, <2>2, StopOf, SearchFits
  <2> QED BY <2>2, <2>3, FitsKept
<1>2. CASE Save(h) \/ Delete(h) \/ SaveAssignment(h) \/ SaveOverride(h)
  <2>1. Step(h, Idle)
    BY <1>2, SaveStep, DeleteStep DEF SaveAssignment, SaveOverride
  <2>2. n = Idle
    BY <2>1, ReadTasks
  <2> QED BY <2>2, IdleSound, PlainFits DEF Plain
<1>3. CASE Count(h)
  <2>1. t.at = "count"
    BY <1>3 DEF Count, At
  <2>2. t = RemovalTask("count", t.table, t.id)
    BY <1>0, <2>1, TargetTyped
  <2>3. [t EXCEPT !.at = "delete"] = RemovalTask("delete", t.table, t.id)
    BY <2>2 DEF RemovalTask
  <2>4. PICK next : Step(h, next) /\ next \in {Idle, RemovalTask("delete", t.table, t.id)}
    BY <1>3, <2>3 DEF Count, Read
  <2>5. n = next
    BY <2>4, ReadTasks
  <2>6. Plain(n)
    BY <2>4, <2>5, IdleSound, RemovalFields DEF Plain
  <2> QED BY <2>6, PlainFits
<1>4. CASE FindPending(h)
  <2>1. PICK next : Step(h, next) /\ next \in {Idle, Saving("requests", t.id, RequestRow(t.use))}
    BY <1>4 DEF FindPending, Read
  <2>2. n = next
    BY <2>1, ReadTasks
  <2>3. Plain(n)
    BY <2>1, <2>2, IdleSound, SavingFields DEF Plain
  <2> QED BY <2>3, PlainFits
<1>5. CASE SaveSwap(h)
  <2>1. n = Saving("requests", t.use.id, RequestRow(t.use))
    BY <1>5, ReadTasks DEF SaveSwap
  <2>2. Plain(n)
    BY <2>1, SavingFields DEF Plain
  <2> QED BY <2>2, PlainFits
<1>6. CASE MatchCheckIn(h)
  <2>1. PICK use \in AttendUse, day \in DayResolution, o \in Opt(Offices) :
            t = OfficeTask(use, day) /\ Read(h, OutTask(use, day, o))
    BY <1>6, MatchCheckInStep
  <2>2. n = OutTask(use, day, o) /\ UNCHANGED tables
    BY <2>1, ReadTasks DEF Read
  <2>3. Fits(use.employee, use.date, day)
    BY <2>1 DEF OfficeTask, TaskFits
  <2>4. TaskFits(n)
    BY <2>2, <2>3 DEF OutTask, TaskFits, Searches
  <2> QED BY <2>2, <2>4, FitsKept
<1>7. CASE MatchCheckOut(h)
  <2>1. PICK use \in AttendUse, day \in DayResolution, in \in Opt(Offices), out \in Opt(Offices) :
            /\ t = OutTask(use, day, in)
            /\ Read(h, Saving("records", use.id, NewRecord(use, day, in, out)))
    BY <1>7, MatchCheckOutStep
  <2>2. n = Saving("records", use.id, NewRecord(use, day, in, out)) /\ UNCHANGED tables
    BY <2>1, ReadTasks DEF Read
  <2>3. Fits(use.employee, use.date, day)
    BY <2>1 DEF OutTask, TaskFits
  <2>4. n.at = "save" /\ n.row = NewRecord(use, day, in, out)
    BY <2>2, SavingFields
  <2>5. TaskFits(n)
    BY <2>3, <2>4 DEF NewRecord, TaskFits, Searches
  <2> QED BY <2>2, <2>5, FitsKept
<1> QED BY <1>1, <1>2, <1>3, <1>4, <1>5, <1>6, <1>7 DEF Proceed

LEMMA ProceedBusy ==
    ASSUME NEW h \in Handlers, Proceed(h)
    PROVE  ~At(h, "idle")
BY DEF Proceed, FindOverride, FindHolidays, FindSchedule, Save, SaveAssignment, SaveOverride, Count,
       Delete, FindPending, SaveSwap, MatchCheckIn, MatchCheckOut, At

LEMMA SerialKept ==
    ASSUME IInv, SerialInv, Next
    PROVE  SerialInv'
<1> PICK h \in Handlers : (Ready(h) /\ Request(h)) \/ Proceed(h) \/ Fail(h)
  BY DEF Next
<1> PICK n : n = task'[h]
  OBVIOUS
<1>1. CASE Ready(h) /\ Request(h)
  BY <1>1, SerialArrives
<1>2. CASE Proceed(h)
  <2>1. Others(h) /\ overlaps' = overlaps /\ ~At(h, "idle")
    BY <1>2, ProceedForRequests, ProceedBusy
  <2>2. overlaps = 0 => TaskFits(n)'
    BY <1>2, ProceedFits DEF SerialInv
  <2> QED BY <2>1, <2>2, SerialStep DEF IInv, TypeInv
<1>3. CASE Fail(h)
  <2>1. Others(h) /\ overlaps' = overlaps /\ ~At(h, "idle") /\ n = Idle
    BY <1>3, FailForRequests, ContinueTask DEF Fail, IInv, TypeInv
  <2>2. TaskFits(n)'
    BY <2>1, IdleSound, PlainFits DEF Plain
  <2> QED BY <2>1, <2>2, SerialStep DEF IInv, TypeInv
<1> QED BY <1>1, <1>2, <1>3

LEMMA SerialInit == Init => SerialInv
<1> SUFFICES ASSUME Init PROVE SerialInv
  OBVIOUS
<1>1. \A h \in Handlers : task[h] = Idle
  BY DEF Init
<1> QED BY <1>1, IdleSound, PlainFits DEF SerialInv, Lone, At, Plain

LEMMA SerialAlways == Spec => []SerialInv
<1>1. IInv /\ SerialInv /\ [Next]_vars => SerialInv'
  <2> SUFFICES ASSUME IInv, SerialInv, UNCHANGED vars PROVE SerialInv'
    BY SerialKept
  <2>1. UNCHANGED tables /\ overlaps' = overlaps /\ task' = task
    BY DEF vars
  <2> SUFFICES ASSUME overlaps' = 0, NEW h \in Handlers PROVE TaskFits(task[h])'
    BY <2>1 DEF SerialInv, Lone, At
  <2>2. PICK k : k = task[h]
    OBVIOUS
  <2>3. TaskFits(k)'
    BY <2>1, <2>2, FitsKept DEF SerialInv
  <2> QED BY <2>1, <2>2, <2>3 DEF TaskFits, Fits, SoFar
<1> QED BY <1>1, SerialInit, InvAlways, PTL DEF Spec


\* Only one of the steps saves attendance records, and only one makes the overrides of a swap.
LEMMA WhoWrites ==
    ASSUME IInv, NEW h \in Handlers, (Ready(h) /\ Request(h)) \/ Proceed(h) \/ Fail(h)
    PROVE  /\ UNCHANGED records \/ (Save(h) /\ SavedRecord(task[h]))
           /\ UNCHANGED swaps \/ SaveSwap(h)
<1> USE DEF IInv, TypeInv
<1>1. CASE Request(h)
  BY <1>1, Arrival DEF Arrive, tables
<1>2. CASE FindOverride(h) \/ FindHolidays(h) \/ FindSchedule(h)
  BY <1>2, SearchStep DEF Read, tables
<1>3. CASE Save(h)
  BY <1>3, SaveStep DEF SavedRow, SavedRequest, PutSchedule, PutHoliday, PutOffice, PutRequest
<1>4. CASE Delete(h)
  BY <1>4, DeleteStep DEF DeletedRow, PutSchedule, PutHoliday, PutOffice
<1>5. CASE SaveAssignment(h) \/ SaveOverride(h) \/ SaveSwap(h)
  BY <1>5 DEF SaveAssignment, SaveOverride, SaveSwap
<1>6. CASE Count(h) \/ FindPending(h) \/ MatchCheckIn(h) \/ MatchCheckOut(h)
  BY <1>6 DEF Count, FindPending, MatchCheckIn, MatchCheckOut, Read, tables
<1>7. CASE Fail(h)
  BY <1>7 DEF Fail, tables
<1> QED BY <1>1, <1>2, <1>3, <1>4, <1>5, <1>6, <1>7 DEF Proceed

\* Where requests take turns, an attendance record is made with what its day is by then: a day
\* off just if the tables say so, and of a holiday that no narrower one goes before, with no
\* override (WorkSchedulesService.resolveEmployeeDay, AttendanceService.create).
THEOREM RecordsFit == Spec => RecordsFitTheDay
<1> DEFINE Saved(a) == /\ records'[a].day.offDay = Off(records'[a].employee, records'[a].date)
                       /\ records'[a].day.holiday # None =>
                              /\ overrides[records'[a].employee][records'[a].date] = None
                              /\ records'[a].day.holiday \in HighestPriority(
                                     Matching(records'[a].employee, records'[a].date))
           Fitting == \A a \in RecordIds :
                          records[a] = None /\ records'[a] # None /\ overlaps = 0 => Saved(a)
<1>1. IInv /\ SerialInv /\ [Next]_vars => Fitting
  <2> SUFFICES ASSUME IInv, SerialInv, [Next]_vars, NEW a \in RecordIds,
                      records[a] = None, records'[a] # None, overlaps = 0
               PROVE  Saved(a)
    OBVIOUS
  <2>1. PICK h \in Handlers : (Ready(h) /\ Request(h)) \/ Proceed(h) \/ Fail(h)
    BY DEF Next, vars, tables
  <2>2. SavedRecord(task[h])
    BY <2>1, WhoWrites
  <2>3. PICK b \in RecordIds, row \in AttendanceRecord :
            task[h] = Saving("records", b, row) /\ records' = [records EXCEPT ![b] = row]
    BY <2>2 DEF SavedRecord, PutRecord
  <2>4. b = a /\ records'[a] = row
    BY <2>3 DEF IInv, TypeInv, TablesTyped
  <2>5. Fits(row.employee, row.date, row.day)
    <3>1. task[h].at = "save" /\ task[h].table = "records" /\ task[h].id = a /\ task[h].row = row
      BY <2>3, <2>4, SavingFields
    <3> QED BY <3>1 DEF SerialInv, TaskFits
  <2> QED BY <2>4, <2>5 DEF Fits
<1>2. Fitting => [\A a \in RecordIds :
           records[a] = None /\ records'[a] # None /\ overlaps = 0 =>
               LET e == records'[a].employee
                   date == records'[a].date
                   day == records'[a].day
               IN  /\ day.offDay = Off(e, date)
                   /\ day.holiday # None =>
                          /\ overrides[e][date] = None
                          /\ day.holiday \in HighestPriority(Matching(e, date))]_vars
  BY Zenon
<1> QED BY <1>1, <1>2, InvAlways, SerialAlways, PTL DEF Spec, RecordsFitTheDay


\* Exchanging a member of a finite set for another element leaves its size.
LEMMA Exchange ==
    ASSUME NEW S, NEW out \in S, NEW in, in \notin S, IsFiniteSet(S)
    PROVE  Cardinality((S \ {out}) \cup {in}) = Cardinality(S)
<1>1. IsFiniteSet(S \ {out}) /\ Cardinality(S \ {out}) = Cardinality(S) - 1
  BY FS_RemoveElement
<1>2. Cardinality((S \ {out}) \cup {in}) = Cardinality(S \ {out}) + 1
  BY <1>1, FS_AddElement
<1>3. Cardinality(S) \in Nat
  BY FS_CardinalityType
<1> QED BY <1>1, <1>2, <1>3

\* What the overrides of a swap make of the days.
LEMMA SwapMoves ==
    ASSUME IInv, NEW h \in Handlers, SaveSwap(h)
    PROVE  \E use \in ReviewUse :
               /\ task[h] = UseTask("swap", use)
               /\ \A e \in Employees, date \in Dates :
                      Off(e, date)' = IF e # use.employee THEN Off(e, date)
                                      ELSE IF date = use.replacement THEN TRUE
                                      ELSE IF date = use.original THEN FALSE
                                      ELSE Off(e, date)
<1>1. PICK use \in ReviewUse : task[h] = UseTask("swap", use)
  BY StopOf DEF IInv, TypeInv, TasksTyped, SaveSwap, At, Swapping, UseTask
<1>2. /\ overrides' = [overrides EXCEPT ![use.employee][use.original] = "working_day",
                                        ![use.employee][use.replacement] = "off_day"]
      /\ UNCHANGED <<schedules, holidays, assignments>>
  BY <1>1 DEF SaveSwap, UseTask
<1>3. /\ use.employee \in Employees /\ use.original \in Dates /\ use.replacement \in Dates
      /\ use.original # use.replacement
  BY DEF ReviewUse
<1>4. overrides \in [Employees -> [Dates -> Opt(EmployeeDayOverrideType)]]
  BY DEF IInv, TypeInv, TablesTyped
<1>5. /\ \A e \in Employees, date \in Dates :
             e # use.employee => overrides'[e][date] = overrides[e][date]
      /\ overrides'[use.employee][use.replacement] = "off_day"
      /\ overrides'[use.employee][use.original] = "working_day"
      /\ \A date \in Dates \ {use.original, use.replacement} :
             overrides'[use.employee][date] = overrides[use.employee][date]
  BY <1>2, <1>3, <1>4
<1>6. \A e, date : Matching(e, date)' = Matching(e, date)
  BY <1>2 DEF Matching, Covers, LiveIn
<1>7. ASSUME NEW e \in Employees, NEW date \in Dates,
             overrides'[e][date] = overrides[e][date]
      PROVE  Off(e, date)' = Off(e, date)
  <2>1. LatestAssignment(e)' = LatestAssignment(e)
    BY <1>2 DEF LatestAssignment
  <2>2. Matching(e, date)' = Matching(e, date)
    BY <1>6
  <2> QED BY <1>2, <1>7, <2>1, <2>2 DEF Off
<1>8. /\ "off_day" # None /\ "working_day" # None
  BY RowAssumption DEF EmployeeDayOverrideType
<1>9. Off(use.employee, use.replacement)' = TRUE /\ Off(use.employee, use.original)' = FALSE
  BY <1>5, <1>8 DEF Off
<1> QED BY <1>1, <1>3, <1>5, <1>7, <1>9

\* Where requests take turns, approving a replacement moves an off day and makes or loses none:
\* both days were resolved as they still are, the one off and the other not
\* (WorkSchedulesService.reviewReplacementRequest).
THEOREM SwapsBalance == Spec => SwapsKeepTheBalance
<1> DEFINE Balanced == swaps' # swaps /\ overlaps = 0 =>
               \A e \in Employees : Cardinality(OffDays(e)) = Cardinality(OffDays(e)')
<1>1. IInv /\ SerialInv /\ [Next]_vars => Balanced
  <2> SUFFICES ASSUME IInv, SerialInv, [Next]_vars, swaps' # swaps, overlaps = 0,
                      NEW e \in Employees
               PROVE  Cardinality(OffDays(e)) = Cardinality(OffDays(e)')
    OBVIOUS
  <2>1. PICK h \in Handlers : (Ready(h) /\ Request(h)) \/ Proceed(h) \/ Fail(h)
    BY DEF Next, vars
  <2>2. SaveSwap(h)
    BY <2>1, WhoWrites
  <2>3. PICK use \in ReviewUse :
            /\ task[h] = UseTask("swap", use)
            /\ \A f \in Employees, date \in Dates :
                   Off(f, date)' = IF f # use.employee THEN Off(f, date)
                                   ELSE IF date = use.replacement THEN TRUE
                                   ELSE IF date = use.original THEN FALSE
                                   ELSE Off(f, date)
    BY <2>2, SwapMoves
  <2>4. Off(use.employee, use.original) /\ ~Off(use.employee, use.replacement)
    <3>1. task[h].at = "swap" /\ task[h].use = use
      BY <2>3 DEF UseTask
    <3> QED BY <3>1 DEF SerialInv, TaskFits
  <2>5. use.original \in Dates /\ use.replacement \in Dates /\ use.original # use.replacement
    BY DEF ReviewUse
  <2>6. CASE e # use.employee
    <3>1. OffDays(e)' = OffDays(e)
      BY <2>3, <2>6, OffBoolean DEF OffDays
    <3> QED BY <3>1
  <2>7. CASE e = use.employee
    <3>1. PICK S : S = OffDays(e)
      OBVIOUS
    <3>2. OffDays(e)' = (S \ {use.original}) \cup {use.replacement}
      BY <2>3, <2>5, <2>7, <3>1, OffBoolean DEF OffDays
    <3>3. use.original \in S /\ use.replacement \notin S
      BY <2>4, <2>5, <2>7, <3>1 DEF OffDays
    <3>4. IsFiniteSet(S)
      <4>1. S \subseteq Dates
        BY <3>1 DEF OffDays
      <4> QED BY <4>1, WorkDaysAssumption, FS_Subset
    <3> QED BY <3>1, <3>2, <3>3, <3>4, Exchange
  <2> QED BY <2>6, <2>7
<1>2. Balanced => [swaps' # swaps /\ overlaps = 0 =>
           \A e \in Employees : Cardinality(OffDays(e)) = Cardinality(OffDays(e)')]_vars
  BY Zenon
<1> QED BY <1>1, <1>2, InvAlways, SerialAlways, PTL DEF Spec, SwapsKeepTheBalance


-----------------------------------------------------------------------------
(***************************************************************************)
(* Making an attendance record                                             *)
(***************************************************************************)
Recording(t) == \/ t.at \in Searches /\ t.use.op = "attend"
                \/ t.at \in {"offices", "check_out"}

SavesRecord(t) == t.at = "save" /\ t.table = "records"

SameDay(row, old) ==
    row.day = old.day /\ row.checkIn = old.checkIn /\ row.checkOut = old.checkOut

(* A record without a row is the business of one handler; whoever makes a record makes one    *)
(* without a row; and whoever saves one that has a row keeps what it refers to.               *)
RecordsTold ==
    /\ \A g \in Handlers, h \in Handlers :
           /\ Recording(task[g]) \/ SavesRecord(task[g])
           /\ Recording(task[h]) \/ SavesRecord(task[h])
           /\ task[g].id = task[h].id /\ records[task[g].id] = None
           => g = h
    /\ \A h \in Handlers : Recording(task[h]) => records[task[h].id] = None
    /\ \A h \in Handlers : SavesRecord(task[h]) /\ records[task[h].id] # None =>
           SameDay(task[h].row, records[task[h].id])

-----------------------------------------------------------------------------
(***************************************************************************)
(* What is used, and what is about to be removed                           *)
(***************************************************************************)
Ids == Schedules \cup HolidayIds \cup Offices

IsGone(x) ==
    \/ x \in Schedules /\ schedules[x] # None /\ ~schedules[x].live
    \/ x \in HolidayIds /\ holidays[x] # None /\ ~holidays[x].live
    \/ x \in Offices /\ offices[x] # None /\ ~offices[x].live

RefersTo(record, x) == x \in {record.day.holiday, record.checkIn, record.checkOut}

\* Handlers that found x and will refer to it, or may yet find something to refer to.
Wanting(t, x) ==
    \/ t.at = "assign" /\ x = t.row.schedule
    \/ t.at \in {"offices", "check_out"} /\ x = t.day.holiday
    \/ t.at = "check_out" /\ x = t.checkIn
    \/ SavesRecord(t) /\ records[t.id] = None /\ RefersTo(t.row, x)

Naming(t) == t.at = "assign" \/ Recording(t) \/ (SavesRecord(t) /\ records[t.id] = None)

\* Handlers that counted no use of x, or are going to.
Leaving(t, x) == t.id = x /\ (t.at = "delete" \/ (t.at = "count" /\ x \notin Named))

IsUsed(x) == x \in Named \/ \E h \in Handlers : Wanting(task[h], x)
IsGoing(x) == \E h \in Handlers : Leaving(task[h], x)

Doomed == {x \in Ids : (IsGone(x) \/ IsGoing(x)) /\ IsUsed(x)}
AtRisk == {x \in Ids : (IsGone(x) /\ IsUsed(x)) \/ IsGoing(x)}

SomebodyNames == \E h \in Handlers : Naming(task[h])

(* Rows that are used and removed, or may come to be, are as many as the requests that        *)
(* overlapped another; with the rows that are being removed they are one more at most, and    *)
(* that one only while nobody can come to use it.                                             *)
UsedInv ==
    /\ IsFiniteSet(AtRisk)
    /\ Cardinality(Doomed) <= overlaps
    /\ Cardinality(AtRisk) <= overlaps + 1
    /\ SomebodyNames => Cardinality(AtRisk) <= overlaps

LEMMA NamedWho ==
    ASSUME NEW x
    PROVE  x \in Named <=>
               \/ \E i \in 1..Len(assignments) : assignments[i].schedule = x
               \/ \E a \in RecordIds : records[a] # None /\ RefersTo(records[a], x)
BY DEF Named, RefersTo

LEMMA DistinctIds ==
    /\ \A x \in Schedules : x \notin HolidayIds /\ x \notin Offices /\ x # None
    /\ \A x \in HolidayIds : x \notin Schedules /\ x \notin Offices /\ x # None
    /\ \A x \in Offices : x \notin Schedules /\ x \notin HolidayIds /\ x # None
BY RowAssumption

LEMMA LiveStays ==
    /\ \A s \in Schedules : LiveIn(schedules, s) => ~IsGone(s)
    /\ \A y \in HolidayIds : LiveIn(holidays, y) => ~IsGone(y)
    /\ \A o \in Offices : LiveIn(offices, o) => ~IsGone(o)
BY DistinctIds DEF LiveIn, IsGone

\* A count finds every use: nothing but an assignment refers to a schedule, nothing but the day
\* of a record to a holiday, and nothing but its check-in and check-out to an office.
LEMMA CountFindsUses ==
    ASSUME TablesTyped, NEW t, SoundTask(t), t.at \in {"count", "delete"}, Uses(t.table, t.id) = {}
    PROVE  t.id \in Ids /\ t.id \notin Named
<1>0. /\ \A a \in RecordIds : records[a] # None =>
             /\ records[a].day.holiday \in Opt(HolidayIds)
             /\ records[a].checkIn \in Opt(Offices) /\ records[a].checkOut \in Opt(Offices)
      /\ \A i \in 1..Len(assignments) : assignments[i].schedule \in Schedules
  <2>1. \A a \in RecordIds : records[a] # None => records[a] \in AttendanceRecord
    BY RowFields
  <2>2. \A i \in 1..Len(assignments) : assignments[i] \in EmployeeWorkSchedule
    BY DEF TablesTyped
  <2> QED BY <2>1, <2>2 DEF AttendanceRecord, DayResolution, EmployeeWorkSchedule
<1>1. CASE t.table = "schedules"
  <2>1. t.id \in Schedules
    BY <1>1, TargetTyped
  <2>2. {i \in 1..Len(assignments) : assignments[i].schedule = t.id} = {}
    BY <1>1, Zenon DEF Uses
  <2> QED BY <1>0, <2>1, <2>2, NamedWho, DistinctIds DEF RefersTo, Ids, Opt
<1>2. CASE t.table = "holidays"
  <2>1. t.id \in HolidayIds
    BY <1>2, TargetTyped
  <2>2. {a \in RecordIds : records[a] # None /\ records[a].day.holiday = t.id} = {}
    BY <1>2 DEF Uses
  <2> QED BY <1>0, <2>1, <2>2, NamedWho, DistinctIds DEF RefersTo, Ids, Opt
<1>3. CASE t.table = "offices"
  <2>1. t.id \in Offices
    BY <1>3, TargetTyped
  <2>2. {a \in RecordIds : records[a] # None /\ t.id \in {records[a].checkIn,
                                                          records[a].checkOut}} = {}
    BY <1>3 DEF Uses
  <2> QED BY <1>0, <2>1, <2>2, NamedWho, DistinctIds DEF RefersTo, Ids, Opt
<1> QED BY <1>1, <1>2, <1>3, TargetTyped


\* What a step from t to n is for the rows that are used: a task that neither uses nor removes,
\* a new decision on a record, the two steps of a removal and its beginning, the beginning of a
\* use, and its end as an assignment, as a query, and as a record.
Bare(n) == ~Recording(n) /\ ~SavesRecord(n) /\ n.at \notin {"assign", "count", "delete"}

Harmless(n) ==
    /\ Bare(n) /\ UNCHANGED <<records, assignments>>
    /\ \A x \in Ids : IsGone(x)' => IsGone(x)

Redecides(n) ==
    /\ UNCHANGED tables
    /\ SavesRecord(n) /\ records[n.id] # None /\ SameDay(n.row, records[n.id])

Counts(n) == UNCHANGED tables /\ n.at = "count" /\ n.id \in Ids

Condemns(t, n) ==
    /\ UNCHANGED tables
    /\ t.at = "count" /\ t.id \notin Named /\ n.at = "delete" /\ n.id = t.id

Buries(t, n) ==
    /\ UNCHANGED <<records, assignments>>
    /\ t.at = "delete" /\ n = Idle /\ \A x \in Ids : IsGone(x)' => IsGone(x) \/ x = t.id

Enlists(n) ==
    /\ UNCHANGED tables
    /\ \/ n.at = "assign" /\ ~IsGone(n.row.schedule)
       \/ n.at \in Searches /\ Recording(n) /\ n.id \in Fresh(records)

Pursues(t, n) ==
    /\ UNCHANGED tables
    /\ Recording(t) /\ (Recording(n) \/ SavesRecord(n)) /\ n.id = t.id
    /\ \A x \in Ids : Wanting(n, x) => Wanting(t, x) \/ ~IsGone(x)

Employs(t, n) ==
    /\ UNCHANGED <<schedules, holidays, offices, records>>
    /\ t.at = "assign" /\ n = Idle /\ assignments' = Append(assignments, t.row)

Files(t, n) ==
    /\ UNCHANGED <<schedules, holidays, offices, assignments>> /\ n = Idle
    /\ \E a \in RecordIds, row \in AttendanceRecord :
           t = Saving("records", a, row) /\ records' = [records EXCEPT ![a] = row]

LEMMA GoneKept ==
    ASSUME UNCHANGED <<schedules, holidays, offices>>
    PROVE  \A x : IsGone(x)' <=> IsGone(x)
BY DEF IsGone

LEMMA HarmlessForms ==
    /\ Bare(Idle)
    /\ \A table, id, row : table # "records" => Bare(Saving(table, id, row))
    /\ \A at, use : at \in {"pending", "swap"} => Bare(UseTask(at, use))
    /\ \A at \in Searches, use \in RequestUse \cup ReviewUse : Bare(FirstDay(at, use))
    /\ \A at \in Searches, use \in RequestUse \cup ReviewUse : \A day :
           Bare(SecondDay(at, use, day))
<1> USE DEF Bare, Recording, SavesRecord, Searches
<1>1. \A use \in RequestUse \cup ReviewUse : use.op # "attend"
  BY DEF RequestUse, ReviewUse
<1>2. Bare(Idle)
  BY DEF Idle
<1>3. \A table, id, row : table # "records" => Bare(Saving(table, id, row))
  BY SavingFields
<1>4. \A at, use : at \in {"pending", "swap"} => Bare(UseTask(at, use))
  BY DEF UseTask
<1>5. \A at \in Searches, use \in RequestUse \cup ReviewUse : Bare(FirstDay(at, use))
  BY <1>1, SearchFields
<1>6. ASSUME NEW at \in Searches, NEW use \in RequestUse \cup ReviewUse, NEW day
      PROVE  Bare(SecondDay(at, use, day))
  BY <1>1, <1>6, SearchFields
<1> QED BY <1>2, <1>3, <1>4, <1>5, <1>6

LEMMA ArriveForRows ==
    ASSUME IInv, NEW h \in Handlers, Request(h), Ready(h), NEW n, n = task'[h]
    PROVE  /\ Others(h) /\ task[h] = Idle
           /\ overlaps' = IF Alone THEN overlaps ELSE overlaps + 1
           /\ Harmless(n) \/ Redecides(n) \/ Counts(n) \/ Enlists(n)
<1> USE DEF IInv, TypeInv
<1>1. PICK k : Arrive(h, k) /\ NewTask(k)
  BY Arrival
<1>2. k = n /\ UNCHANGED tables
  BY <1>1, ContinueTask DEF Arrive
<1>3. /\ Others(h) /\ task[h] = Idle
      /\ overlaps' = IF Alone THEN overlaps ELSE overlaps + 1
  BY ArriveForRequests
<1> SUFFICES Harmless(n) \/ Redecides(n) \/ Counts(n) \/ Enlists(n)
  BY <1>3
<1>4. UNCHANGED <<records, assignments>> /\ \A x : IsGone(x)' <=> IsGone(x)
  BY <1>2, GoneKept DEF tables
<1>5. CASE SavesRow(n) \/ AsksForSwap(n) \/ ReviewsSwap(n)
  <2>1. Bare(n)
    BY <1>5, HarmlessForms DEF SavesRow, AsksForSwap, ReviewsSwap, Searches
  <2> QED BY <1>4, <2>1 DEF Harmless
<1>6. CASE Overrides(n)
  <2>1. n.at = "override_save"
    BY <1>6 DEF Overrides
  <2> QED BY <1>4, <2>1 DEF Harmless, Bare, Recording, SavesRecord, Searches
<1>7. CASE RemovesRow(n)
  BY <1>2, <1>7, RemovalFields DEF RemovesRow, Counts, Ids
<1>8. CASE Assigns(n)
  <2>1. PICK dto \in AssignWorkScheduleDto :
            LiveIn(schedules, dto.schedule) /\ n = [at |-> "assign", id |-> None, row |-> dto]
    BY <1>8 DEF Assigns
  <2>2. n.at = "assign" /\ n.row = dto /\ dto.schedule \in Schedules
    BY <2>1 DEF AssignWorkScheduleDto, EmployeeWorkSchedule
  <2> QED BY <1>2, <2>1, <2>2, LiveStays DEF Enlists
<1>9. CASE RecordsDay(n)
  <2>1. PICK use \in AttendUse : use.id \in Fresh(records) /\ n = TheDay("override", use)
    BY <1>9 DEF RecordsDay
  <2>2. n.at = "override" /\ n.id = use.id /\ n.use = use /\ use.op = "attend"
    BY <2>1, SearchFields DEF AttendUse
  <2> QED BY <1>2, <2>1, <2>2 DEF Enlists, Recording, Searches
<1>10. CASE Decides(n)
  <2>1. PICK a \in RecordIds, approval \in Approval :
            records[a] # None /\ n = Saving("records", a, Decided(records[a], approval))
    BY <1>10 DEF Decides
  <2>2. SameDay(Decided(records[a], approval), records[a])
    BY <2>1, RowFields, DecidedTyped DEF SameDay
  <2> QED BY <1>2, <2>1, <2>2, SavingFields DEF Redecides, SavesRecord
<1> QED BY <1>1, <1>2, <1>5, <1>6, <1>7, <1>8, <1>9, <1>10 DEF NewTask


LEMMA SearchForRows ==
    ASSUME NEW t, NEW n, Searching(t), SearchEnds(t, n), UNCHANGED tables
    PROVE  Harmless(n) \/ Pursues(t, n)
<1> USE SearchFields, HarmlessForms, NextSearchOnward
<1>0. /\ UNCHANGED <<records, assignments>> /\ \A x : IsGone(x)' <=> IsGone(x)
      /\ Bare(n) => Harmless(n)
  BY GoneKept DEF tables, Harmless
<1>1. PICK at \in Searches :
        \/ \E use \in AttendUse : t = TheDay(at, use)
        \/ \E use \in RequestUse \cup ReviewUse :
               t = FirstDay(at, use) \/ \E day \in DayResolution : t = SecondDay(at, use, day)
  BY DEF Searching
<1>2. ASSUME NEW use \in AttendUse, t = TheDay(at, use)
      PROVE  Harmless(n) \/ Pursues(t, n)
  <2>0. Recording(t) /\ t.id = use.id /\ use.op = "attend"
    BY <1>2 DEF Recording, AttendUse
  <2>1. CASE n = Idle
    BY <1>0, <2>1
  <2>2. CASE n = TheDay(NextSearch(at), use)
    <3>1. n.at \in {"holiday", "schedule"} /\ n.id = use.id /\ n.use = use
      BY <2>2
    <3>2. Recording(n) /\ \A x : ~Wanting(n, x)
      BY <2>0, <3>1 DEF Recording, Searches, Wanting, SavesRecord
    <3> QED BY <2>0, <3>1, <3>2 DEF Pursues
  <2>3. ASSUME NEW day \in DayResolution, FoundDay(at, use.employee, use.date, day),
               n = OfficeTask(use, day)
        PROVE  Pursues(t, n)
    <3>1. n.at = "offices" /\ n.id = use.id /\ n.day = day
      BY <2>3 DEF OfficeTask
    <3>2. \A x \in Ids : x = day.holiday => ~IsGone(x)
      <4>1. CASE at = "holiday"
        <5>1. PICK y \in HolidayIds : LiveIn(holidays, y) /\ day = ByHoliday(y)
          BY <2>3, <4>1 DEF FoundDay, HighestPriority, Matching
        <5> QED BY <5>1, LiveStays DEF ByHoliday
      <4>2. CASE at # "holiday"
        <5>1. day.holiday = None
          BY <2>3, <4>2 DEF FoundDay, ByOverride, ByDefault, BySchedule
        <5> QED BY <5>1, DistinctIds DEF Ids
      <4> QED BY <4>1, <4>2
    <3>3. Recording(n) /\ \A x \in Ids : Wanting(n, x) => ~IsGone(x)
      BY <3>1, <3>2 DEF Recording, Wanting, SavesRecord
    <3> QED BY <2>0, <3>1, <3>3 DEF Pursues
  <2> QED BY <1>2, <2>1, <2>2, <2>3, SearchTheDay
<1>3. ASSUME NEW use \in RequestUse \cup ReviewUse, t = FirstDay(at, use)
      PROVE  Bare(n)
  <2>1. \/ n = Idle
        \/ n = FirstDay(NextSearch(at), use)
        \/ \E day \in DayResolution : n = SecondDay("override", use, day)
    BY <1>3, SearchFirstDay
  <2> QED BY <2>1 DEF Searches
<1>4. ASSUME NEW use \in RequestUse \cup ReviewUse, NEW first \in DayResolution,
             t = SecondDay(at, use, first)
      PROVE  Bare(n)
  <2>1. \/ n = Idle
        \/ n = SecondDay(NextSearch(at), use, first)
        \/ n = UseTask(IF use.op = "request" THEN "pending" ELSE "swap", use)
    BY <1>4, SearchSecondDay
  <2> QED BY <2>1 DEF Searches
<1> QED BY <1>0, <1>1, <1>2, <1>3, <1>4

LEMMA SaveForRows ==
    ASSUME IInv, NEW t, SavedRow(t) \/ SavedRequest(t) \/ SavedRecord(t), NEW n, n = Idle
    PROVE  Harmless(n) \/ Files(t, n)
<1> USE DEF IInv, TypeInv, TablesTyped
<1>0. Bare(n)
  BY HarmlessForms
<1>1. ASSUME NEW s \in Schedules, NEW row \in WorkSchedule, row.live, PutSchedule(s, row)
      PROVE  Harmless(n)
  <2>1. \A x : IsGone(x)' => IsGone(x)
    BY <1>1 DEF PutSchedule, IsGone
  <2> QED BY <1>0, <1>1, <2>1 DEF PutSchedule, Harmless
<1>2. ASSUME NEW y \in HolidayIds, NEW row \in Holiday, row.live, PutHoliday(y, row)
      PROVE  Harmless(n)
  <2>1. \A x : IsGone(x)' => IsGone(x)
    BY <1>2 DEF PutHoliday, IsGone
  <2> QED BY <1>0, <1>2, <2>1 DEF PutHoliday, Harmless
<1>3. ASSUME NEW o \in Offices, NEW row \in OfficeLocation, row.live, PutOffice(o, row)
      PROVE  Harmless(n)
  <2>1. \A x : IsGone(x)' => IsGone(x)
    BY <1>3 DEF PutOffice, IsGone
  <2> QED BY <1>0, <1>3, <2>1 DEF PutOffice, Harmless
<1>4. CASE SavedRequest(t)
  <2>1. UNCHANGED <<schedules, holidays, offices, records, assignments>>
    BY <1>4 DEF SavedRequest, PutRequest
  <2> QED BY <1>0, <2>1, GoneKept DEF Harmless
<1>5. CASE SavedRecord(t)
  BY <1>5 DEF SavedRecord, PutRecord, Files
<1> QED BY <1>1, <1>2, <1>3, <1>4, <1>5, Zenon DEF SavedRow

LEMMA DeleteForRows ==
    ASSUME IInv, NEW t, DeletedRow(t), NEW n, n = Idle
    PROVE  Buries(t, n)
<1> USE RemovalFields DEF IInv, TypeInv, TablesTyped
<1>1. ASSUME NEW s \in Schedules, t = RemovalTask("delete", "schedules", s),
             PutSchedule(s, Wiped(schedules[s]))
      PROVE  Buries(t, n)
  BY <1>1 DEF PutSchedule, IsGone, Buries
<1>2. ASSUME NEW y \in HolidayIds, t = RemovalTask("delete", "holidays", y),
             PutHoliday(y, Wiped(holidays[y]))
      PROVE  Buries(t, n)
  BY <1>2 DEF PutHoliday, IsGone, Buries
<1>3. ASSUME NEW o \in Offices, t = RemovalTask("delete", "offices", o),
             PutOffice(o, Wiped(offices[o]))
      PROVE  Buries(t, n)
  BY <1>3 DEF PutOffice, IsGone, Buries
<1> QED BY <1>1, <1>2, <1>3, Zenon DEF DeletedRow


\* Only an office that is there is matched.
LEMMA MatchesOpen == \A mark : \A o \in Matches(mark) : o = None \/ (o \in Offices /\ ~IsGone(o))
<1> SUFFICES ASSUME NEW mark, NEW o \in Matches(mark), o # None
             PROVE  o \in Offices /\ LiveIn(offices, o)
  BY LiveStays
<1> QED BY DEF Matches

LEMMA ProceedForRows ==
    ASSUME IInv, NEW h \in Handlers, Proceed(h), NEW t, t = task[h], NEW n, n = task'[h]
    PROVE  /\ Others(h) /\ overlaps' = overlaps
           /\ \/ Harmless(n) \/ Condemns(t, n) \/ Buries(t, n) \/ Pursues(t, n)
              \/ Employs(t, n) \/ Files(t, n)
<1> USE DEF IInv, TypeInv
<1>0. SoundTask(t) /\ Others(h) /\ overlaps' = overlaps
  BY ProceedForRequests DEF TasksTyped
<1> SUFFICES \/ Harmless(n) \/ Condemns(t, n) \/ Buries(t, n) \/ Pursues(t, n)
             \/ Employs(t, n) \/ Files(t, n)
  BY <1>0
<1>1. ASSUME UNCHANGED <<schedules, holidays, offices, records, assignments>>, Bare(n)
      PROVE  Harmless(n)
  BY <1>1, GoneKept DEF Harmless
<1>2. CASE FindOverride(h) \/ FindHolidays(h) \/ FindSchedule(h)
  <2>1. PICK next : t.at \in Searches /\ Read(h, next) /\ SearchEnds(t, next)
    BY <1>2, SearchStep
  <2>2. next = n /\ UNCHANGED tables /\ Searching(t)
    BY <1>0, <2>1, ReadTasks, StopOf DEF Read
  <2> QED BY <2>1, <2>2, SearchForRows
<1>3. CASE Save(h)
  <2>1. n = Idle /\ (SavedRow(t) \/ SavedRequest(t) \/ SavedRecord(t))
    BY <1>3, SaveStep, ReadTasks
  <2> QED BY <2>1, SaveForRows
<1>4. CASE Delete(h)
  <2>1. n = Idle /\ DeletedRow(t)
    BY <1>4, DeleteStep, ReadTasks
  <2> QED BY <2>1, DeleteForRows
<1>5. CASE SaveAssignment(h)
  BY <1>5, ReadTasks DEF SaveAssignment, At, Employs
<1>6. CASE SaveOverride(h)
  <2>1. n = Idle /\ UNCHANGED <<schedules, holidays, offices, records, assignments>>
    BY <1>6, ReadTasks DEF SaveOverride
  <2> QED BY <1>1, <2>1, HarmlessForms
<1>7. CASE Count(h)
  <2>1. t.at = "count" /\ t = RemovalTask("count", t.table, t.id)
    BY <1>0, <1>7, TargetTyped DEF Count, At
  <2>2. [t EXCEPT !.at = "delete"] = RemovalTask("delete", t.table, t.id)
    BY <2>1 DEF RemovalTask
  <2>3. Read(h, IF Uses(t.table, t.id) = {} THEN RemovalTask("delete", t.table, t.id) ELSE Idle)
    BY <1>7, <2>2 DEF Count
  <2>4. /\ n = IF Uses(t.table, t.id) = {} THEN RemovalTask("delete", t.table, t.id) ELSE Idle
        /\ UNCHANGED tables
    BY <2>3, ReadTasks DEF Read
  <2>5. CASE Uses(t.table, t.id) = {}
    <3>1. n.at = "delete" /\ n.id = t.id
      BY <2>4, <2>5, RemovalFields
    <3>2. t.id \notin Named
      BY <1>0, <2>1, <2>5, CountFindsUses
    <3> QED BY <2>1, <2>4, <3>1, <3>2 DEF Condemns
  <2>6. CASE Uses(t.table, t.id) # {}
    BY <1>1, <2>4, <2>6, HarmlessForms DEF tables
  <2> QED BY <2>5, <2>6
<1>8. CASE FindPending(h)
  <2>1. PICK next : /\ Read(h, next)
                    /\ next \in {Idle, Saving("requests", t.id, RequestRow(t.use))}
    BY <1>8 DEF FindPending
  <2>2. n = next /\ UNCHANGED tables
    BY <2>1, ReadTasks DEF Read
  <2>3. Bare(n)
    BY <2>1, <2>2, HarmlessForms
  <2> QED BY <1>1, <2>2, <2>3 DEF tables
<1>9. CASE SaveSwap(h)
  <2>1. /\ n = Saving("requests", t.use.id, RequestRow(t.use))
        /\ UNCHANGED <<schedules, holidays, offices, records, assignments>>
    BY <1>9, ReadTasks DEF SaveSwap
  <2> QED BY <1>1, <2>1, HarmlessForms
<1>10. CASE MatchCheckIn(h)
  <2>1. PICK use \in AttendUse, day \in DayResolution, o \in Opt(Offices) :
            t = OfficeTask(use, day) /\ o \in Matches(use.in) /\ Read(h, OutTask(use, day, o))
    BY <1>10, MatchCheckInStep
  <2>2. n = OutTask(use, day, o) /\ UNCHANGED tables
    BY <2>1, ReadTasks DEF Read
  <2>3. /\ t.at = "offices" /\ t.id = use.id /\ t.day = day
        /\ n.at = "check_out" /\ n.id = use.id /\ n.day = day /\ n.checkIn = o
    BY <2>1, <2>2 DEF OfficeTask, OutTask
  <2>4. \A x \in Ids : x = o => ~IsGone(x)
    BY <2>1, MatchesOpen, DistinctIds DEF Ids
  <2> QED BY <2>2, <2>3, <2>4 DEF Pursues, Recording, Wanting, SavesRecord
<1>11. CASE MatchCheckOut(h)
  <2>1. PICK use \in AttendUse, day \in DayResolution, in \in Opt(Offices), out \in Opt(Offices) :
            /\ t = OutTask(use, day, in) /\ out \in Matches(use.out)
            /\ Read(h, Saving("records", use.id, NewRecord(use, day, in, out)))
    BY <1>11, MatchCheckOutStep
  <2>2. n = Saving("records", use.id, NewRecord(use, day, in, out)) /\ UNCHANGED tables
    BY <2>1, ReadTasks DEF Read
  <2>3. /\ t.at = "check_out" /\ t.id = use.id /\ t.day = day /\ t.checkIn = in
        /\ n.at = "save" /\ n.table = "records" /\ n.id = use.id
    BY <2>1, <2>2, SavingFields DEF OutTask
  <2>4. \A x : RefersTo(n.row, x) => x \in {day.holiday, in, out}
    BY <2>2, SavingFields DEF NewRecord, RefersTo
  <2>5. \A x \in Ids : x = out => ~IsGone(x)
    BY <2>1, MatchesOpen, DistinctIds DEF Ids
  <2> QED BY <2>2, <2>3, <2>4, <2>5 DEF Pursues, Recording, Wanting, SavesRecord
<1> QED BY <1>2, <1>3, <1>4, <1>5, <1>6, <1>7, <1>8, <1>9, <1>10, <1>11 DEF Proceed

LEMMA FailForRows ==
    ASSUME IInv, NEW h \in Handlers, Fail(h), NEW n, n = task'[h]
    PROVE  Others(h) /\ overlaps' = overlaps /\ Harmless(n)
<1>1. Others(h) /\ overlaps' = overlaps
  BY FailForRequests
<1>2. n = Idle /\ UNCHANGED <<schedules, holidays, offices, records, assignments>>
  BY ContinueTask DEF Fail, IInv, TypeInv, tables
<1>3. Harmless(n)
  BY <1>2, HarmlessForms, GoneKept DEF Harmless
<1> QED BY <1>1, <1>3


LEMMA RecordTask ==
    ASSUME NEW t, SoundTask(t), Recording(t) \/ SavesRecord(t)
    PROVE  t.id \in RecordIds
<1>1. CASE t.at \in Searches /\ t.use.op = "attend"
  <2>1. Searching(t)
    BY <1>1, StopOf
  <2>2. \A use \in RequestUse \cup ReviewUse : use.op # "attend"
    BY DEF RequestUse, ReviewUse
  <2> QED BY <1>1, <2>1, <2>2, SearchFields DEF Searching, AttendUse
<1>2. CASE t.at \in {"offices", "check_out"}
  BY <1>2, StopOf DEF Attending, OfficeTask, OutTask, AttendUse
<1>3. CASE SavesRecord(t)
  BY <1>3, StopOf, SavingFields DEF SavesRecord, SavingRow
<1> QED BY <1>1, <1>2, <1>3 DEF Recording

LEMMA RecordsKept ==
    ASSUME IInv, RecordsTold, NEW h \in Handlers, Others(h), NEW t, t = task[h], NEW n, n = task'[h],
           \/ Harmless(n) \/ Redecides(n) \/ Counts(n) \/ Enlists(n) \/ Condemns(t, n)
           \/ Buries(t, n) \/ Pursues(t, n) \/ Employs(t, n) \/ Files(t, n)
    PROVE  RecordsTold'
<1>0. Bare(Idle)
  BY HarmlessForms
<1>1. CASE UNCHANGED records /\ ~Recording(n) /\ ~SavesRecord(n)
  BY <1>1 DEF Others, RecordsTold
<1>2. CASE Harmless(n) \/ Counts(n) \/ Condemns(t, n) \/ Buries(t, n) \/ Employs(t, n)
  <2>1. UNCHANGED records
    BY <1>2 DEF Harmless, Counts, Condemns, Buries, Employs, tables
  <2>2. ~Recording(n) /\ ~SavesRecord(n)
    BY <1>0, <1>2 DEF Harmless, Counts, Condemns, Buries, Employs, Bare, Recording, SavesRecord,
                      Searches
  <2> QED BY <1>1, <2>1, <2>2
<1>3. CASE Redecides(n)
  <2>1. UNCHANGED records /\ ~Recording(n)
    BY <1>3 DEF Redecides, tables, SavesRecord, Recording, Searches
  <2> QED BY <1>3, <2>1 DEF Redecides, Others, RecordsTold
<1>4. CASE Enlists(n)
  <2>1. UNCHANGED records /\ ~SavesRecord(n)
    BY <1>4 DEF Enlists, tables, SavesRecord, Searches
  <2>2. CASE ~Recording(n)
    BY <1>1, <2>1, <2>2
  <2>3. CASE Recording(n)
    <3>1. n.id \in Fresh(records)
      BY <1>4, <2>3 DEF Enlists, Recording, Searches
    <3>2. /\ records[n.id] = None
          /\ \A g \in Handlers : Recording(task[g]) \/ SavesRecord(task[g]) => task[g].id # n.id
      BY <3>1 DEF Fresh, Held, At, Recording, SavesRecord, Searches
    <3> QED BY <2>1, <2>3, <3>2 DEF Others, RecordsTold
  <2> QED BY <2>2, <2>3
<1>5. CASE Pursues(t, n)
  <2>1. UNCHANGED records /\ Recording(t) /\ n.id = t.id /\ records[n.id] = None
    BY <1>5 DEF Pursues, tables, RecordsTold
  <2> QED BY <2>1 DEF Others, RecordsTold
<1>6. CASE Files(t, n)
  <2>1. PICK a \in RecordIds, row \in AttendanceRecord :
            t = Saving("records", a, row) /\ records' = [records EXCEPT ![a] = row]
    BY <1>6 DEF Files
  <2>2. /\ SavesRecord(t) /\ t.id = a /\ t.row = row /\ n = Idle
    BY <1>6, <2>1, SavingFields DEF Files, SavesRecord
  <2>3. /\ records'[a] = row /\ row # None
        /\ \A b \in RecordIds : b # a => records'[b] = records[b]
    BY <2>1, RowAssumption DEF IInv, TypeInv, TablesTyped
  <2>4. \A g \in Handlers : Recording(task[g]) \/ SavesRecord(task[g]) => task[g].id \in RecordIds
    BY RecordTask DEF IInv, TypeInv, TasksTyped
  <2>5. \A g \in Handlers : Recording(task'[g]) \/ SavesRecord(task'[g]) =>
            g # h /\ task'[g] = task[g]
    BY <1>0, <2>2 DEF Others, Bare
  <2>6. ASSUME NEW g \in Handlers, g # h, Recording(task[g]) \/ SavesRecord(task[g]),
               task[g].id = a
        PROVE  SavesRecord(task[g]) /\ ~Recording(task[g]) /\ SameDay(task[g].row, row)
    <3>1. records[a] # None
      BY <2>2, <2>6 DEF RecordsTold
    <3> QED BY <2>2, <2>6, <3>1 DEF RecordsTold, SameDay
  <2>7. \A g \in Handlers : Recording(task'[g]) => records'[task'[g].id] = None
    BY <2>3, <2>4, <2>5, <2>6 DEF RecordsTold
  <2>8. \A g \in Handlers : SavesRecord(task'[g]) /\ records'[task'[g].id] # None =>
            SameDay(task'[g].row, records'[task'[g].id])
    BY <2>3, <2>4, <2>5, <2>6 DEF RecordsTold
  <2>9. ASSUME NEW g \in Handlers, NEW k \in Handlers,
               Recording(task'[g]) \/ SavesRecord(task'[g]),
               Recording(task'[k]) \/ SavesRecord(task'[k]),
               task'[g].id = task'[k].id, records'[task'[g].id] = None
        PROVE  g = k
    <3>1. records[task[g].id] = None /\ task'[g] = task[g] /\ task'[k] = task[k]
      BY <2>3, <2>4, <2>5, <2>9
    <3> QED BY <2>9, <3>1 DEF RecordsTold
  <2> QED BY <2>7, <2>8, <2>9 DEF RecordsTold
<1> QED BY <1>2, <1>3, <1>4, <1>5, <1>6

LEMMA RecordsInit == Init => RecordsTold
<1> SUFFICES ASSUME Init PROVE RecordsTold
  OBVIOUS
<1>1. \A g \in Handlers : ~Recording(task[g]) /\ ~SavesRecord(task[g])
  BY HarmlessForms DEF Init, Bare
<1> QED BY <1>1 DEF RecordsTold


LEMMA UsedElsewhere ==
    ASSUME NEW h \in Handlers, Others(h), NEW n, n = task'[h], UNCHANGED <<records, assignments>>
    PROVE  /\ \A x : IsUsed(x)' => IsUsed(x) \/ Wanting(n, x)
           /\ \A x : IsGoing(x)' => IsGoing(x) \/ Leaving(n, x)
           /\ SomebodyNames' => SomebodyNames \/ Naming(n)
<1>1. Named' = Named
  BY DEF Named
<1>2. \A g \in Handlers : task'[g] = task[g] \/ task'[g] = n
  BY DEF Others
<1>3. \A x : IsUsed(x)' => IsUsed(x) \/ Wanting(n, x)
  BY <1>1, <1>2 DEF IsUsed, Wanting
<1>4. \A x : IsGoing(x)' => IsGoing(x) \/ Leaving(n, x)
  BY <1>1, <1>2 DEF IsGoing, Leaving
<1>5. SomebodyNames' => SomebodyNames \/ Naming(n)
  BY <1>2 DEF SomebodyNames, Naming
<1> QED BY <1>3, <1>4, <1>5

LEMMA DoomedFinite ==
    ASSUME IsFiniteSet(AtRisk)
    PROVE  /\ Doomed \subseteq AtRisk /\ IsFiniteSet(Doomed)
           /\ Cardinality(Doomed) \in Nat /\ Cardinality(AtRisk) \in Nat
<1>1. Doomed \subseteq AtRisk
  BY DEF Doomed, AtRisk
<1> QED BY <1>1, Shrinks

\* Nothing more is used or removed than before, ...
LEMMA UsedShrinks ==
    ASSUME UsedInv, Doomed' \subseteq Doomed, AtRisk' \subseteq AtRisk,
           SomebodyNames' => SomebodyNames,
           overlaps \in Nat, overlaps' \in Nat, overlaps <= overlaps'
    PROVE  UsedInv'
<1> PICK D : D = Doomed
  OBVIOUS
<1> PICK E : E = Doomed'
  OBVIOUS
<1> PICK R : R = AtRisk
  OBVIOUS
<1> PICK S : S = AtRisk'
  OBVIOUS
<1>1. /\ IsFiniteSet(R) /\ IsFiniteSet(D) /\ Cardinality(D) <= overlaps
      /\ Cardinality(R) <= overlaps + 1 /\ (SomebodyNames => Cardinality(R) <= overlaps)
  BY DoomedFinite DEF UsedInv
<1>2. /\ IsFiniteSet(S) /\ Cardinality(S) <= Cardinality(R) /\ Cardinality(E) <= Cardinality(D)
      /\ Cardinality(S) \in Nat /\ Cardinality(R) \in Nat
      /\ Cardinality(D) \in Nat /\ Cardinality(E) \in Nat
  BY <1>1, Shrinks
<1>3. Cardinality(E) <= overlaps' /\ Cardinality(S) <= overlaps' + 1
  BY <1>1, <1>2
<1>4. SomebodyNames' => Cardinality(S) <= overlaps'
  BY <1>1, <1>2
<1> QED BY <1>2, <1>3, <1>4 DEF UsedInv

\* ... or somebody may use what he finds, which is there, ...
LEMMA UsedNaming ==
    ASSUME UsedInv, AtRisk' \subseteq AtRisk, overlaps' \in Nat, Cardinality(AtRisk) <= overlaps'
    PROVE  UsedInv'
<1> PICK E : E = Doomed'
  OBVIOUS
<1> PICK R : R = AtRisk
  OBVIOUS
<1> PICK S : S = AtRisk'
  OBVIOUS
<1>1. IsFiniteSet(R) /\ Cardinality(R) <= overlaps'
  BY DEF UsedInv
<1>2. E \subseteq S
  BY DEF Doomed, AtRisk
<1>3. /\ IsFiniteSet(S) /\ Cardinality(S) <= Cardinality(R)
      /\ Cardinality(S) \in Nat /\ Cardinality(R) \in Nat
  BY <1>1, Shrinks
<1>4. Cardinality(E) <= Cardinality(S) /\ Cardinality(E) \in Nat
  BY <1>2, <1>3, Shrinks
<1>5. Cardinality(S) <= overlaps'
  BY <1>1, <1>3
<1>6. Cardinality(E) <= overlaps' /\ Cardinality(S) <= overlaps' + 1
  BY <1>3, <1>4, <1>5
<1> QED BY <1>3, <1>5, <1>6 DEF UsedInv

\* ... or a removal begins while others are at work.
LEMMA UsedOverlaps ==
    ASSUME UsedInv, NEW x, Doomed' \subseteq Doomed \cup {x}, AtRisk' \subseteq AtRisk \cup {x},
           SomebodyNames' => SomebodyNames, overlaps \in Nat, overlaps' = overlaps + 1
    PROVE  UsedInv'
<1> PICK D : D = Doomed
  OBVIOUS
<1> PICK E : E = Doomed'
  OBVIOUS
<1> PICK R : R = AtRisk
  OBVIOUS
<1> PICK S : S = AtRisk'
  OBVIOUS
<1>1. /\ IsFiniteSet(R) /\ IsFiniteSet(D) /\ Cardinality(D) <= overlaps
      /\ Cardinality(R) <= overlaps + 1 /\ (SomebodyNames => Cardinality(R) <= overlaps)
  BY DoomedFinite DEF UsedInv
<1>2. /\ IsFiniteSet(S) /\ Cardinality(S) <= Cardinality(R) + 1
      /\ Cardinality(S) \in Nat /\ Cardinality(R) \in Nat
  BY <1>1, Grows
<1>3. /\ Cardinality(E) <= Cardinality(D) + 1
      /\ Cardinality(D) \in Nat /\ Cardinality(E) \in Nat
  BY <1>1, Grows
<1>4. Cardinality(E) <= overlaps' /\ Cardinality(S) <= overlaps' + 1
  BY <1>1, <1>2, <1>3
<1>5. SomebodyNames' => Cardinality(S) <= overlaps'
  BY <1>1, <1>2
<1> QED BY <1>2, <1>4, <1>5 DEF UsedInv


\* A removal begins while nobody is at work.
LEMMA UsedAlone ==
    ASSUME UsedInv, NEW x, AtRisk = Doomed, Doomed' \subseteq Doomed, AtRisk' \subseteq AtRisk \cup {x},
           ~SomebodyNames', overlaps \in Nat, overlaps' = overlaps
    PROVE  UsedInv'
<1> PICK E : E = Doomed'
  OBVIOUS
<1> PICK R : R = AtRisk
  OBVIOUS
<1> PICK S : S = AtRisk'
  OBVIOUS
<1>1. IsFiniteSet(R) /\ Cardinality(R) <= overlaps
  BY DEF UsedInv
<1>2. /\ IsFiniteSet(S) /\ Cardinality(S) <= Cardinality(R) + 1
      /\ Cardinality(S) \in Nat /\ Cardinality(R) \in Nat
  BY <1>1, Grows
<1>3. Cardinality(E) <= Cardinality(R) /\ Cardinality(E) \in Nat
  BY <1>1, Shrinks
<1>4. Cardinality(E) <= overlaps' /\ Cardinality(S) <= overlaps' + 1
  BY <1>1, <1>2, <1>3
<1> QED BY <1>2, <1>4 DEF UsedInv

LEMMA AloneRests ==
    ASSUME IInv, Alone
    PROVE  ~SomebodyNames /\ (\A x : ~IsGoing(x)) /\ AtRisk = Doomed
<1>1. \A g \in Handlers : task[g] = Idle
  BY StopOf DEF Alone, At, IInv, TypeInv, TasksTyped
<1>2. ~SomebodyNames
  BY <1>1, HarmlessForms, IdleSound DEF SomebodyNames, Naming, Bare
<1>3. \A x : ~IsGoing(x)
  BY <1>1, IdleSound DEF IsGoing, Leaving
<1> QED BY <1>2, <1>3 DEF AtRisk, Doomed

LEMMA RiskKept ==
    ASSUME \A x \in Ids : IsGone(x)' => IsGone(x),
           \A x : IsUsed(x)' => IsUsed(x),
           \A x : IsGoing(x)' => IsGoing(x)
    PROVE  Doomed' \subseteq Doomed /\ AtRisk' \subseteq AtRisk
BY DEF Doomed, AtRisk

LEMMA BareTask ==
    ASSUME NEW n, Bare(n)
    PROVE  ~Naming(n) /\ \A x : ~Wanting(n, x) /\ ~Leaving(n, x)
BY DEF Bare, Naming, Wanting, Leaving, Recording, SavesRecord

\* The end of a use: what is referred to now was wanted before.
LEMMA UsedEmploys ==
    ASSUME IInv, NEW h \in Handlers, Others(h), NEW t, t = task[h], NEW n, n = task'[h],
           Employs(t, n)
    PROVE  /\ \A x : IsUsed(x)' => IsUsed(x)
           /\ \A x : IsGoing(x)' => IsGoing(x)
           /\ SomebodyNames' => SomebodyNames
<1>1. \A x : Wanting(t, x) <=> x = t.row.schedule
  BY DEF Employs, Wanting, SavesRecord
<1>2. assignments \in Seq(EmployeeWorkSchedule) /\ assignments' = Append(assignments, t.row)
  BY DEF Employs, IInv, TypeInv, TablesTyped
<1>3. /\ Len(assignments') = Len(assignments) + 1 /\ Len(assignments) \in Nat
      /\ assignments'[Len(assignments) + 1] = t.row
      /\ \A i \in 1..Len(assignments) : assignments'[i] = assignments[i]
  BY <1>2
<1>4. {assignments'[i].schedule : i \in 1..Len(assignments')}
          = {assignments[i].schedule : i \in 1..Len(assignments)} \cup {t.row.schedule}
  BY <1>3
<1>5. Named' = Named \cup {t.row.schedule}
  BY <1>4 DEF Named, Employs
<1>6. \A g \in Handlers : task'[g] = task[g] \/ task'[g] = Idle
  BY DEF Others, Employs
<1>7. Bare(Idle) /\ UNCHANGED records
  BY HarmlessForms DEF Employs
<1>8. \A g \in Handlers : \A x : Wanting(task[g], x)' => Wanting(task[g], x)
  BY <1>6, <1>7 DEF Wanting, Bare, Recording, SavesRecord
<1>9. \A g \in Handlers : \A x : Leaving(task[g], x)' => Leaving(task[g], x)
  BY <1>5, <1>6, <1>7 DEF Leaving, Bare
<1>10. \A g \in Handlers : Naming(task[g])' => Naming(task[g])
  BY <1>6, <1>7 DEF Naming, Bare, Recording, SavesRecord
<1>11. ASSUME NEW x, IsUsed(x)'
       PROVE  IsUsed(x)
  <2>1. x \in Named \/ x = t.row.schedule \/ \E g \in Handlers : Wanting(task[g], x)
    BY <1>5, <1>8, <1>11 DEF IsUsed
  <2> QED BY <1>1, <2>1 DEF IsUsed
<1> QED BY <1>9, <1>10, <1>11 DEF IsGoing, SomebodyNames

LEMMA UsedFiles ==
    ASSUME IInv, RecordsTold, NEW h \in Handlers, Others(h), NEW t, t = task[h],
           NEW n, n = task'[h], Files(t, n)
    PROVE  /\ \A x : IsUsed(x)' => IsUsed(x)
           /\ \A x : IsGoing(x)' => IsGoing(x)
           /\ SomebodyNames' => SomebodyNames
<1>1. PICK a \in RecordIds, row \in AttendanceRecord :
          t = Saving("records", a, row) /\ records' = [records EXCEPT ![a] = row]
  BY DEF Files
<1>2. SavesRecord(t) /\ t.id = a /\ t.row = row /\ n = Idle /\ UNCHANGED assignments
  BY <1>1, SavingFields DEF Files, SavesRecord
<1>3. /\ records'[a] = row /\ row # None
      /\ \A b \in RecordIds : b # a => records'[b] = records[b]
  BY <1>1, RowAssumption DEF IInv, TypeInv, TablesTyped
<1>4. \A x : x \in Named' <=>
             \/ \E i \in 1..Len(assignments) : assignments[i].schedule = x
             \/ \E b \in RecordIds : records'[b] # None /\ RefersTo(records'[b], x)
  BY <1>2 DEF Named, RefersTo
<1>5. /\ \A x : x \in Named => x \in Named'
      /\ \A x : x \in Named' => x \in Named \/ Wanting(t, x)
  <2>1. CASE records[a] = None
    <3>1. \A x : RefersTo(row, x) => Wanting(t, x)
      BY <1>2, <2>1 DEF Wanting
    <3> QED BY <1>3, <1>4, <2>1, <3>1, NamedWho
  <2>2. CASE records[a] # None
    <3>1. \A x : RefersTo(row, x) <=> RefersTo(records[a], x)
      BY <1>2, <2>2 DEF RecordsTold, SameDay, RefersTo
    <3> QED BY <1>3, <1>4, <2>2, <3>1, NamedWho
  <2> QED BY <2>1, <2>2
<1>6. \A g \in Handlers : task'[g] = task[g] \/ task'[g] = Idle
  BY <1>2 DEF Others
<1>7. \A g \in Handlers : SavesRecord(task[g]) /\ records'[task[g].id] = None =>
          records[task[g].id] = None
  BY <1>3, RecordTask DEF IInv, TypeInv, TasksTyped
<1>8. Bare(Idle)
  BY HarmlessForms
<1>9. \A g \in Handlers : \A x : Wanting(task[g], x)' => Wanting(task[g], x)
  BY <1>6, <1>7, <1>8 DEF Wanting, Bare, Recording, SavesRecord
<1>10. \A g \in Handlers : \A x : Leaving(task[g], x)' => Leaving(task[g], x)
  BY <1>5, <1>6, <1>8 DEF Leaving, Bare
<1>11. \A g \in Handlers : Naming(task[g])' => Naming(task[g])
  BY <1>6, <1>7, <1>8 DEF Naming, Bare, Recording, SavesRecord
<1>12. ASSUME NEW x, IsUsed(x)'
       PROVE  IsUsed(x)
  <2>1. x \in Named \/ \E g \in Handlers : Wanting(task[g], x)
    BY <1>5, <1>9, <1>12 DEF IsUsed
  <2> QED BY <2>1 DEF IsUsed
<1> QED BY <1>10, <1>11, <1>12 DEF IsGoing, SomebodyNames


\* The steps that keep to what is used and being removed, whatever the others do.
LEMMA UsedOnward ==
    ASSUME IInv, RecordsTold, UsedInv, NEW h \in Handlers, Others(h),
           NEW t, t = task[h], NEW n, n = task'[h], overlaps' \in Nat, overlaps <= overlaps',
           \/ Harmless(n) \/ Redecides(n) \/ Condemns(t, n) \/ Buries(t, n)
           \/ Employs(t, n) \/ Files(t, n)
    PROVE  UsedInv'
<1>0. overlaps \in Nat
  BY DEF IInv, TypeInv, CountsTyped
<1>1. ASSUME Doomed' \subseteq Doomed, AtRisk' \subseteq AtRisk, SomebodyNames' => SomebodyNames
      PROVE  UsedInv'
  BY <1>0, <1>1, UsedShrinks
<1>2. ASSUME \A x \in Ids : IsGone(x)' => IsGone(x),
             \A x : IsUsed(x)' => IsUsed(x),
             \A x : IsGoing(x)' => IsGoing(x),
             SomebodyNames' => SomebodyNames
      PROVE  UsedInv'
  BY <1>1, <1>2, RiskKept
<1>3. CASE Harmless(n)
  <2>1. UNCHANGED <<records, assignments>> /\ Bare(n) /\ \A x \in Ids : IsGone(x)' => IsGone(x)
    BY <1>3 DEF Harmless
  <2> QED BY <1>2, <2>1, UsedElsewhere, BareTask
<1>4. CASE Redecides(n)
  <2>1. /\ UNCHANGED <<records, assignments, schedules, holidays, offices>>
        /\ SavesRecord(n) /\ records[n.id] # None
    BY <1>4 DEF Redecides, tables
  <2>2. ~Naming(n) /\ \A x : ~Wanting(n, x) /\ ~Leaving(n, x)
    BY <2>1 DEF SavesRecord, Naming, Wanting, Leaving, Recording, Searches
  <2> QED BY <1>2, <2>1, <2>2, UsedElsewhere, GoneKept
<1>5. CASE Condemns(t, n)
  <2>1. /\ UNCHANGED <<records, assignments, schedules, holidays, offices>>
        /\ t.at = "count" /\ t.id \notin Named /\ n.at = "delete" /\ n.id = t.id
    BY <1>5 DEF Condemns, tables
  <2>2. ~Naming(n) /\ \A x : ~Wanting(n, x)
    BY <2>1 DEF SavesRecord, Naming, Wanting, Recording, Searches
  <2>3. \A x : Leaving(n, x) => IsGoing(x)
    BY <2>1 DEF Leaving, IsGoing
  <2> QED BY <1>2, <2>1, <2>2, <2>3, UsedElsewhere, GoneKept
<1>6. CASE Buries(t, n)
  <2>1. /\ UNCHANGED <<records, assignments>> /\ Bare(n) /\ t.at = "delete"
        /\ \A x \in Ids : IsGone(x)' => IsGone(x) \/ x = t.id
    BY <1>6, HarmlessForms DEF Buries
  <2>2. IsGoing(t.id)
    BY <2>1 DEF Leaving, IsGoing
  <2>3. /\ \A x : IsUsed(x)' => IsUsed(x)
        /\ \A x : IsGoing(x)' => IsGoing(x)
        /\ SomebodyNames' => SomebodyNames
    BY <2>1, UsedElsewhere, BareTask
  <2>4. Doomed' \subseteq Doomed /\ AtRisk' \subseteq AtRisk
    BY <2>1, <2>2, <2>3 DEF Doomed, AtRisk
  <2> QED BY <1>1, <2>3, <2>4
<1>7. CASE Employs(t, n)
  <2>1. \A x : IsGone(x)' <=> IsGone(x)
    BY <1>7, GoneKept DEF Employs
  <2> QED BY <1>2, <1>7, <2>1, UsedEmploys
<1>8. CASE Files(t, n)
  <2>1. \A x : IsGone(x)' <=> IsGone(x)
    BY <1>8, GoneKept DEF Files
  <2> QED BY <1>2, <1>8, <2>1, UsedFiles
<1> QED BY <1>3, <1>4, <1>5, <1>6, <1>7, <1>8

LEMMA UsedPursues ==
    ASSUME IInv, UsedInv, NEW h \in Handlers, Others(h), NEW t, t = task[h], NEW n, n = task'[h],
           overlaps' = overlaps, Pursues(t, n)
    PROVE  UsedInv'
<1>1. UNCHANGED <<records, assignments>> /\ \A x : IsGone(x)' <=> IsGone(x)
  BY GoneKept DEF Pursues, tables
<1>2. \A x : ~Leaving(n, x)
  BY DEF Pursues, Leaving, Recording, SavesRecord, Searches
<1>3. \A x \in Ids : Wanting(n, x) => IsUsed(x) \/ ~IsGone(x)
  BY DEF Pursues, IsUsed
<1>4. AtRisk' \subseteq AtRisk
  BY <1>1, <1>2, <1>3, UsedElsewhere DEF AtRisk
<1>5. SomebodyNames
  BY DEF SomebodyNames, Naming, Pursues
<1>6. overlaps' \in Nat /\ Cardinality(AtRisk) <= overlaps'
  BY <1>5 DEF UsedInv, IInv, TypeInv, CountsTyped
<1> QED BY <1>4, <1>6, UsedNaming

LEMMA UsedArrives ==
    ASSUME IInv, RecordsTold, UsedInv, NEW h \in Handlers, Request(h), Ready(h)
    PROVE  UsedInv'
<1> PICK n : n = task'[h]
  OBVIOUS
<1>1. /\ Others(h) /\ task[h] = Idle
      /\ overlaps' = IF Alone THEN overlaps ELSE overlaps + 1
      /\ Harmless(n) \/ Redecides(n) \/ Counts(n) \/ Enlists(n)
  BY ArriveForRows
<1>2. overlaps \in Nat /\ overlaps' \in Nat /\ overlaps <= overlaps'
  BY <1>1 DEF IInv, TypeInv, CountsTyped
<1>3. CASE Harmless(n) \/ Redecides(n)
  BY <1>1, <1>2, <1>3, UsedOnward
<1>4. CASE Counts(n)
  <2>1. /\ UNCHANGED <<records, assignments>> /\ \A x : IsGone(x)' <=> IsGone(x)
        /\ n.at = "count"
    BY <1>4, GoneKept DEF Counts, tables
  <2>2. ~Naming(n) /\ \A x : ~Wanting(n, x)
    BY <2>1 DEF SavesRecord, Naming, Wanting, Recording, Searches
  <2>3. \A x : Leaving(n, x) => x = n.id /\ x \notin Named
    BY <2>1 DEF Leaving
  <2>4. /\ \A x : IsUsed(x)' => IsUsed(x)
        /\ \A x : IsGoing(x)' => IsGoing(x) \/ Leaving(n, x)
        /\ SomebodyNames' => SomebodyNames
    BY <1>1, <2>1, <2>2, UsedElsewhere
  <2>5. Doomed' \subseteq Doomed \cup {n.id} /\ AtRisk' \subseteq AtRisk \cup {n.id}
    BY <2>1, <2>3, <2>4 DEF Doomed, AtRisk
  <2>6. CASE ~Alone
    BY <1>1, <1>2, <2>4, <2>5, <2>6, UsedOverlaps
  <2>7. CASE Alone
    <3>1. /\ ~SomebodyNames /\ (\A x : ~IsGoing(x)) /\ AtRisk = Doomed
      BY <2>7, AloneRests
    <3>2. \A g \in Handlers : \A x : ~Wanting(task[g], x)
      <4>1. \A g \in Handlers : task[g] = Idle
        BY <2>7, StopOf DEF Alone, At, IInv, TypeInv, TasksTyped
      <4> QED BY <4>1, HarmlessForms, BareTask
    <3>3. Doomed' \subseteq Doomed
      BY <2>1, <2>3, <2>4, <3>1, <3>2 DEF Doomed, IsUsed
    <3> QED BY <1>1, <1>2, <2>4, <2>5, <2>7, <3>1, <3>3, UsedAlone
  <2> QED BY <2>6, <2>7
<1>5. CASE Enlists(n)
  <2>1. /\ UNCHANGED <<records, assignments>> /\ \A x : IsGone(x)' <=> IsGone(x)
    BY <1>5, GoneKept DEF Enlists, tables
  <2>2. \A x : ~Leaving(n, x) /\ (Wanting(n, x) => ~IsGone(x))
    BY <1>5 DEF Enlists, Leaving, Wanting, SavesRecord, Searches
  <2>3. AtRisk' \subseteq AtRisk
    BY <1>1, <2>1, <2>2, UsedElsewhere DEF AtRisk
  <2>4. Cardinality(AtRisk) <= overlaps'
    <3>1. CASE Alone
      BY <1>1, <3>1, AloneRests DEF UsedInv
    <3>2. CASE ~Alone
      BY <1>1, <3>2 DEF UsedInv
    <3> QED BY <3>1, <3>2
  <2> QED BY <1>2, <2>3, <2>4, UsedNaming
<1> QED BY <1>1, <1>3, <1>4, <1>5


LEMMA UsedInit == Init => UsedInv
<1> SUFFICES ASSUME Init PROVE UsedInv
  OBVIOUS
<1>1. PICK db \in Seeds : schedules = db.schedules /\ assignments = db.assignments
  BY DEF Init
<1>2. \A i \in 1..Len(assignments) : LiveIn(schedules, assignments[i].schedule)
                                      /\ assignments[i].schedule \in Schedules
  <2>1. /\ assignments \in Seq(EmployeeWorkSchedule)
        /\ \A i \in 1..Len(assignments) : LiveIn(schedules, assignments[i].schedule)
    BY <1>1, SeedsAssumption DEF LiveIn
  <2>2. \A i \in 1..Len(assignments) : assignments[i] \in EmployeeWorkSchedule
    BY <2>1
  <2> QED BY <2>1, <2>2 DEF EmployeeWorkSchedule
<1>3. \A x : x \in Named => ~IsGone(x)
  BY <1>2, NamedWho, LiveStays DEF Init
<1>4. \A g \in Handlers : task[g] = Idle
  BY DEF Init
<1>5. (\A x : ~IsGoing(x)) /\ (\A g \in Handlers : \A x : ~Wanting(task[g], x))
  BY <1>4, HarmlessForms, BareTask DEF IsGoing
<1>6. AtRisk = {} /\ Doomed = {} /\ overlaps = 0
  BY <1>3, <1>5 DEF Init, AtRisk, Doomed, IsUsed
<1>7. IsFiniteSet({}) /\ Cardinality({}) = 0
  BY FS_EmptySet
<1> QED BY <1>6, <1>7 DEF UsedInv

LEMMA RowsKept ==
    ASSUME IInv, RecordsTold, UsedInv, Next
    PROVE  RecordsTold' /\ UsedInv'
<1> PICK h \in Handlers : (Ready(h) /\ Request(h)) \/ Proceed(h) \/ Fail(h)
  BY DEF Next
<1> PICK t : t = task[h]
  OBVIOUS
<1> PICK n : n = task'[h]
  OBVIOUS
<1>0. overlaps \in Nat
  BY DEF IInv, TypeInv, CountsTyped
<1>1. CASE Ready(h) /\ Request(h)
  BY <1>1, ArriveForRows, RecordsKept, UsedArrives
<1>2. CASE Proceed(h)
  <2>1. /\ Others(h) /\ overlaps' = overlaps
        /\ \/ Harmless(n) \/ Condemns(t, n) \/ Buries(t, n) \/ Pursues(t, n)
           \/ Employs(t, n) \/ Files(t, n)
    BY <1>2, ProceedForRows
  <2>2. RecordsTold'
    BY <2>1, RecordsKept
  <2>3. UsedInv'
    BY <1>0, <2>1, UsedOnward, UsedPursues
  <2> QED BY <2>2, <2>3
<1>3. CASE Fail(h)
  <2>1. Others(h) /\ overlaps' = overlaps /\ Harmless(n)
    BY <1>3, FailForRows
  <2> QED BY <1>0, <2>1, RecordsKept, UsedOnward
<1> QED BY <1>1, <1>2, <1>3

LEMMA UsedAlways == Spec => []UsedInv
<1>1. IInv /\ RecordsTold /\ UsedInv /\ [Next]_vars => RecordsTold' /\ UsedInv'
  <2> SUFFICES ASSUME IInv, RecordsTold, UsedInv, UNCHANGED vars PROVE RecordsTold' /\ UsedInv'
    BY RowsKept
  <2>1. /\ UNCHANGED <<schedules, holidays, offices, records, assignments>>
        /\ task' = task /\ overlaps' = overlaps
    BY DEF vars, tables
  <2>2. RecordsTold'
    BY <2>1 DEF RecordsTold
  <2>3. Named' = Named
    BY <2>1 DEF Named
  <2>4. AtRisk' = AtRisk /\ Doomed' = Doomed
    BY <2>1, <2>3 DEF AtRisk, Doomed, IsGone, IsUsed, IsGoing, Wanting, Leaving
  <2>5. SomebodyNames' <=> SomebodyNames
    BY <2>1 DEF SomebodyNames, Naming
  <2> QED BY <2>1, <2>2, <2>4, <2>5 DEF UsedInv
<1> QED BY <1>1, RecordsInit, UsedInit, InvAlways, PTL DEF Spec

\* Schedules, holidays and offices that are referred to are not removed, except one for each
\* request that overlapped another: the uses are counted and the row is removed by calls of
\* their own, and what refers to it is found and saved by others
\* (assertWorkScheduleCanBeDeleted and its like).
THEOREM UsedRowsKept == Spec => []UsedRowsStay
<1>1. IInv /\ UsedInv => UsedRowsStay
  <2> SUFFICES ASSUME IInv, UsedInv PROVE UsedRowsStay
    OBVIOUS
  <2> PICK S : S = Named \cap (Gone(schedules) \cup Gone(holidays) \cup Gone(offices))
    OBVIOUS
  <2>1. /\ DOMAIN schedules = Schedules /\ DOMAIN holidays = HolidayIds
        /\ DOMAIN offices = Offices
    BY DEF IInv, TypeInv, TablesTyped
  <2>2. S \subseteq Doomed
    BY <2>1 DEF Gone, Doomed, IsGone, IsUsed, Ids
  <2>3. IsFiniteSet(Doomed) /\ Cardinality(Doomed) <= overlaps /\ overlaps \in Nat
    BY DoomedFinite DEF UsedInv, IInv, TypeInv, CountsTyped
  <2>4. Cardinality(S) <= overlaps
    BY <2>2, <2>3, Shrinks
  <2> QED BY <2>4 DEF UsedRowsStay
<1> QED BY <1>1, InvAlways, UsedAlways, PTL


=============================================================================

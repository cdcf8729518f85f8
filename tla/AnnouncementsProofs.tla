------------------------ MODULE AnnouncementsProofs ------------------------
(***************************************************************************)
(* What reports and announcements tell, for any number of users,           *)
(* employees, rows, notices, notifications and handlers.                   *)
(*                                                                         *)
(* Every answer is put together over several queries.  What a handler      *)
(* knows is of two kinds: what stays true whatever is saved meanwhile, and *)
(* what is true as long as nothing is.                                     *)
(***************************************************************************)
EXTENDS Announcements, FiniteSums, SequenceTheorems

LEMMA MinIs ==
    ASSUME NEW S, S \subseteq Nat, S # {}
    PROVE  Min(S) \in S /\ \A y \in S : Min(S) <= y
BY LeastOfNaturals DEF Min

LEMMA MaxIs ==
    ASSUME NEW S, S \subseteq Nat, S # {}, IsFiniteSet(S)
    PROVE  Max(S) \in S /\ \A y \in S : Max(S) >= y
<1>1. S \subseteq Int
  OBVIOUS
<1> QED BY <1>1, GreatestOfFinite DEF Max

-----------------------------------------------------------------------------
(***************************************************************************)
(* The inductive invariant: what each handler knows, whatever is saved     *)
(* meanwhile (it Lasts), and while nothing is (it is Fresh)                *)
(***************************************************************************)
Known(t) ==
    /\ {"at", "viewer", "grants", "calm"} \subseteq DOMAIN t
    /\ t.viewer \in Users /\ t.grants \in Grants /\ t.calm \in BOOLEAN
    /\ t.at # "idle"

KnownNow(t) == users[t.viewer].isActive /\ t.grants = users[t.viewer].permissions

OnRecord(p) ==
    \E a \in RecordIds : records[a] # None /\ p = <<records[a].employee, records[a].date>>

\* The overview.  A request counted as decided stays decided.
OverviewLasts(t) ==
    t.at = "overview" =>
        /\ {"filter", "got", "pages", "left", "asked"} \subseteq DOMAIN t
        /\ t.left \subseteq Queries /\ DOMAIN t.got = Queries \ t.left
        /\ DOMAIN t.pages \subseteq {"attendance", "leave"}
        /\ DOMAIN t.pages # {} => t.left = {}
        /\ "leave" \in DOMAIN t.got =>
               \A q \in DOMAIN t.got["leave"] :
                   /\ q \in LeaveIds /\ leaves[q] # None
                   /\ t.got["leave"][q] # "pending" => leaves[q].status # "pending"
        /\ "leave" \in DOMAIN t.pages =>
               \A q \in t.pages["leave"] :
                   q \in DOMAIN t.got["leave"] => t.got["leave"][q] = "pending"

OverviewFresh(t) ==
    t.at = "overview" =>
        /\ \A q \in DOMAIN t.got : t.got[q] = Answer(q, t.filter)
        /\ \A p \in DOMAIN t.pages : t.pages[p] = PendingPage(p, t.filter)

\* The report of missing attendance.
MissingLasts(t) ==
    /\ t.at \in {"missing_staff", "missing_records", "missing_leaves", "missing_days"} =>
           /\ {"filter", "recorded"} \subseteq DOMAIN t
           /\ t.filter.start \in Dates /\ t.filter.end \in Dates
           /\ \A p \in t.recorded : OnRecord(p)
    /\ t.at \in {"missing_records", "missing_leaves", "missing_days"} =>
           "staff" \in DOMAIN t /\ t.staff \subseteq Employees
    /\ t.at = "missing_leaves" =>
           "had" \in DOMAIN t /\ t.recorded \cap (t.staff \X Window(t.filter)) \subseteq t.had
    /\ t.at = "missing_days" =>
           /\ {"todo", "missing"} \subseteq DOMAIN t
           /\ t.todo \subseteq t.staff \X Window(t.filter) /\ t.todo \cap t.recorded = {}
           /\ t.missing \subseteq t.staff \X Window(t.filter) /\ t.missing \cap t.recorded = {}

AtWork(f) == Staff(f, {"active", "probation"})
RecordedFor(staff, f) ==
    {<<records[a].employee, records[a].date>> :
        a \in {b \in RecordIds : /\ records[b] # None /\ records[b].employee \in staff
                                 /\ records[b].date \in Window(f)}}
OnLeave(e, d) ==
    \E q \in LeaveIds : /\ leaves[q] # None /\ leaves[q].employee = e
                        /\ leaves[q].status = "approved"
                        /\ leaves[q].from <= d /\ d <= leaves[q].to
Due(f, p) ==
    /\ p \in AtWork(f) \X Window(f)
    /\ ~ OnRecord(p) /\ ~ OnLeave(p[1], p[2])

MissingFresh(t) ==
    /\ t.at \in {"missing_records", "missing_leaves", "missing_days"} =>
           t.staff = AtWork(t.filter)
    /\ t.at = "missing_leaves" => t.had = RecordedFor(t.staff, t.filter)
    /\ t.at = "missing_days" =>
           /\ \A p \in t.todo : Due(t.filter, p)
           /\ \A p \in t.staff \X Window(t.filter) :
                  p \in t.missing <=> /\ Due(t.filter, p) /\ p \notin t.todo
                                      /\ days[p[1]][p[2]] = "working"

\* Lists.
ListLasts(t) ==
    t.at \in {"list", "listed"} =>
        /\ {"filter", "kind", "statuses"} \subseteq DOMAIN t
        /\ t.kind = "leave" => t.filter.employee = None
        /\ t.at = "listed" => "rows" \in DOMAIN t

ListFresh(t) ==
    t.at = "listed" /\ t.kind = "leave" => t.rows = LeaveRequestQuery(t.filter, t.statuses)

\* One's own.
MineLasts(t) ==
    /\ t.at \in {"my_profile", "my_records", "my_leave"} =>
           "filter" \in DOMAIN t /\ "employee" \in DOMAIN t.filter
    /\ t.at = "my_profile" => "want" \in DOMAIN t /\ t.want \in {"my_records", "my_leave"}
    /\ t.at \in {"my_records", "my_leave"} => t.filter.employee \in Employees
    /\ t.at = "my_shown" =>
           "shown" \in DOMAIN t /\ \E e \in Employees : t.shown \subseteq {e}

MineFresh(t) ==
    /\ t.at \in {"my_records", "my_leave"} =>
           employees[t.filter.employee].email = EmailOf[t.viewer]
    /\ t.at = "my_shown" => \A e \in t.shown : employees[e].email = EmailOf[t.viewer]

\* Notices.
NoticeLasts(t) ==
    /\ t.at = "notice_save" =>
           {"id", "row"} \subseteq DOMAIN t /\ t.id \in NoticeIds /\ t.row \in Notice
    /\ t.at = "notice_list" => {"reader", "shown"} \subseteq DOMAIN t

NoticeFresh(t) ==
    t.at = "notice_list" =>
        Profiles(t.viewer) # {} /\ t.reader = employees[Max(Profiles(t.viewer))]

\* Notifications.
NotificationLasts(t) ==
    /\ t.at \in {"named", "holders", "notify"} =>
           /\ {"dto", "recipients", "batch"} \subseteq DOMAIN t
           /\ t.dto \in CreateNotificationDto
           /\ t.recipients \in Seq(Users) /\ IsInjective(t.recipients)
           /\ t.batch \in 0 .. MaxLoad
    /\ t.at = "mark_save" =>
           {"id", "row"} \subseteq DOMAIN t /\ t.id \in NotificationIds /\ t.row \in Notification

Lasts(t) ==
    \/ t = Idle
    \/ /\ Known(t) /\ OverviewLasts(t) /\ MissingLasts(t) /\ ListLasts(t) /\ MineLasts(t)
       /\ NoticeLasts(t) /\ NotificationLasts(t)

Fresh(t) ==
    t.at # "idle" /\ t.calm =>
        /\ KnownNow(t) /\ OverviewFresh(t) /\ MissingFresh(t) /\ ListFresh(t) /\ MineFresh(t)
        /\ NoticeFresh(t)

Granted == \A u \in Users : users[u].permissions \in Grants

Framed ==
    /\ task = [h \in Handlers |-> task[h]]
    /\ notifications = [n \in NotificationIds |-> notifications[n]]

IInv ==
    /\ TypeOK /\ Granted /\ Framed
    /\ \A h \in Handlers : Lasts(task[h]) /\ Fresh(task[h])

-----------------------------------------------------------------------------
(***************************************************************************)
(* What every step leaves as it was                                        *)
(***************************************************************************)
\* Records stay, and say of the same employee and day; what is decided stays decided.
Onward ==
    /\ \A a \in RecordIds : records[a] # None =>
           /\ records'[a] # None /\ records'[a].employee = records[a].employee
           /\ records'[a].date = records[a].date
    /\ \A q \in LeaveIds : leaves[q] # None =>
           leaves'[q] # None /\ (leaves[q].status # "pending" => leaves'[q].status # "pending")

LEMMA StillOnward == UNCHANGED sources => Onward
BY DEF Onward, sources

LEMMA OnRecordStays == Onward => \A p : OnRecord(p) => OnRecord(p)'
BY DEF Onward, OnRecord

LEMMA LastsStays ==
    ASSUME NEW t, Onward, Lasts(t)
    PROVE  Lasts(t)'
<1>1. CASE t = Idle
  BY <1>1 DEF Lasts
<1>2. CASE t # Idle
  <2>1. OverviewLasts(t)'
    BY <1>2 DEF Lasts, OverviewLasts, Onward
  <2>2. MissingLasts(t)'
    BY <1>2, OnRecordStays DEF Lasts, MissingLasts, Window
  <2> QED BY <1>2, <2>1, <2>2 DEF Lasts, Known, ListLasts, MineLasts, NoticeLasts, NotificationLasts
<1> QED BY <1>1, <1>2

LEMMA AnswerStays == UNCHANGED sources => \A q, f : Answer(q, f)' = Answer(q, f)
BY DEF sources, Answer, Staff, InScope, AttendanceQuery, LeaveRequestQuery, LeaveInWindow,
       BreakdownByBranch, BreakdownByDepartment, BranchOf, DepartmentOf, Breakdown, Tally

LEMMA PageStays == UNCHANGED sources => \A p, f : PendingPage(p, f)' = PendingPage(p, f)
BY DEF sources, PendingPage, AttendanceQuery, LeaveRequestQuery, LeaveInWindow, InScope, Newest,
       LaterRecords, LaterLeaves

LEMMA DueStays ==
    UNCHANGED sources =>
        /\ \A f : AtWork(f)' = AtWork(f)
        /\ \A s, f : RecordedFor(s, f)' = RecordedFor(s, f)
        /\ \A f, p : Due(f, p)' = Due(f, p)
BY DEF sources, AtWork, Staff, InScope, RecordedFor, Due, OnRecord, OnLeave, Window

LEMMA FreshStays ==
    ASSUME NEW t, UNCHANGED sources, Fresh(t)
    PROVE  Fresh(t)'
<1>1. KnownNow(t)' = KnownNow(t) /\ NoticeFresh(t)' = NoticeFresh(t) /\ MineFresh(t)' = MineFresh(t)
  BY DEF sources, KnownNow, NoticeFresh, Profiles, MineFresh
<1>2. OverviewFresh(t)' = OverviewFresh(t)
  BY AnswerStays, PageStays DEF OverviewFresh
<1>3. MissingFresh(t)' = MissingFresh(t)
  BY DueStays DEF MissingFresh, Window, sources
<1>4. ListFresh(t)' = ListFresh(t)
  BY DEF ListFresh, sources, LeaveRequestQuery, InScope, LeaveInWindow
<1> QED BY <1>1, <1>2, <1>3, <1>4 DEF Fresh

-----------------------------------------------------------------------------
(***************************************************************************)
(* One handler's step keeps the invariant, if what the handler knows then  *)
(* lasts and is fresh                                                      *)
(***************************************************************************)
Moves(h, n) == task' = [task EXCEPT ![h] = n]
Sound(n) == Lasts(n) /\ Fresh(n)

\* The handler is then not about to save a notification.
Quiet(n) == n.at \notin {"named", "holders", "notify", "mark_save"}
Turns(h) == \E n : Moves(h, n) /\ Sound(n) /\ Quiet(n)

LEMMA Stepping ==
    ASSUME IInv, NEW h \in Handlers, NEW n, Moves(h, n), Sound(n), UNCHANGED sources,
           load' \in 0 .. MaxLoad,
           notices' \in [NoticeIds -> Opt(Notice)],
           notifications' = [m \in NotificationIds |-> notifications'[m]],
           \A m \in NotificationIds : notifications'[m] \in Opt(Notification)
    PROVE  IInv'
<1>1. /\ task' = [g \in Handlers |-> task'[g]]
      /\ \A g \in Handlers : task'[g] = IF g = h THEN n ELSE task[g]
  BY DEF IInv, Framed, Moves
<1>2. ASSUME NEW g \in Handlers
      PROVE  Lasts(task[g])' /\ Fresh(task[g])'
  <2>1. PICK t : t = task'[g]
    OBVIOUS
  <2>2. Lasts(t) /\ Fresh(t)
    BY <1>1, <2>1 DEF IInv, Sound
  <2>3. Lasts(t)' /\ Fresh(t)'
    BY <2>2, StillOnward, LastsStays, FreshStays
  <2> QED BY <2>1, <2>3
<1>3. Framed'
  BY <1>1 DEF Framed
<1>4. \A g \in Handlers : ~ At(g, "idle")' => task'[g].viewer \in Users /\ task'[g].grants \in Grants
  BY <1>2 DEF At, Lasts, Known, Idle
<1>5. TypeOK' /\ Granted'
  BY <1>4 DEF IInv, TypeOK, Granted, sources
<1> QED BY <1>2, <1>3, <1>5 DEF IInv

\* A request answered.
LEMMA IdleSound == Sound(Idle) /\ Quiet(Idle)
BY DEF Sound, Lasts, Fresh, Idle, Quiet

\* What a handler that is not idle knows.
LEMMA Doing ==
    ASSUME IInv, NEW h \in Handlers, NEW t, t = task[h], t.at # "idle"
    PROVE  /\ Known(t) /\ OverviewLasts(t) /\ MissingLasts(t) /\ ListLasts(t) /\ MineLasts(t)
           /\ NoticeLasts(t) /\ NotificationLasts(t)
           /\ Fresh(t)
BY DEF IInv, Lasts, Idle

\* What does not concern a task that is elsewhere.
Elsewhere(t) ==
    /\ t.at # "overview" => OverviewLasts(t) /\ OverviewFresh(t)
    /\ t.at \notin {"missing_staff", "missing_records", "missing_leaves", "missing_days"} =>
           MissingLasts(t) /\ MissingFresh(t)
    /\ t.at \notin {"list", "listed"} => ListLasts(t) /\ ListFresh(t)
    /\ t.at \notin {"my_profile", "my_records", "my_leave", "my_shown"} =>
           MineLasts(t) /\ MineFresh(t)
    /\ t.at \notin {"notice_save", "notice_list"} => NoticeLasts(t) /\ NoticeFresh(t)
    /\ t.at \notin {"named", "holders", "notify", "mark_save"} => NotificationLasts(t)

LEMMA NotConcerned == \A t : Elsewhere(t)
BY DEF Elsewhere, OverviewLasts, OverviewFresh, MissingLasts, MissingFresh, ListLasts, ListFresh,
       MineLasts, MineFresh, NoticeLasts, NoticeFresh, NotificationLasts

-----------------------------------------------------------------------------
(***************************************************************************)
(* The overview                                                            *)
(***************************************************************************)
LEMMA PendingLeave ==
    \A f : \A q \in PendingPage("leave", f) : q \in LeaveIds /\ leaves[q].status = "pending"
BY DEF PendingPage, Newest, LaterLeaves, LeaveRequestQuery

LEMMA OverviewQuerySound ==
    ASSUME IInv, NEW h \in Handlers, NEW q \in Queries, OverviewQuery(h, q)
    PROVE  Turns(h)
<1>1. PICK t : t = task[h]
  OBVIOUS
<1>2. t.at = "overview" /\ q \in t.left
  BY <1>1 DEF OverviewQuery, At
<1>3. Known(t) /\ OverviewLasts(t) /\ Fresh(t)
  BY <1>1, <1>2, Doing
<1>4. PICK a : a = Answer(q, t.filter)
  OBVIOUS
<1>5. PICK more : more = [x \in {q} |-> a]
  OBVIOUS
<1>6. PICK got : got = With(t.got, more)
  OBVIOUS
<1>7. PICK n : n = [t EXCEPT !.left = @ \ {q}, !.got = got]
  OBVIOUS
<1>8. Moves(h, n)
  BY <1>1, <1>4, <1>5, <1>6, <1>7 DEF OverviewQuery, Goto, Moves
<1>9. /\ DOMAIN got = DOMAIN t.got \cup {q} /\ got[q] = a
      /\ \A x \in DOMAIN t.got : x # q => got[x] = t.got[x]
  <2>1. DOMAIN more = {q} /\ more[q] = a
    BY <1>5
  <2>2. /\ DOMAIN got = DOMAIN t.got \cup DOMAIN more
        /\ \A x \in DOMAIN more : got[x] = more[x]
        /\ \A x \in DOMAIN t.got : x \notin DOMAIN more => got[x] = t.got[x]
    BY <1>6 DEF With
  <2> QED BY <2>1, <2>2
<1>10. /\ DOMAIN n = DOMAIN t /\ n.at = "overview" /\ n.left = t.left \ {q} /\ n.got = got
       /\ n.viewer = t.viewer /\ n.grants = t.grants /\ n.calm = t.calm /\ n.filter = t.filter
       /\ n.pages = t.pages
  BY <1>2, <1>3, <1>7 DEF Known, OverviewLasts
<1>11. DOMAIN t.pages = {} /\ q \notin DOMAIN t.got
  BY <1>2, <1>3 DEF OverviewLasts
<1>12. q = "leave" =>
          /\ DOMAIN a \subseteq LeaveIds
          /\ \A r \in DOMAIN a : leaves[r] # None /\ a[r] = leaves[r].status
  BY <1>4 DEF Answer, LeaveRequestQuery
<1>13. "leave" \in DOMAIN got =>
           \A r \in DOMAIN got["leave"] :
               /\ r \in LeaveIds /\ leaves[r] # None
               /\ got["leave"][r] # "pending" => leaves[r].status # "pending"
  <2>1. CASE q = "leave"
    BY <1>9, <1>12, <2>1
  <2>2. CASE q # "leave"
    BY <1>2, <1>3, <1>9, <2>2 DEF OverviewLasts
  <2> QED BY <2>1, <2>2
<1>14. OverviewLasts(n)
  BY <1>2, <1>3, <1>9, <1>10, <1>11, <1>13 DEF OverviewLasts
<1>15. n.calm => OverviewFresh(n) /\ KnownNow(n)
  BY <1>2, <1>3, <1>4, <1>9, <1>10, <1>11 DEF OverviewFresh, Fresh, KnownNow
<1>16. Known(n)
  BY <1>3, <1>10 DEF Known
<1> QED BY <1>8, <1>10, <1>14, <1>15, <1>16, NotConcerned DEF Elsewhere, Sound, Lasts, Fresh, Quiet, Turns

LEMMA PendingApprovalsSound ==
    ASSUME IInv, NEW h \in Handlers, NEW p \in {"attendance", "leave"}, PendingApprovals(h, p)
    PROVE  Turns(h)
<1>1. PICK t : t = task[h]
  OBVIOUS
<1>2. t.at = "overview" /\ t.left = {}
  BY <1>1 DEF PendingApprovals, At
<1>3. Known(t) /\ OverviewLasts(t) /\ Fresh(t)
  BY <1>1, <1>2, Doing
<1>4. PICK a : a = PendingPage(p, t.filter)
  OBVIOUS
<1>5. PICK more : more = [x \in {p} |-> a]
  OBVIOUS
<1>6. PICK pages : pages = With(t.pages, more)
  OBVIOUS
<1>7. PICK n : n = [t EXCEPT !.asked = @ \ {p}, !.pages = pages]
  OBVIOUS
<1>8. Moves(h, n)
  BY <1>1, <1>4, <1>5, <1>6, <1>7 DEF PendingApprovals, Goto, Moves
<1>9. /\ DOMAIN pages = DOMAIN t.pages \cup {p} /\ pages[p] = a
      /\ \A x \in DOMAIN t.pages : x # p => pages[x] = t.pages[x]
  <2>1. DOMAIN more = {p} /\ more[p] = a
    BY <1>5
  <2>2. /\ DOMAIN pages = DOMAIN t.pages \cup DOMAIN more
        /\ \A x \in DOMAIN more : pages[x] = more[x]
        /\ \A x \in DOMAIN t.pages : x \notin DOMAIN more => pages[x] = t.pages[x]
    BY <1>6 DEF With
  <2> QED BY <2>1, <2>2
<1>10. /\ DOMAIN n = DOMAIN t /\ n.at = "overview" /\ n.left = {} /\ n.got = t.got
       /\ n.viewer = t.viewer /\ n.grants = t.grants /\ n.calm = t.calm /\ n.filter = t.filter
       /\ n.pages = pages
  BY <1>2, <1>3, <1>7 DEF Known, OverviewLasts
<1>11. "leave" \in DOMAIN t.got
  BY <1>2, <1>3 DEF OverviewLasts, Queries
<1>12. "leave" \in DOMAIN pages =>
           \A q \in pages["leave"] : q \in DOMAIN t.got["leave"] => t.got["leave"][q] = "pending"
  <2>1. CASE p = "leave"
    <3>1. \A q \in a : leaves[q].status = "pending"
      BY <1>4, <2>1, PendingLeave
    <3>2. \A q \in DOMAIN t.got["leave"] :
              t.got["leave"][q] # "pending" => leaves[q].status # "pending"
      BY <1>2, <1>3, <1>11 DEF OverviewLasts
    <3> QED BY <1>9, <2>1, <3>1, <3>2
  <2>2. CASE p # "leave"
    BY <1>2, <1>3, <1>9, <2>2 DEF OverviewLasts
  <2> QED BY <2>1, <2>2
<1>13. OverviewLasts(n)
  BY <1>2, <1>3, <1>9, <1>10, <1>12 DEF OverviewLasts
<1>14. n.calm => OverviewFresh(n) /\ KnownNow(n)
  BY <1>2, <1>3, <1>4, <1>9, <1>10 DEF OverviewFresh, Fresh, KnownNow
<1>15. Known(n)
  BY <1>3, <1>10 DEF Known
<1> QED BY <1>8, <1>10, <1>13, <1>14, <1>15, NotConcerned DEF Elsewhere, Sound, Lasts, Fresh, Quiet, Turns

-----------------------------------------------------------------------------
(***************************************************************************)
(* Missing attendance                                                      *)
(***************************************************************************)
LEMMA FindStaffSound ==
    ASSUME IInv, NEW h \in Handlers, FindStaff(h)
    PROVE  Turns(h)
<1>1. PICK t : t = task[h]
  OBVIOUS
<1>2. t.at = "missing_staff"
  BY <1>1 DEF FindStaff, At
<1>3. Known(t) /\ MissingLasts(t) /\ Fresh(t)
  BY <1>1, <1>2, Doing
<1>4. PICK staff : staff = AtWork(t.filter)
  OBVIOUS
<1>5. PICK n : n = With([t EXCEPT !.at = "missing_records"], [staff |-> staff])
  OBVIOUS
<1>6. Moves(h, Idle) \/ Moves(h, n)
  BY <1>1, <1>4, <1>5 DEF FindStaff, Goto, Moves, AtWork
<1>7. /\ DOMAIN n = DOMAIN t \cup {"staff"} /\ n.at = "missing_records" /\ n.staff = staff
      /\ n.viewer = t.viewer /\ n.grants = t.grants /\ n.calm = t.calm /\ n.filter = t.filter
      /\ n.recorded = t.recorded
  BY <1>2, <1>3, <1>5 DEF Known, MissingLasts, With
<1>8. MissingLasts(n)
  BY <1>2, <1>3, <1>4, <1>7 DEF MissingLasts, AtWork, Staff
<1>9. n.calm => MissingFresh(n) /\ KnownNow(n)
  BY <1>2, <1>3, <1>4, <1>7 DEF MissingFresh, Fresh, KnownNow
<1>10. Known(n)
  BY <1>3, <1>7 DEF Known
<1>11. Sound(n) /\ Quiet(n)
  BY <1>7, <1>8, <1>9, <1>10, NotConcerned DEF Elsewhere, Sound, Lasts, Fresh, Quiet
<1> QED BY <1>6, <1>11, IdleSound DEF Turns

LEMMA FindRecordsSound ==
    ASSUME IInv, NEW h \in Handlers, FindRecords(h)
    PROVE  Turns(h)
<1>1. PICK t : t = task[h]
  OBVIOUS
<1>2. t.at = "missing_records"
  BY <1>1 DEF FindRecords, At
<1>3. Known(t) /\ MissingLasts(t) /\ Fresh(t)
  BY <1>1, <1>2, Doing
<1>4. PICK had : had = RecordedFor(t.staff, t.filter)
  OBVIOUS
<1>5. PICK n : n = With([t EXCEPT !.at = "missing_leaves"], [had |-> had])
  OBVIOUS
<1>6. Moves(h, n)
  BY <1>1, <1>4, <1>5 DEF FindRecords, Goto, Moves, RecordedFor
<1>7. /\ DOMAIN n = DOMAIN t \cup {"had"} /\ n.at = "missing_leaves" /\ n.had = had
      /\ n.viewer = t.viewer /\ n.grants = t.grants /\ n.calm = t.calm /\ n.filter = t.filter
      /\ n.recorded = t.recorded /\ n.staff = t.staff
  BY <1>2, <1>3, <1>5 DEF Known, MissingLasts, With
<1>8. t.recorded \cap (t.staff \X Window(t.filter)) \subseteq had
  <2>1. ASSUME NEW p \in t.recorded, p \in t.staff \X Window(t.filter) PROVE p \in had
    <3>1. PICK a \in RecordIds :
              records[a] # None /\ p = <<records[a].employee, records[a].date>>
      BY <1>2, <1>3 DEF MissingLasts, OnRecord
    <3>2. records[a].employee \in t.staff /\ records[a].date \in Window(t.filter)
      BY <2>1, <3>1
    <3> QED BY <1>4, <3>1, <3>2 DEF RecordedFor
  <2> QED BY <2>1
<1>9. MissingLasts(n)
  BY <1>2, <1>3, <1>7, <1>8 DEF MissingLasts
<1>10. n.calm => MissingFresh(n) /\ KnownNow(n)
  BY <1>2, <1>3, <1>4, <1>7 DEF MissingFresh, Fresh, KnownNow
<1>11. Known(n)
  BY <1>3, <1>7 DEF Known
<1>12. Sound(n) /\ Quiet(n)
  BY <1>7, <1>9, <1>10, <1>11, NotConcerned DEF Elsewhere, Sound, Lasts, Fresh, Quiet
<1> QED BY <1>6, <1>12 DEF Turns

\* Who is on leave on a day of the window has leave in the window.
LEMMA LeaveSeen ==
    ASSUME IInv, NEW f, f.start \in Dates, f.end \in Dates, NEW staff, NEW found,
           found = {q \in LeaveIds : /\ leaves[q] # None /\ leaves[q].employee \in staff
                                     /\ leaves[q].status = "approved" /\ LeaveInWindow(f, q)},
           NEW e \in staff, NEW d \in Window(f)
    PROVE  OnLeave(e, d) <=> <<e, d>> \in UNION {LeaveDays(q) : q \in found}
<1>0. /\ Dates \subseteq Nat /\ d \in Nat /\ f.start <= d /\ d <= f.end
      /\ f.start # None /\ f.end # None /\ f.start \in Nat /\ f.end \in Nat
  BY ReportsAssumption DEF Window
<1>1. ASSUME NEW q \in LeaveIds, leaves[q] # None
      PROVE  leaves[q].from \in Nat /\ leaves[q].to \in Nat
  BY <1>0, <1>1 DEF IInv, TypeOK, Opt, LeaveRequest
<1>2. ASSUME NEW q \in LeaveIds, leaves[q] # None, leaves[q].employee = e,
             leaves[q].status = "approved", leaves[q].from <= d, d <= leaves[q].to
      PROVE  <<e, d>> \in UNION {LeaveDays(r) : r \in found}
  <2>1. LeaveInWindow(f, q)
    BY <1>0, <1>1, <1>2 DEF LeaveInWindow, InWindow
  <2>2. q \in found
    BY <1>2, <2>1
  <2>3. <<e, d>> \in LeaveDays(q)
    BY <1>0, <1>1, <1>2 DEF LeaveDays
  <2> QED BY <2>2, <2>3
<1>3. ASSUME NEW q \in found, <<e, d>> \in LeaveDays(q)
      PROVE  OnLeave(e, d)
  <2>1. q \in LeaveIds /\ leaves[q] # None /\ leaves[q].status = "approved"
    OBVIOUS
  <2>2. PICK c \in leaves[q].from .. leaves[q].to : <<e, d>> = <<leaves[q].employee, c>>
    BY <1>3 DEF LeaveDays
  <2>3. leaves[q].employee = e /\ leaves[q].from <= d /\ d <= leaves[q].to
    BY <2>2, <2>1, <1>1
  <2> QED BY <2>1, <2>3 DEF OnLeave
<1> QED BY <1>2, <1>3 DEF OnLeave

LEMMA FindLeavesSound ==
    ASSUME IInv, NEW h \in Handlers, FindLeaves(h)
    PROVE  Turns(h)
<1>1. PICK t : t = task[h]
  OBVIOUS
<1>2. t.at = "missing_leaves"
  BY <1>1 DEF FindLeaves, At
<1>3. Known(t) /\ MissingLasts(t) /\ Fresh(t)
  BY <1>1, <1>2, Doing
<1>4. PICK found :
          found = {q \in LeaveIds : /\ leaves[q] # None /\ leaves[q].employee \in t.staff
                                    /\ leaves[q].status = "approved"
                                    /\ LeaveInWindow(t.filter, q)}
  OBVIOUS
<1>5. PICK todo : todo = (t.staff \X Window(t.filter)) \
                             (t.had \cup UNION {LeaveDays(q) : q \in found})
  OBVIOUS
<1>6. PICK n : n = With([t EXCEPT !.at = "missing_days"], [todo |-> todo, missing |-> {}])
  OBVIOUS
<1>7. Moves(h, n)
  BY <1>1, <1>4, <1>5, <1>6 DEF FindLeaves, Goto, Moves
<1>8. /\ DOMAIN n = DOMAIN t \cup {"todo", "missing"} /\ n.at = "missing_days"
      /\ n.todo = todo /\ n.missing = {}
      /\ n.viewer = t.viewer /\ n.grants = t.grants /\ n.calm = t.calm /\ n.filter = t.filter
      /\ n.recorded = t.recorded /\ n.staff = t.staff
  BY <1>2, <1>3, <1>6 DEF Known, MissingLasts, With
<1>9. MissingLasts(n)
  BY <1>2, <1>3, <1>5, <1>8 DEF MissingLasts
<1>10. ASSUME t.calm, NEW p \in t.staff \X Window(t.filter)
       PROVE  p \in todo <=> Due(t.filter, p)
  <2>1. PICK e \in t.staff, d \in Window(t.filter) : p = <<e, d>>
    OBVIOUS
  <2>2. OnLeave(e, d) <=> p \in UNION {LeaveDays(q) : q \in found}
    BY <1>2, <1>3, <1>4, <2>1, LeaveSeen DEF MissingLasts
  <2>3. t.staff = AtWork(t.filter) /\ t.had = RecordedFor(t.staff, t.filter)
    BY <1>2, <1>3, <1>10 DEF Fresh, MissingFresh
  <2>4. p \in t.had <=> OnRecord(p)
    BY <2>1, <2>3 DEF RecordedFor, OnRecord
  <2>5. p[1] = e /\ p[2] = d
    BY <2>1
  <2> QED BY <1>5, <2>2, <2>3, <2>4, <2>5 DEF Due
<1>11. todo \subseteq t.staff \X Window(t.filter)
  BY <1>5
<1>12. n.calm => MissingFresh(n)
  <2>1. n.calm => t.staff = AtWork(t.filter)
    BY <1>2, <1>3, <1>8 DEF Fresh, MissingFresh
  <2> QED BY <1>8, <1>10, <1>11, <2>1 DEF MissingFresh
<1>13. n.calm => KnownNow(n)
  BY <1>2, <1>3, <1>8 DEF Fresh, KnownNow
<1>14. Known(n)
  BY <1>3, <1>8 DEF Known
<1>15. Sound(n) /\ Quiet(n)
  BY <1>8, <1>9, <1>12, <1>13, <1>14, NotConcerned DEF Elsewhere, Sound, Lasts, Fresh, Quiet
<1> QED BY <1>7, <1>15 DEF Turns

LEMMA EarliestExists ==
    ASSUME NEW S, S # {}, S \subseteq Nat \X Nat
    PROVE  \E p \in S : \A q \in S : Earlier(p, q)
<1> DEFINE E == {p[1] : p \in S}
<1>1. E \subseteq Nat /\ E # {}
  OBVIOUS
<1>2. PICK e \in E : \A x \in E : e <= x
  <2> HIDE DEF E
  <2> QED BY <1>1, LeastOfNaturals
<1> DEFINE D == {p[2] : p \in {q \in S : q[1] = e}}
<1>3. D \subseteq Nat /\ D # {}
  OBVIOUS
<1>4. PICK d \in D : \A x \in D : d <= x
  <2> HIDE DEF D
  <2> QED BY <1>3, LeastOfNaturals
<1>5. PICK p \in S : p[1] = e /\ p[2] = d
  BY <1>4
<1>6. ASSUME NEW q \in S PROVE Earlier(p, q)
  <2>1. q[1] \in E /\ e <= q[1] /\ q[1] \in Nat /\ e \in Nat /\ q[2] \in Nat
    BY <1>1, <1>2
  <2>2. q[1] = e => q[2] \in D /\ d <= q[2]
    BY <1>4
  <2> QED BY <1>5, <2>1, <2>2 DEF Earlier
<1> QED BY <1>6

LEMMA ResolveDaySound ==
    ASSUME IInv, NEW h \in Handlers, ResolveDay(h)
    PROVE  Turns(h)
<1>1. PICK t : t = task[h]
  OBVIOUS
<1>2. t.at = "missing_days" /\ t.todo # {}
  BY <1>1 DEF ResolveDay, At
<1>3. Known(t) /\ MissingLasts(t) /\ Fresh(t)
  BY <1>1, <1>2, Doing
<1>4. PICK next : next = CHOOSE p \in t.todo : \A q \in t.todo : Earlier(p, q)
  OBVIOUS
<1>5. next \in t.todo
  <2>1. t.todo \subseteq Nat \X Nat
    BY <1>2, <1>3, ReportsAssumption DEF MissingLasts, Window
  <2>2. \E p \in t.todo : \A q \in t.todo : Earlier(p, q)
    BY <1>2, <2>1, EarliestExists
  <2> QED BY <1>4, <2>2
<1>6. PICK day : day = days[next[1]][next[2]]
  OBVIOUS
<1>7. PICK missing : missing = IF day = "working" THEN t.missing \cup {next} ELSE t.missing
  OBVIOUS
<1>8. PICK n : n = [t EXCEPT !.todo = @ \ {next}, !.missing = missing]
  OBVIOUS
<1>9. Moves(h, Idle) \/ Moves(h, n)
  <2>1. n = [t EXCEPT !.todo = @ \ {next},
                      !.missing = IF day = "working" THEN @ \cup {next} ELSE @]
    BY <1>7, <1>8
  <2>2. Goto(h, IF day = "throws" THEN Idle
                ELSE [t EXCEPT !.todo = @ \ {next},
                               !.missing = IF day = "working" THEN @ \cup {next} ELSE @])
    BY <1>1, <1>4, <1>6, Zenon DEF ResolveDay
  <2>3. Goto(h, IF day = "throws" THEN Idle ELSE n)
    BY <2>1, <2>2, Zenon
  <2> QED BY <2>3 DEF Goto, Moves
<1>10. /\ DOMAIN n = DOMAIN t /\ n.at = "missing_days"
       /\ n.todo = t.todo \ {next} /\ n.missing = missing
       /\ n.viewer = t.viewer /\ n.grants = t.grants /\ n.calm = t.calm /\ n.filter = t.filter
       /\ n.recorded = t.recorded /\ n.staff = t.staff
  BY <1>2, <1>3, <1>8 DEF Known, MissingLasts
<1>11. MissingLasts(n)
  BY <1>2, <1>3, <1>5, <1>7, <1>10 DEF MissingLasts
<1>12. ASSUME t.calm PROVE MissingFresh(n)
  <2>1. /\ t.staff = AtWork(t.filter)
        /\ \A p \in t.todo : Due(t.filter, p)
        /\ \A p \in t.staff \X Window(t.filter) :
               p \in t.missing <=> /\ Due(t.filter, p) /\ p \notin t.todo
                                   /\ days[p[1]][p[2]] = "working"
    BY <1>2, <1>3, <1>12 DEF Fresh, MissingFresh
  <2>2. ASSUME NEW p \in t.staff \X Window(t.filter)
        PROVE  p \in missing <=> /\ Due(t.filter, p) /\ p \notin t.todo \ {next}
                                 /\ days[p[1]][p[2]] = "working"
    <3>1. CASE p = next
      BY <1>5, <1>6, <1>7, <2>1, <3>1
    <3>2. CASE p # next
      BY <1>7, <2>1, <3>2
    <3> QED BY <3>1, <3>2
  <2> QED BY <1>10, <2>1, <2>2 DEF MissingFresh
<1>13. n.calm => KnownNow(n)
  BY <1>2, <1>3, <1>10 DEF Fresh, KnownNow
<1>14. Known(n)
  BY <1>3, <1>10 DEF Known
<1>15. Sound(n) /\ Quiet(n)
  BY <1>10, <1>11, <1>12, <1>13, <1>14, NotConcerned DEF Elsewhere, Sound, Lasts, Fresh, Quiet
<1> QED BY <1>9, <1>15, IdleSound DEF Turns

-----------------------------------------------------------------------------
(***************************************************************************)
(* Lists, and one's own                                                    *)
(***************************************************************************)
LEMMA ShowListSound ==
    ASSUME IInv, NEW h \in Handlers, ShowList(h)
    PROVE  Turns(h)
<1>1. PICK t : t = task[h]
  OBVIOUS
<1>2. t.at = "list"
  BY <1>1 DEF ShowList, At
<1>3. Known(t) /\ ListLasts(t) /\ Fresh(t)
  BY <1>1, <1>2, Doing
<1>4. PICK rows : rows = IF t.kind = "leave" THEN LeaveList(t.filter, t.statuses)
                         ELSE AttendanceQuery(t.filter, t.statuses)
  OBVIOUS
<1>5. PICK n : n = With([t EXCEPT !.at = "listed"], [rows |-> rows])
  OBVIOUS
<1>6. Moves(h, n)
  BY <1>1, <1>4, <1>5 DEF ShowList, Goto, Moves
<1>7. /\ DOMAIN n = DOMAIN t \cup {"rows"} /\ n.at = "listed" /\ n.rows = rows
      /\ n.viewer = t.viewer /\ n.grants = t.grants /\ n.calm = t.calm /\ n.filter = t.filter
      /\ n.kind = t.kind /\ n.statuses = t.statuses
  BY <1>2, <1>3, <1>5 DEF Known, ListLasts, With
<1>8. t.kind = "leave" => rows = LeaveRequestQuery(t.filter, t.statuses)
  BY <1>2, <1>3, <1>4 DEF ListLasts, LeaveList, LeaveRequestQuery, InScope
<1>9. ListLasts(n) /\ Known(n)
  BY <1>2, <1>3, <1>7 DEF ListLasts, Known
<1>10. n.calm => ListFresh(n) /\ KnownNow(n)
  BY <1>2, <1>3, <1>7, <1>8 DEF ListFresh, Fresh, KnownNow
<1>11. Sound(n) /\ Quiet(n)
  BY <1>7, <1>9, <1>10, NotConcerned DEF Elsewhere, Sound, Lasts, Fresh, Quiet
<1> QED BY <1>6, <1>11 DEF Turns

LEMMA NewestProfile ==
    ASSUME NEW u, Profiles(u) # {}
    PROVE  /\ Max(Profiles(u)) \in Employees /\ employees[Max(Profiles(u))].email = EmailOf[u]
           /\ \A e \in Employees : e > Max(Profiles(u)) => employees[e].email # EmailOf[u]
<1>1. PICK mine : mine = Profiles(u)
  OBVIOUS
<1>2. mine \subseteq Nat /\ mine # {}
  BY <1>1, ReportsAssumption DEF Profiles
<1>3. IsFiniteSet(mine)
  <2>1. mine \subseteq Employees
    BY <1>1 DEF Profiles
  <2> QED BY <2>1, FS_Subset, ReportsAssumption
<1>4. Max(mine) \in mine /\ \A e \in mine : Max(mine) >= e
  BY <1>2, <1>3, MaxIs
<1>5. PICK m : m = Max(mine)
  OBVIOUS
<1>6. m \in mine /\ \A e \in mine : m >= e
  BY <1>4, <1>5
<1>7. \A e \in Employees : e > m => employees[e].email # EmailOf[u]
  BY <1>1, <1>2, <1>6, ReportsAssumption DEF Profiles
<1> QED BY <1>1, <1>5, <1>6, <1>7 DEF Profiles

LEMMA FindProfileSound ==
    ASSUME IInv, NEW h \in Handlers, FindProfile(h)
    PROVE  Turns(h)
<1>1. PICK t : t = task[h]
  OBVIOUS
<1>2. t.at = "my_profile"
  BY <1>1 DEF FindProfile, At
<1>3. Known(t) /\ MineLasts(t) /\ Fresh(t)
  BY <1>1, <1>2, Doing
<1>4. PICK f : f = OwnFilter(t.filter, Max(Profiles(t.viewer)))
  OBVIOUS
<1>5. PICK n : n = [t EXCEPT !.at = t.want, !.filter = f]
  OBVIOUS
<1>6. \/ Moves(h, Idle)
      \/ Profiles(t.viewer) # {} /\ Moves(h, n)
  BY <1>1, <1>4, <1>5 DEF FindProfile, Goto, Moves
<1>7. CASE Profiles(t.viewer) # {} /\ Moves(h, n)
  <2>1. PICK e : e = Max(Profiles(t.viewer))
    OBVIOUS
  <2>2. e \in Employees /\ employees[e].email = EmailOf[t.viewer]
    BY <1>7, <2>1, NewestProfile
  <2>3. "employee" \in DOMAIN f /\ f.employee = e
    BY <1>2, <1>3, <1>4, <2>1 DEF MineLasts, OwnFilter
  <2>4. /\ DOMAIN n = DOMAIN t /\ n.at = t.want /\ n.filter = f
        /\ n.viewer = t.viewer /\ n.grants = t.grants /\ n.calm = t.calm
    BY <1>2, <1>3, <1>5 DEF Known, MineLasts
  <2>5. n.at \in {"my_records", "my_leave"}
    BY <1>2, <1>3, <2>4 DEF MineLasts
  <2>6. MineLasts(n) /\ Known(n)
    BY <1>2, <1>3, <2>2, <2>3, <2>4, <2>5 DEF MineLasts, Known
  <2>7. n.calm => MineFresh(n) /\ KnownNow(n)
    BY <1>2, <1>3, <2>2, <2>3, <2>4, <2>5 DEF MineFresh, Fresh, KnownNow
  <2>8. Sound(n) /\ Quiet(n)
    BY <2>5, <2>6, <2>7, NotConcerned DEF Elsewhere, Sound, Lasts, Fresh, Quiet
  <2> QED BY <1>7, <2>8 DEF Turns
<1> QED BY <1>6, <1>7, IdleSound DEF Turns

\* Whichever of the two queries is asked, its rows are of the employee in the filter.
LEMMA ShownSound ==
    ASSUME IInv, NEW h \in Handlers, NEW t, t = task[h], t.at \in {"my_records", "my_leave"},
           NEW shown, shown \subseteq {t.filter.employee},
           NEW n, n = With([t EXCEPT !.at = "my_shown"], [shown |-> shown])
    PROVE  Sound(n) /\ Quiet(n)
<1>1. Known(t) /\ MineLasts(t) /\ Fresh(t)
  BY Doing
<1>2. /\ DOMAIN n = DOMAIN t \cup {"shown"} /\ n.at = "my_shown" /\ n.shown = shown
      /\ n.viewer = t.viewer /\ n.grants = t.grants /\ n.calm = t.calm
  BY <1>1 DEF Known, With
<1>3. MineLasts(n) /\ Known(n)
  BY <1>1, <1>2 DEF MineLasts, Known
<1>4. n.calm => MineFresh(n) /\ KnownNow(n)
  BY <1>1, <1>2 DEF MineFresh, Fresh, KnownNow
<1> QED BY <1>2, <1>3, <1>4, NotConcerned DEF Elsewhere, Sound, Lasts, Fresh, Quiet

LEMMA FindMySound ==
    ASSUME IInv, NEW h \in Handlers, FindMyRecords(h) \/ FindMyLeave(h)
    PROVE  Turns(h)
<1>1. PICK t : t = task[h]
  OBVIOUS
<1>2. t.at \in {"my_records", "my_leave"}
  BY <1>1 DEF FindMyRecords, FindMyLeave, At
<1>3. MineLasts(t)
  BY <1>1, <1>2, Doing
<1>4. t.filter.employee \in Employees /\ t.filter.employee # None
  BY <1>2, <1>3, ReportsAssumption DEF MineLasts
<1>5. CASE FindMyRecords(h)
  <2>1. PICK shown : shown = {records[a].employee : a \in AttendanceQuery(t.filter, ApprovalStatus)}
    OBVIOUS
  <2>2. PICK n : n = With([t EXCEPT !.at = "my_shown"], [shown |-> shown])
    OBVIOUS
  <2>3. shown \subseteq {t.filter.employee}
    BY <1>4, <2>1 DEF AttendanceQuery, InScope
  <2>4. Moves(h, n)
    BY <1>1, <1>5, <2>1, <2>2 DEF FindMyRecords, Goto, Moves
  <2> QED BY <1>1, <1>2, <2>2, <2>3, <2>4, ShownSound DEF Turns
<1>6. CASE FindMyLeave(h)
  <2>1. PICK found :
            found = {q \in LeaveIds : leaves[q] # None /\ leaves[q].employee = t.filter.employee}
    OBVIOUS
  <2>2. PICK shown : shown = {leaves[q].employee : q \in found}
    OBVIOUS
  <2>3. PICK n : n = With([t EXCEPT !.at = "my_shown"], [shown |-> shown])
    OBVIOUS
  <2>4. shown \subseteq {t.filter.employee}
    BY <2>1, <2>2
  <2>5. Moves(h, n)
    BY <1>1, <1>6, <2>1, <2>2, <2>3 DEF FindMyLeave, Goto, Moves
  <2> QED BY <1>1, <1>2, <2>3, <2>4, <2>5, ShownSound DEF Turns
<1> QED BY <1>5, <1>6

LEMMA ReportSound ==
    ASSUME IInv, NEW h \in Handlers, Report(h)
    PROVE  Turns(h)
BY OverviewQuerySound, PendingApprovalsSound, FindStaffSound, FindRecordsSound, FindLeavesSound,
   ResolveDaySound, ShowListSound, FindProfileSound, FindMySound DEF Report

-----------------------------------------------------------------------------
(***************************************************************************)
(* Notices                                                                 *)
(***************************************************************************)
LEMMA FindReaderSound ==
    ASSUME IInv, NEW h \in Handlers, FindReader(h)
    PROVE  Turns(h)
<1>1. PICK t : t = task[h]
  OBVIOUS
<1>2. t.at = "notice_reader"
  BY <1>1 DEF FindReader, At
<1>3. Known(t) /\ Fresh(t)
  BY <1>1, <1>2, Doing
<1>4. PICK reader : reader = employees[Max(Profiles(t.viewer))]
  OBVIOUS
<1>5. PICK n : n = With([t EXCEPT !.at = "notice_list"], [reader |-> reader, shown |-> {}])
  OBVIOUS
<1>6. Moves(h, Idle) \/ (Profiles(t.viewer) # {} /\ Moves(h, n))
  BY <1>1, <1>4, <1>5 DEF FindReader, Continue, Goto, Moves
<1>7. CASE Profiles(t.viewer) # {} /\ Moves(h, n)
  <2>1. /\ DOMAIN n = DOMAIN t \cup {"reader", "shown"} /\ n.at = "notice_list"
        /\ n.reader = reader
        /\ n.viewer = t.viewer /\ n.grants = t.grants /\ n.calm = t.calm
    BY <1>3, <1>5 DEF Known, With
  <2>2. NoticeLasts(n) /\ Known(n)
    BY <1>3, <2>1 DEF NoticeLasts, Known
  <2>3. n.calm => NoticeFresh(n) /\ KnownNow(n)
    BY <1>2, <1>3, <1>4, <1>7, <2>1 DEF NoticeFresh, Fresh, KnownNow
  <2>4. Sound(n) /\ Quiet(n)
    BY <2>1, <2>2, <2>3, NotConcerned DEF Elsewhere, Sound, Lasts, Fresh, Quiet
  <2> QED BY <1>7, <2>4 DEF Turns
<1> QED BY <1>6, <1>7, IdleSound DEF Turns

LEMMA ShowNoticesSound ==
    ASSUME IInv, NEW h \in Handlers, ShowNotices(h)
    PROVE  Turns(h)
<1>1. PICK t : t = task[h]
  OBVIOUS
<1>2. t.at = "notice_list"
  BY <1>1 DEF ShowNotices, At
<1>3. Known(t) /\ Fresh(t)
  BY <1>1, <1>2, Doing
<1>4. PICK shown :
          shown = {n \in NoticeIds : /\ notices[n] # None /\ notices[n].status = "published"
                                     /\ ForReader(notices[n].aim, t)}
  OBVIOUS
<1>5. PICK n : n = [t EXCEPT !.at = "notice_shown", !.shown = shown]
  OBVIOUS
<1>6. Moves(h, n)
  BY <1>1, <1>4, <1>5 DEF ShowNotices, Continue, Goto, Moves
<1>7. /\ DOMAIN n = DOMAIN t /\ n.at = "notice_shown"
      /\ n.viewer = t.viewer /\ n.grants = t.grants /\ n.calm = t.calm
  BY <1>3, <1>5 DEF Known
<1>8. Known(n) /\ (n.calm => KnownNow(n))
  BY <1>2, <1>3, <1>7 DEF Known, Fresh, KnownNow
<1>9. Sound(n) /\ Quiet(n)
  BY <1>7, <1>8, NotConcerned DEF Elsewhere, Sound, Lasts, Fresh, Quiet
<1> QED BY <1>6, <1>9 DEF Turns

LEMMA SaveNoticeTyped ==
    ASSUME IInv, NEW h \in Handlers, SaveNotice(h)
    PROVE  Moves(h, Idle) /\ notices' \in [NoticeIds -> Opt(Notice)]
<1>1. PICK t : t = task[h]
  OBVIOUS
<1>2. t.at = "notice_save"
  BY <1>1 DEF SaveNotice, At
<1>3. t.id \in NoticeIds /\ t.row \in Notice
  BY <1>1, <1>2, Doing DEF NoticeLasts
<1>4. notices' = [notices EXCEPT ![t.id] = t.row]
  BY <1>1 DEF SaveNotice
<1>5. notices \in [NoticeIds -> Opt(Notice)]
  BY DEF IInv, TypeOK
<1>6. notices' \in [NoticeIds -> Opt(Notice)]
  BY <1>3, <1>4, <1>5 DEF Opt
<1> QED BY <1>6 DEF SaveNotice, Goto, Moves

-----------------------------------------------------------------------------
(***************************************************************************)
(* Notifications                                                           *)
(***************************************************************************)
\* A list of a set's elements names each of them once.
LEMMA Listed ==
    ASSUME NEW S, IsFiniteSet(S)
    PROVE  /\ SetToSeq(S) \in Seq(S) /\ IsInjective(SetToSeq(S))
           /\ Len(SetToSeq(S)) = Cardinality(S)
<1>1. PICK c \in Nat : c = Cardinality(S)
  BY FS_CardinalityType
<1>2. Bijection(1 .. c, S) # {}
  BY <1>1, FS_CardinalityType DEF ExistsBijection
<1>3. \E f \in [1 .. c -> S] : IsInjective(f)
  BY <1>2 DEF Bijection, Injection
<1>4. PICK l : l = SetToSeq(S)
  OBVIOUS
<1>5. l \in [1 .. c -> S] /\ IsInjective(l)
  BY <1>1, <1>3, <1>4 DEF SetToSeq
<1>6. l \in Seq(S) /\ Len(l) = c
  BY <1>5
<1> QED BY <1>1, <1>4, <1>5, <1>6

LEMMA AddedTyped ==
    ASSUME NEW r \in Seq(Users), IsInjective(r), NEW found, found \subseteq Users
    PROVE  Added(r, found) \in Seq(Users) /\ IsInjective(Added(r, found))
<1>1. PICK more : more = found \ ToSet(r)
  OBVIOUS
<1>2. IsFiniteSet(more) /\ more \subseteq Users
  <2>1. more \subseteq Users
    BY <1>1
  <2> QED BY <2>1, FS_Subset, ReportsAssumption
<1>3. PICK l : l = SetToSeq(more)
  OBVIOUS
<1>4. l \in Seq(more) /\ IsInjective(l)
  BY <1>2, <1>3, Listed
<1>5. l \in Seq(Users)
  BY <1>2, <1>4
<1>6. PICK a : a = Added(r, found)
  OBVIOUS
<1>7. a = r \o l
  BY <1>1, <1>3, <1>6 DEF Added
<1>8. /\ a \in Seq(Users) /\ Len(a) = Len(r) + Len(l) /\ DOMAIN a = 1 .. Len(r) + Len(l)
      /\ \A i \in 1 .. Len(r) + Len(l) : a[i] = IF i <= Len(r) THEN r[i] ELSE l[i - Len(r)]
  BY <1>5, <1>7
<1>9. ASSUME NEW i \in 1 .. Len(r), NEW j \in 1 .. Len(l) PROVE r[i] # l[j]
  <2>1. r[i] \in ToSet(r)
    BY DEF ToSet
  <2>2. l[j] \in more
    BY <1>4
  <2> QED BY <1>1, <2>1, <2>2
<1>10. ASSUME NEW i \in DOMAIN a, NEW j \in DOMAIN a, a[i] = a[j] PROVE i = j
  <2>0. i \in 1 .. Len(r) + Len(l) /\ j \in 1 .. Len(r) + Len(l) /\ Len(r) \in Nat /\ Len(l) \in Nat
    BY <1>4, <1>8
  <2>1. CASE i <= Len(r) /\ j <= Len(r)
    <3>1. r[i] = r[j] /\ i \in DOMAIN r /\ j \in DOMAIN r
      BY <1>8, <1>10, <2>0, <2>1
    <3> QED BY <3>1 DEF IsInjective
  <2>2. CASE i > Len(r) /\ j > Len(r)
    <3>1. l[i - Len(r)] = l[j - Len(r)] /\ i - Len(r) \in DOMAIN l /\ j - Len(r) \in DOMAIN l
      BY <1>4, <1>8, <1>10, <2>0, <2>2
    <3>2. i - Len(r) = j - Len(r)
      BY <1>4, <3>1 DEF IsInjective
    <3> QED BY <2>0, <3>2
  <2>3. CASE i <= Len(r) /\ j > Len(r)
    <3>1. i \in 1 .. Len(r) /\ j - Len(r) \in 1 .. Len(l) /\ r[i] = l[j - Len(r)]
      BY <1>8, <1>10, <2>0, <2>3
    <3> QED BY <1>9, <3>1
  <2>4. CASE i > Len(r) /\ j <= Len(r)
    <3>1. j \in 1 .. Len(r) /\ i - Len(r) \in 1 .. Len(l) /\ r[j] = l[i - Len(r)]
      BY <1>8, <1>10, <2>0, <2>4
    <3> QED BY <1>9, <3>1
  <2> QED BY <2>0, <2>1, <2>2, <2>3, <2>4
<1>11. IsInjective(a)
  BY <1>10 DEF IsInjective
<1> QED BY <1>6, <1>8, <1>11

Sending(t) == t.at \in {"named", "holders", "notify"}

\* A handler that has yet to save a request's notifications goes on with the same request.
GoesOn(h) ==
    \E n : /\ Moves(h, n) /\ Sound(n)
           /\ \/ Quiet(n)
              \/ Sending(n) /\ Sending(task[h]) /\ n.batch = task[h].batch

LEMMA SenderSound ==
    ASSUME NEW t, Known(t), NotificationLasts(t), Fresh(t), Sending(t),
           NEW r \in Seq(Users), IsInjective(r), NEW place \in {"holders", "notify"},
           NEW n, n = [t EXCEPT !.at = place, !.recipients = r]
    PROVE  Sound(n) /\ Sending(n) /\ n.batch = t.batch
<1>1. /\ DOMAIN n = DOMAIN t /\ n.at = place /\ n.recipients = r
      /\ n.viewer = t.viewer /\ n.grants = t.grants /\ n.calm = t.calm
      /\ n.dto = t.dto /\ n.batch = t.batch
  BY DEF Known, NotificationLasts, Sending
<1>2. NotificationLasts(n) /\ Known(n)
  BY <1>1 DEF NotificationLasts, Known, Sending
<1>3. n.calm => KnownNow(n)
  BY <1>1 DEF Fresh, KnownNow, Sending
<1> QED BY <1>1, <1>2, <1>3, NotConcerned DEF Elsewhere, Sound, Lasts, Fresh, Sending

LEMMA FindNamedSound ==
    ASSUME IInv, NEW h \in Handlers, FindNamed(h)
    PROVE  GoesOn(h)
<1>1. PICK t : t = task[h]
  OBVIOUS
<1>2. t.at = "named"
  BY <1>1 DEF FindNamed, At
<1>3. Known(t) /\ NotificationLasts(t) /\ Fresh(t) /\ Sending(t)
  BY <1>1, <1>2, Doing DEF Sending
<1>4. PICK s : s = t.dto.users \cap Active
  OBVIOUS
<1>5. s \subseteq Users /\ IsFiniteSet(s)
  <2>1. s \subseteq Users
    BY <1>4 DEF Active
  <2> QED BY <2>1, FS_Subset, ReportsAssumption
<1>6. PICK r : r = SetToSeq(s)
  OBVIOUS
<1>7. r \in Seq(Users) /\ IsInjective(r)
  <2>1. r \in Seq(s) /\ IsInjective(r)
    BY <1>5, <1>6, Listed
  <2> QED BY <1>5, <2>1
<1>8. PICK k : k = [t EXCEPT !.recipients = r]
  OBVIOUS
<1>9. Moves(h, AfterNamed(k))
  BY <1>1, <1>4, <1>6, <1>8 DEF FindNamed, Continue, Goto, Moves
<1>10. PICK asks : asks = [k EXCEPT !.at = "holders"]
  OBVIOUS
<1>11. PICK saves : saves = [k EXCEPT !.at = "notify"]
  OBVIOUS
<1>12. Moves(h, asks) \/ Moves(h, saves) \/ Moves(h, Idle)
  BY <1>9, <1>10, <1>11 DEF AfterNamed
<1>13. /\ asks = [t EXCEPT !.at = "holders", !.recipients = r]
       /\ saves = [t EXCEPT !.at = "notify", !.recipients = r]
  BY <1>8, <1>10, <1>11
<1>14. /\ Sound(asks) /\ Sending(asks) /\ asks.batch = t.batch
       /\ Sound(saves) /\ Sending(saves) /\ saves.batch = t.batch
  BY <1>3, <1>7, <1>13, SenderSound
<1> QED BY <1>1, <1>3, <1>12, <1>14, IdleSound DEF GoesOn

LEMMA FindHoldersSound ==
    ASSUME IInv, NEW h \in Handlers, FindHolders(h)
    PROVE  GoesOn(h)
<1>1. PICK t : t = task[h]
  OBVIOUS
<1>2. t.at = "holders"
  BY <1>1 DEF FindHolders, At
<1>3. Known(t) /\ NotificationLasts(t) /\ Fresh(t) /\ Sending(t)
  BY <1>1, <1>2, Doing DEF Sending
<1>4. PICK found : found = Holders(t.dto.permissions)
  OBVIOUS
<1>5. found \subseteq Users
  BY <1>4 DEF Holders, Active
<1>6. t.recipients \in Seq(Users) /\ IsInjective(t.recipients)
  BY <1>2, <1>3 DEF NotificationLasts
<1>7. PICK r : r = Added(t.recipients, found)
  OBVIOUS
<1>8. r \in Seq(Users) /\ IsInjective(r)
  BY <1>5, <1>6, <1>7, AddedTyped
<1>9. PICK n : n = [t EXCEPT !.at = "notify", !.recipients = r]
  OBVIOUS
<1>10. Moves(h, Idle) \/ Moves(h, n)
  BY <1>1, <1>4, <1>7, <1>9 DEF FindHolders, Continue, Goto, Moves
<1>11. Sound(n) /\ Sending(n) /\ n.batch = t.batch
  BY <1>3, <1>8, <1>9, SenderSound
<1> QED BY <1>1, <1>3, <1>10, <1>11, IdleSound DEF GoesOn

LEMMA SaveNotificationsTyped ==
    ASSUME IInv, NEW h \in Handlers, SaveNotifications(h)
    PROVE  /\ Moves(h, Idle)
           /\ notifications' = [m \in NotificationIds |-> notifications'[m]]
           /\ \A m \in NotificationIds : notifications'[m] \in Opt(Notification)
<1>1. PICK t : t = task[h]
  OBVIOUS
<1>2. t.at = "notify"
  BY <1>1 DEF SaveNotifications, At
<1>3. t.recipients \in Seq(Users) /\ t.batch \in 0 .. MaxLoad
  BY <1>1, <1>2, Doing DEF NotificationLasts
<1>4. PICK next : next = Cardinality({n \in NotificationIds : notifications[n] # None})
  OBVIOUS
<1>5. notifications' = [n \in NotificationIds |->
               IF n - next \in 1 .. Len(t.recipients)
               THEN [recipient |-> t.recipients[n - next], read |-> FALSE, batch |-> t.batch]
               ELSE notifications[n]]
  BY <1>1, <1>4 DEF SaveNotifications
<1>6. ASSUME NEW m \in NotificationIds PROVE notifications'[m] \in Opt(Notification)
  <2>1. notifications[m] \in Opt(Notification)
    BY DEF IInv, TypeOK
  <2>2. ASSUME m - next \in 1 .. Len(t.recipients)
        PROVE  [recipient |-> t.recipients[m - next], read |-> FALSE, batch |-> t.batch]
                   \in Notification
    <3>1. t.recipients[m - next] \in Users
      BY <1>3, <2>2
    <3> QED BY <1>3, <3>1, ReportsAssumption DEF Notification
  <2> QED BY <1>5, <2>1, <2>2 DEF Opt
<1>7. notifications' = [m \in NotificationIds |-> notifications'[m]]
  BY <1>5
<1> QED BY <1>6, <1>7 DEF SaveNotifications, Goto, Moves

LEMMA SaveMarkTyped ==
    ASSUME IInv, NEW h \in Handlers, SaveMark(h)
    PROVE  /\ Moves(h, Idle)
           /\ notifications' = [m \in NotificationIds |-> notifications'[m]]
           /\ \A m \in NotificationIds : notifications'[m] \in Opt(Notification)
<1>1. PICK t : t = task[h]
  OBVIOUS
<1>2. t.at = "mark_save"
  BY <1>1 DEF SaveMark, At
<1>3. t.id \in NotificationIds /\ t.row \in Notification
  BY <1>1, <1>2, Doing DEF NotificationLasts
<1>4. notifications' = [notifications EXCEPT ![t.id] = t.row]
  BY <1>1 DEF SaveMark
<1>5. /\ notifications = [m \in NotificationIds |-> notifications[m]]
      /\ \A m \in NotificationIds : notifications[m] \in Opt(Notification)
  BY DEF IInv, TypeOK, Framed
<1>6. notifications' = [m \in NotificationIds |-> IF m = t.id THEN t.row ELSE notifications[m]]
  BY <1>4, <1>5
<1>7. \A m \in NotificationIds : notifications'[m] \in Opt(Notification)
  BY <1>3, <1>5, <1>6 DEF Opt
<1> QED BY <1>6, <1>7 DEF SaveMark, Goto, Moves

-----------------------------------------------------------------------------
(***************************************************************************)
(* Requests that arrive                                                    *)
(***************************************************************************)
LEMMA ArrivalKnown ==
    ASSUME IInv, NEW h \in Handlers, NEW u \in Users, NEW next, Arrive(h, u, next),
           "at" \in DOMAIN next, next.at # "idle",
           DOMAIN next \cap {"viewer", "grants", "calm"} = {}
    PROVE  \E n : /\ Moves(h, n) /\ Known(n) /\ KnownNow(n)
                  /\ DOMAIN n = DOMAIN next \cup {"viewer", "grants", "calm"}
                  /\ \A x \in DOMAIN next : n[x] = next[x]
                  /\ UNCHANGED sources /\ load' \in 0 .. MaxLoad /\ load' > load
<1>1. PICK g : g = users[u].permissions
  OBVIOUS
<1>2. PICK n : n = With(next, [viewer |-> u, grants |-> g, calm |-> TRUE])
  OBVIOUS
<1>3. Moves(h, n) /\ UNCHANGED sources /\ users[u].isActive
  BY <1>1, <1>2 DEF Arrive, Moves
<1>4. /\ DOMAIN n = DOMAIN next \cup {"viewer", "grants", "calm"}
      /\ \A x \in DOMAIN next : n[x] = next[x]
      /\ n.viewer = u /\ n.grants = g /\ n.calm = TRUE
  BY <1>2 DEF With
<1>5. g \in Grants
  BY <1>1 DEF IInv, Granted
<1>6. Known(n)
  BY <1>4, <1>5 DEF Known
<1>7. KnownNow(n)
  BY <1>1, <1>3, <1>4 DEF KnownNow
<1>8. load' \in 0 .. MaxLoad /\ load' > load
  BY ReportsAssumption DEF Arrive, Loaded, Cost, IInv, TypeOK
<1> QED BY <1>3, <1>4, <1>6, <1>7, <1>8

\* A request for a report.
Asked(h) ==
    \E n : /\ Moves(h, n) /\ Sound(n) /\ Quiet(n)
           /\ UNCHANGED sources /\ load' \in 0 .. MaxLoad /\ load' > load

LEMMA OverviewAsked ==
    ASSUME IInv, NEW h \in Handlers, NEW u \in Users, NEW f \in Filters, GetOverview(h, u, f)
    PROVE  Asked(h)
<1>1. PICK asked : asked = Approvals(users[u].permissions)
  OBVIOUS
<1>2. PICK next : next = [at |-> "overview", filter |-> f, got |-> <<>>, pages |-> <<>>,
                          left |-> Queries, asked |-> asked]
  OBVIOUS
<1>3. /\ DOMAIN next = {"at", "filter", "got", "pages", "left", "asked"}
      /\ next.at = "overview" /\ next.got = <<>> /\ next.pages = <<>> /\ next.left = Queries
  BY <1>2
<1>4. Arrive(h, u, next)
  BY <1>1, <1>2 DEF GetOverview
<1>5. PICK n : /\ Moves(h, n) /\ Known(n) /\ KnownNow(n)
               /\ DOMAIN n = DOMAIN next \cup {"viewer", "grants", "calm"}
               /\ \A x \in DOMAIN next : n[x] = next[x]
               /\ UNCHANGED sources /\ load' \in 0 .. MaxLoad /\ load' > load
  BY <1>3, <1>4, ArrivalKnown
<1>6. n.at = "overview" /\ n.got = <<>> /\ n.pages = <<>> /\ n.left = Queries
  BY <1>3, <1>5
<1>7. DOMAIN n.got = {} /\ DOMAIN n.pages = {}
  BY <1>6
<1>8. OverviewLasts(n) /\ OverviewFresh(n)
  BY <1>3, <1>5, <1>6, <1>7 DEF OverviewLasts, OverviewFresh
<1>9. Sound(n) /\ Quiet(n)
  BY <1>5, <1>6, <1>8, NotConcerned DEF Elsewhere, Sound, Lasts, Fresh, Quiet
<1> QED BY <1>5, <1>9 DEF Asked

LEMMA ListAsked ==
    ASSUME IInv, NEW h \in Handlers, NEW u \in Users, NEW f \in Filters,
           NEW kind, NEW statuses, kind = "leave" => f.employee = None,
           List(h, u, f, kind, statuses)
    PROVE  Asked(h)
<1>1. PICK next : next = [at |-> "list", filter |-> f, kind |-> kind, statuses |-> statuses]
  OBVIOUS
<1>2. /\ DOMAIN next = {"at", "filter", "kind", "statuses"}
      /\ next.at = "list" /\ next.filter = f /\ next.kind = kind
  BY <1>1
<1>3. Arrive(h, u, next)
  BY <1>1 DEF List
<1>4. PICK n : /\ Moves(h, n) /\ Known(n) /\ KnownNow(n)
               /\ DOMAIN n = DOMAIN next \cup {"viewer", "grants", "calm"}
               /\ \A x \in DOMAIN next : n[x] = next[x]
               /\ UNCHANGED sources /\ load' \in 0 .. MaxLoad /\ load' > load
  BY <1>2, <1>3, ArrivalKnown
<1>5. n.at = "list" /\ n.filter = f /\ n.kind = kind
  BY <1>2, <1>4
<1>6. ListLasts(n) /\ ListFresh(n)
  BY <1>2, <1>4, <1>5 DEF ListLasts, ListFresh
<1>7. Sound(n) /\ Quiet(n)
  BY <1>4, <1>5, <1>6, NotConcerned DEF Elsewhere, Sound, Lasts, Fresh, Quiet
<1> QED BY <1>4, <1>7 DEF Asked

LEMMA MineAsked ==
    ASSUME IInv, NEW h \in Handlers, NEW u \in Users,
           \/ \E f \in Filters : GetMyAttendance(h, u, f)
           \/ GetMyLeaveRequests(h, u)
    PROVE  Asked(h)
<1>1. PICK want, f :
          /\ want \in {"my_records", "my_leave"} /\ "employee" \in DOMAIN f
          /\ Arrive(h, u, [at |-> "my_profile", want |-> want, filter |-> f])
  <2>1. ASSUME NEW f \in Filters PROVE "employee" \in DOMAIN f
    BY FiltersAssumption DEF FiltersDto
  <2>2. "employee" \in DOMAIN [field \in {"employee"} |-> None]
    OBVIOUS
  <2> QED BY <2>1, <2>2 DEF GetMyAttendance, GetMyLeaveRequests
<1>2. PICK next : next = [at |-> "my_profile", want |-> want, filter |-> f]
  OBVIOUS
<1>3. /\ DOMAIN next = {"at", "want", "filter"}
      /\ next.at = "my_profile" /\ next.filter = f /\ next.want = want
  BY <1>2
<1>4. PICK n : /\ Moves(h, n) /\ Known(n) /\ KnownNow(n)
               /\ DOMAIN n = DOMAIN next \cup {"viewer", "grants", "calm"}
               /\ \A x \in DOMAIN next : n[x] = next[x]
               /\ UNCHANGED sources /\ load' \in 0 .. MaxLoad /\ load' > load
  BY <1>1, <1>2, <1>3, ArrivalKnown
<1>5. n.at = "my_profile" /\ n.filter = f /\ n.want = want
  BY <1>3, <1>4
<1>6. MineLasts(n) /\ MineFresh(n)
  BY <1>1, <1>3, <1>4, <1>5 DEF MineLasts, MineFresh
<1>7. Sound(n) /\ Quiet(n)
  BY <1>4, <1>5, <1>6, NotConcerned DEF Elsewhere, Sound, Lasts, Fresh, Quiet
<1> QED BY <1>4, <1>7 DEF Asked

LEMMA MissingAsked ==
    ASSUME IInv, NEW h \in Handlers, NEW u \in Users, NEW f \in Filters,
           GetMissingAttendance(h, u, f)
    PROVE  Asked(h)
<1>1. PICK recorded :
          recorded = {<<r.employee, r.date>> : r \in {records[a] : a \in
                          {b \in RecordIds : records[b] # None}}}
  OBVIOUS
<1>2. PICK next : next = [at |-> "missing_staff", filter |-> f, recorded |-> recorded]
  OBVIOUS
<1>3. /\ DOMAIN next = {"at", "filter", "recorded"}
      /\ next.at = "missing_staff" /\ next.filter = f /\ next.recorded = recorded
  BY <1>2
<1>4. Arrive(h, u, next)
  BY <1>1, <1>2 DEF GetMissingAttendance
<1>5. PICK n : /\ Moves(h, n) /\ Known(n) /\ KnownNow(n)
               /\ DOMAIN n = DOMAIN next \cup {"viewer", "grants", "calm"}
               /\ \A x \in DOMAIN next : n[x] = next[x]
               /\ UNCHANGED sources /\ load' \in 0 .. MaxLoad /\ load' > load
  BY <1>3, <1>4, ArrivalKnown
<1>6. n.at = "missing_staff" /\ n.filter = f /\ n.recorded = recorded
  BY <1>3, <1>5
<1>7. \A p \in recorded : OnRecord(p)
  BY <1>1 DEF OnRecord
<1>8. f.start \in Dates /\ f.end \in Dates
  BY FiltersAssumption DEF GetMissingAttendance, FiltersDto, Opt
<1>9. MissingLasts(n) /\ MissingFresh(n)
  BY <1>3, <1>5, <1>6, <1>7, <1>8 DEF MissingLasts, MissingFresh
<1>10. Sound(n) /\ Quiet(n)
  BY <1>5, <1>6, <1>9, NotConcerned DEF Elsewhere, Sound, Lasts, Fresh, Quiet
<1> QED BY <1>5, <1>10 DEF Asked

LEMMA AskSound ==
    ASSUME IInv, NEW h \in Handlers, NEW u \in Users, Ask(h, u)
    PROVE  Asked(h)
<1>1. CASE AskDashboard(h, u)
  BY <1>1, OverviewAsked DEF AskDashboard
<1>2. CASE AskAttendance(h, u)
  <2>1. ASSUME NEW f \in Filters, NEW statuses, List(h, u, f, "attendance", statuses)
        PROVE  Asked(h)
    <3>1. PICK kind : kind = "attendance"
      OBVIOUS
    <3> QED BY <2>1, <3>1, ListAsked
  <2> QED BY <1>2, <2>1, MineAsked, MissingAsked DEF AskAttendance, ListAttendanceDto
<1>3. CASE AskLeave(h, u)
  <2>1. ASSUME NEW f \in Filters, f.employee = None, NEW statuses,
               List(h, u, f, "leave", statuses)
        PROVE  Asked(h)
    <3>1. PICK kind : kind = "leave"
      OBVIOUS
    <3> QED BY <2>1, <3>1, ListAsked
  <2> QED BY <1>3, <2>1, MineAsked DEF AskLeave, ListLeaveRequestsDto
<1> QED BY <1>1, <1>2, <1>3 DEF Ask

LEMMA NoticeAsked ==
    ASSUME IInv, NEW h \in Handlers, NEW u \in Users, NEW id \in NoticeIds, NEW row \in Notice,
           Begin(h, u, [at |-> "notice_save", id |-> id, row |-> row])
    PROVE  Asked(h)
<1>1. PICK next : next = [at |-> "notice_save", id |-> id, row |-> row]
  OBVIOUS
<1>2. /\ DOMAIN next = {"at", "id", "row"}
      /\ next.at = "notice_save" /\ next.id = id /\ next.row = row
  BY <1>1
<1>3. Arrive(h, u, next)
  BY <1>1 DEF Begin
<1>4. PICK n : /\ Moves(h, n) /\ Known(n) /\ KnownNow(n)
               /\ DOMAIN n = DOMAIN next \cup {"viewer", "grants", "calm"}
               /\ \A x \in DOMAIN next : n[x] = next[x]
               /\ UNCHANGED sources /\ load' \in 0 .. MaxLoad /\ load' > load
  BY <1>2, <1>3, ArrivalKnown
<1>5. n.at = "notice_save" /\ n.id = id /\ n.row = row
  BY <1>2, <1>4
<1>6. NoticeLasts(n) /\ NoticeFresh(n)
  BY <1>2, <1>4, <1>5 DEF NoticeLasts, NoticeFresh
<1>7. Sound(n) /\ Quiet(n)
  BY <1>4, <1>5, <1>6, NotConcerned DEF Elsewhere, Sound, Lasts, Fresh, Quiet
<1> QED BY <1>4, <1>7 DEF Asked

LEMMA RequestNoticeSound ==
    ASSUME IInv, NEW h \in Handlers, NEW u \in Users, RequestNotice(h, u)
    PROVE  Asked(h) /\ UNCHANGED <<notices, notifications>>
<1>1. ASSUME NEW dto \in NoticeDtos, CreateNotice(h, u, dto)
      PROVE  Asked(h) /\ UNCHANGED <<notices, notifications>>
  <2>1. PICK fresh : fresh = {n \in NoticeIds \ Held : notices[n] = None}
    OBVIOUS
  <2>2. fresh \subseteq NoticeIds /\ fresh # {}
    BY <1>1, <2>1 DEF CreateNotice
  <2>3. Min(fresh) \in NoticeIds
    BY <2>2, MinIs, AnnouncementsAssumption
  <2>4. PICK row : row = [aim |-> dto, status |-> "draft", publishedAt |-> FALSE]
    OBVIOUS
  <2>5. row \in Notice
    BY <2>4, AnnouncementsAssumption DEF Notice, NoticeStatus
  <2>6. Begin(h, u, [at |-> "notice_save", id |-> Min(fresh), row |-> row])
    BY <1>1, <2>1, <2>4 DEF CreateNotice
  <2>7. PICK id : id = Min(fresh)
    OBVIOUS
  <2> QED BY <2>3, <2>5, <2>6, <2>7, NoticeAsked DEF Begin
<1>2. ASSUME NEW n \in NoticeIds, NEW s \in NoticeStatus, UpdateStatus(h, u, n, s)
      PROVE  Asked(h) /\ UNCHANGED <<notices, notifications>>
  <2>1. PICK old : old = notices[n]
    OBVIOUS
  <2>2. old \in Notice
    BY <1>2, <2>1 DEF UpdateStatus, IInv, TypeOK, Opt
  <2>3. PICK row : row = WithStatus(old, s)
    OBVIOUS
  <2>4. row \in Notice
    BY <2>2, <2>3 DEF WithStatus, Notice
  <2>5. Begin(h, u, [at |-> "notice_save", id |-> n, row |-> row])
    BY <1>2, <2>1, <2>3 DEF UpdateStatus
  <2> QED BY <2>4, <2>5, NoticeAsked DEF Begin
<1>3. ASSUME GetMyNotices(h, u)
      PROVE  Asked(h) /\ UNCHANGED <<notices, notifications>>
  <2>1. PICK next : next = [at |-> "notice_reader"]
    OBVIOUS
  <2>2. DOMAIN next = {"at"} /\ next.at = "notice_reader"
    BY <2>1
  <2>3. Arrive(h, u, next) /\ UNCHANGED <<notices, notifications>>
    BY <1>3, <2>1 DEF GetMyNotices, Begin
  <2>4. PICK n : /\ Moves(h, n) /\ Known(n) /\ KnownNow(n)
                 /\ DOMAIN n = DOMAIN next \cup {"viewer", "grants", "calm"}
                 /\ \A x \in DOMAIN next : n[x] = next[x]
                 /\ UNCHANGED sources /\ load' \in 0 .. MaxLoad /\ load' > load
    BY <2>2, <2>3, ArrivalKnown
  <2>5. n.at = "notice_reader"
    BY <2>2, <2>4
  <2>6. Sound(n) /\ Quiet(n)
    BY <2>4, <2>5, NotConcerned DEF Elsewhere, Sound, Lasts, Fresh, Quiet
  <2> QED BY <2>3, <2>4, <2>6 DEF Asked
<1> QED BY <1>1, <1>2, <1>3 DEF RequestNotice

\* A request to notify is told apart by the load it found.
LEMMA CreateNotificationsSound ==
    ASSUME IInv, NEW h \in Handlers, NEW u \in Users, NEW dto \in NotificationDtos,
           CreateNotifications(h, u, dto)
    PROVE  \E n : /\ Moves(h, n) /\ Sound(n) /\ Sending(n) /\ n.batch = load
                  /\ UNCHANGED <<sources, notices, notifications>>
                  /\ load' \in 0 .. MaxLoad /\ load' > load
<1>1. PICK place \in {"named", "holders"} :
          Begin(h, u, [at |-> place, dto |-> dto, recipients |-> <<>>, batch |-> load])
  BY DEF CreateNotifications
<1>2. PICK batch : batch = load
  OBVIOUS
<1>3. PICK next : next = [at |-> place, dto |-> dto, recipients |-> <<>>, batch |-> batch]
  OBVIOUS
<1>4. /\ DOMAIN next = {"at", "dto", "recipients", "batch"}
      /\ next.at = place /\ next.dto = dto /\ next.recipients = <<>> /\ next.batch = batch
  BY <1>3
<1>5. Arrive(h, u, next) /\ UNCHANGED <<notices, notifications>>
  BY <1>1, <1>2, <1>3 DEF Begin
<1>6. PICK n : /\ Moves(h, n) /\ Known(n) /\ KnownNow(n)
               /\ DOMAIN n = DOMAIN next \cup {"viewer", "grants", "calm"}
               /\ \A x \in DOMAIN next : n[x] = next[x]
               /\ UNCHANGED sources /\ load' \in 0 .. MaxLoad /\ load' > load
  BY <1>4, <1>5, ArrivalKnown
<1>7. n.at = place /\ n.dto = dto /\ n.recipients = <<>> /\ n.batch = batch
  BY <1>4, <1>6
<1>8. NotificationLasts(n)
  <2>1. n.recipients \in Seq(Users) /\ IsInjective(n.recipients)
    BY <1>7 DEF IsInjective
  <2>2. n.batch \in 0 .. MaxLoad
    BY <1>2, <1>7 DEF IInv, TypeOK
  <2> QED BY <1>4, <1>6, <1>7, <2>1, <2>2, AnnouncementsAssumption DEF NotificationLasts
<1>9. Sound(n) /\ Sending(n)
  BY <1>6, <1>7, <1>8, NotConcerned DEF Elsewhere, Sound, Lasts, Fresh, Sending
<1> QED BY <1>2, <1>5, <1>6, <1>7, <1>9

LEMMA MarkAsReadSound ==
    ASSUME IInv, NEW h \in Handlers, NEW u \in Users, NEW id \in NotificationIds,
           MarkAsRead(h, u, id)
    PROVE  \E n : /\ Moves(h, n) /\ Sound(n) /\ n.at = "mark_save" /\ n.id = id
                  /\ notifications[id] # None
                  /\ n.row.recipient = notifications[id].recipient
                  /\ n.row.batch = notifications[id].batch
                  /\ UNCHANGED <<sources, notices, notifications>>
                  /\ load' \in 0 .. MaxLoad /\ load' > load
<1>1. PICK old : old = notifications[id]
  OBVIOUS
<1>2. old \in Notification /\ old # None
  BY <1>1 DEF MarkAsRead, IInv, TypeOK, Opt
<1>3. PICK row : row = [old EXCEPT !.read = TRUE]
  OBVIOUS
<1>4. row \in Notification /\ row.recipient = old.recipient /\ row.batch = old.batch
  BY <1>2, <1>3 DEF Notification
<1>5. PICK next : next = [at |-> "mark_save", id |-> id, row |-> row]
  OBVIOUS
<1>6. /\ DOMAIN next = {"at", "id", "row"}
      /\ next.at = "mark_save" /\ next.id = id /\ next.row = row
  BY <1>5
<1>7. Arrive(h, u, next) /\ UNCHANGED <<notices, notifications>>
  BY <1>1, <1>3, <1>5 DEF MarkAsRead, Begin
<1>8. PICK n : /\ Moves(h, n) /\ Known(n) /\ KnownNow(n)
               /\ DOMAIN n = DOMAIN next \cup {"viewer", "grants", "calm"}
               /\ \A x \in DOMAIN next : n[x] = next[x]
               /\ UNCHANGED sources /\ load' \in 0 .. MaxLoad /\ load' > load
  BY <1>6, <1>7, ArrivalKnown
<1>9. n.at = "mark_save" /\ n.id = id /\ n.row = row
  BY <1>6, <1>8
<1>10. NotificationLasts(n)
  BY <1>4, <1>6, <1>8, <1>9 DEF NotificationLasts
<1>11. Sound(n)
  BY <1>8, <1>9, <1>10, NotConcerned DEF Elsewhere, Sound, Lasts, Fresh
<1> QED BY <1>1, <1>2, <1>4, <1>7, <1>8, <1>9, <1>11

-----------------------------------------------------------------------------
(***************************************************************************)
(* The saves of other requests                                             *)
(***************************************************************************)
LEMMA UserSavedTyped ==
    ASSUME IInv, NEW u \in Users, UserSaved(u)
    PROVE  users' \in [Users -> User] /\ Granted'
<1>1. users \in [Users -> User] /\ Granted
  BY DEF IInv, TypeOK
<1>2. CASE users' = [users EXCEPT ![u].isActive = ~@]
  BY <1>1, <1>2 DEF User, Granted
<1>3. ASSUME NEW p \in Grants, users' = [users EXCEPT ![u].permissions = p]
      PROVE  users' \in [Users -> User] /\ Granted'
  BY <1>1, <1>3, ReportsAssumption DEF User, Granted
<1> QED BY <1>2, <1>3 DEF UserSaved

LEMMA EmployeeSavedTyped ==
    ASSUME IInv, NEW e \in Employees, EmployeeSaved(e)
    PROVE  employees' \in [Employees -> Employee]
<1>1. employees \in [Employees -> Employee]
  BY DEF IInv, TypeOK
<1> QED BY <1>1 DEF EmployeeSaved, Employee, Opt

LEMMA RecordSavedTyped ==
    ASSUME IInv, NEW a \in RecordIds, RecordSaved(a)
    PROVE  /\ records' \in [RecordIds -> Opt(AttendanceRecord)]
           /\ \A b \in RecordIds : records[b] # None =>
                  /\ records'[b] # None /\ records'[b].employee = records[b].employee
                  /\ records'[b].date = records[b].date
<1>1. records \in [RecordIds -> Opt(AttendanceRecord)]
  BY DEF IInv, TypeOK
<1>2. ASSUME NEW e \in Employees, NEW d \in Dates, a \in NextId(records),
             records' = [records EXCEPT ![a] = [employee |-> e, date |-> d,
                                                approval |-> "pending"]]
      PROVE  /\ records' \in [RecordIds -> Opt(AttendanceRecord)]
             /\ \A b \in RecordIds : records[b] # None =>
                    /\ records'[b] # None /\ records'[b].employee = records[b].employee
                    /\ records'[b].date = records[b].date
  <2>1. PICK row : row = [employee |-> e, date |-> d, approval |-> "pending"]
    OBVIOUS
  <2>2. row \in AttendanceRecord
    BY <2>1 DEF AttendanceRecord, ApprovalStatus
  <2>3. records' = [records EXCEPT ![a] = row] /\ records[a] = None
    BY <1>2, <2>1 DEF NextId
  <2> QED BY <1>1, <2>2, <2>3 DEF Opt
<1>3. ASSUME NEW s \in ApprovalStatus, records[a] # None,
             records' = [records EXCEPT ![a].approval = s]
      PROVE  /\ records' \in [RecordIds -> Opt(AttendanceRecord)]
             /\ \A b \in RecordIds : records[b] # None =>
                    /\ records'[b] # None /\ records'[b].employee = records[b].employee
                    /\ records'[b].date = records[b].date
  <2>1. records[a] \in AttendanceRecord
    BY <1>1, <1>3 DEF Opt
  <2>2. PICK row : row = [records[a] EXCEPT !.approval = s]
    OBVIOUS
  <2>3. /\ row \in AttendanceRecord /\ row.employee = records[a].employee
        /\ row.date = records[a].date
    BY <2>1, <2>2 DEF AttendanceRecord
  <2>4. row # None
    BY <2>3, RowsAssumption
  <2>5. records' = [records EXCEPT ![a] = row]
    BY <1>3, <2>2
  <2> QED BY <1>1, <2>3, <2>4, <2>5 DEF Opt
<1> QED BY <1>2, <1>3 DEF RecordSaved

LEMMA LeaveSavedTyped ==
    ASSUME IInv, NEW q \in LeaveIds, LeaveSaved(q)
    PROVE  /\ leaves' \in [LeaveIds -> Opt(LeaveRequest)]
           /\ \A r \in LeaveIds : leaves[r] # None =>
                  leaves'[r] # None /\ (leaves[r].status # "pending" => leaves'[r].status # "pending")
<1>1. leaves \in [LeaveIds -> Opt(LeaveRequest)]
  BY DEF IInv, TypeOK
<1>2. ASSUME NEW e \in Employees, NEW d \in Dates, NEW c \in Dates, q \in NextId(leaves),
             leaves' = [leaves EXCEPT ![q] = [employee |-> e, from |-> d, to |-> c,
                                              status |-> "pending"]]
      PROVE  /\ leaves' \in [LeaveIds -> Opt(LeaveRequest)]
             /\ \A r \in LeaveIds : leaves[r] # None =>
                    leaves'[r] # None /\ (leaves[r].status # "pending" => leaves'[r].status # "pending")
  <2>1. PICK row : row = [employee |-> e, from |-> d, to |-> c, status |-> "pending"]
    OBVIOUS
  <2>2. row \in LeaveRequest
    BY <2>1 DEF LeaveRequest, ApprovalStatus
  <2>3. leaves' = [leaves EXCEPT ![q] = row] /\ leaves[q] = None
    BY <1>2, <2>1 DEF NextId
  <2> QED BY <1>1, <2>2, <2>3 DEF Opt
<1>3. ASSUME NEW s \in {"approved", "rejected"}, leaves[q] # None,
             leaves' = [leaves EXCEPT ![q].status = s]
      PROVE  /\ leaves' \in [LeaveIds -> Opt(LeaveRequest)]
             /\ \A r \in LeaveIds : leaves[r] # None =>
                    leaves'[r] # None /\ (leaves[r].status # "pending" => leaves'[r].status # "pending")
  <2>1. leaves[q] \in LeaveRequest
    BY <1>1, <1>3 DEF Opt
  <2>2. PICK row : row = [leaves[q] EXCEPT !.status = s]
    OBVIOUS
  <2>3. row \in LeaveRequest /\ row.status # "pending"
    BY <2>1, <2>2 DEF LeaveRequest, ApprovalStatus
  <2>4. row # None
    BY <2>3, RowsAssumption
  <2>5. leaves' = [leaves EXCEPT ![q] = row]
    BY <1>3, <2>2
  <2> QED BY <1>1, <2>3, <2>4, <2>5 DEF Opt
<1> QED BY <1>2, <1>3 DEF LeaveSaved

LEMMA DaySavedTyped ==
    ASSUME IInv, NEW e \in Employees, NEW d \in Dates, DaySaved(e, d)
    PROVE  days' \in [Employees -> [Dates -> Day]]
<1>1. days \in [Employees -> [Dates -> Day]]
  BY DEF IInv, TypeOK
<1> QED BY <1>1 DEF DaySaved

LEMMA SavesTyped ==
    ASSUME IInv, Saves
    PROVE  /\ users' \in [Users -> User] /\ employees' \in [Employees -> Employee]
           /\ records' \in [RecordIds -> Opt(AttendanceRecord)]
           /\ leaves' \in [LeaveIds -> Opt(LeaveRequest)]
           /\ days' \in [Employees -> [Dates -> Day]]
           /\ Granted' /\ Onward /\ Meanwhile
<1>0. /\ users \in [Users -> User] /\ employees \in [Employees -> Employee]
      /\ records \in [RecordIds -> Opt(AttendanceRecord)]
      /\ leaves \in [LeaveIds -> Opt(LeaveRequest)]
      /\ days \in [Employees -> [Dates -> Day]] /\ Granted
  BY DEF IInv, TypeOK
<1>1. ASSUME NEW u \in Users, UserSaved(u)
      PROVE  /\ users' \in [Users -> User] /\ Granted' /\ Meanwhile
             /\ UNCHANGED <<employees, records, leaves, days>>
  BY <1>1, UserSavedTyped DEF UserSaved
<1>2. ASSUME NEW e \in Employees, EmployeeSaved(e)
      PROVE  /\ employees' \in [Employees -> Employee] /\ Meanwhile
             /\ UNCHANGED <<users, records, leaves, days>>
  BY <1>2, EmployeeSavedTyped DEF EmployeeSaved
<1>3. ASSUME NEW a \in RecordIds, RecordSaved(a)
      PROVE  /\ records' \in [RecordIds -> Opt(AttendanceRecord)] /\ Meanwhile
             /\ \A b \in RecordIds : records[b] # None =>
                    /\ records'[b] # None /\ records'[b].employee = records[b].employee
                    /\ records'[b].date = records[b].date
             /\ UNCHANGED <<users, employees, leaves, days>>
  BY <1>3, RecordSavedTyped DEF RecordSaved
<1>4. ASSUME NEW q \in LeaveIds, LeaveSaved(q)
      PROVE  /\ leaves' \in [LeaveIds -> Opt(LeaveRequest)] /\ Meanwhile
             /\ \A r \in LeaveIds : leaves[r] # None =>
                    leaves'[r] # None /\ (leaves[r].status # "pending" => leaves'[r].status # "pending")
             /\ UNCHANGED <<users, employees, records, days>>
  BY <1>4, LeaveSavedTyped DEF LeaveSaved
<1>5. ASSUME NEW e \in Employees, NEW d \in Dates, DaySaved(e, d)
      PROVE  /\ days' \in [Employees -> [Dates -> Day]] /\ Meanwhile
             /\ UNCHANGED <<users, employees, records, leaves>>
  BY <1>5, DaySavedTyped DEF DaySaved
<1> QED BY <1>0, <1>1, <1>2, <1>3, <1>4, <1>5 DEF Saves, Onward, Granted

LEMMA Overtaken ==
    ASSUME NEW t, Lasts(t), t.at # "idle", NEW n, n = [t EXCEPT !.calm = FALSE]
    PROVE  Sound(n) /\ n.at = t.at
<1>1. /\ Known(t) /\ OverviewLasts(t) /\ MissingLasts(t) /\ ListLasts(t) /\ MineLasts(t)
      /\ NoticeLasts(t) /\ NotificationLasts(t)
  BY DEF Lasts, Idle
<1>2. /\ DOMAIN n = DOMAIN t /\ n.calm = FALSE
      /\ \A x \in DOMAIN t : x # "calm" => n[x] = t[x]
  BY <1>1 DEF Known
<1>3. Known(n)
  BY <1>1, <1>2 DEF Known
<1>4. n.at = t.at
  BY <1>1, <1>2 DEF Known
<1>5. OverviewLasts(n)
  BY <1>1, <1>2, <1>4 DEF OverviewLasts
<1>6. MissingLasts(n)
  BY <1>1, <1>2, <1>4 DEF MissingLasts
<1>7. ListLasts(n) /\ MineLasts(n) /\ NoticeLasts(n) /\ NotificationLasts(n)
  BY <1>1, <1>2, <1>4 DEF ListLasts, MineLasts, NoticeLasts, NotificationLasts
<1> QED BY <1>2, <1>3, <1>4, <1>5, <1>6, <1>7 DEF Sound, Lasts, Fresh

LEMMA SavesKeep ==
    ASSUME IInv, Saves, UNCHANGED <<notices, notifications>>
    PROVE  IInv'
<1>1. /\ users' \in [Users -> User] /\ employees' \in [Employees -> Employee]
      /\ records' \in [RecordIds -> Opt(AttendanceRecord)]
      /\ leaves' \in [LeaveIds -> Opt(LeaveRequest)]
      /\ days' \in [Employees -> [Dates -> Day]]
      /\ Granted' /\ Onward /\ Meanwhile
  BY SavesTyped
<1>2. task' = [h \in Handlers |-> IF task[h].at = "idle" THEN Idle
                                  ELSE [task[h] EXCEPT !.calm = FALSE]]
  BY <1>1 DEF Meanwhile, At
<1>3. ASSUME NEW g \in Handlers
      PROVE  Lasts(task[g])' /\ Fresh(task[g])'
  <2>1. PICK t : t = task[g]
    OBVIOUS
  <2>2. PICK n : n = task'[g]
    OBVIOUS
  <2>3. Lasts(t)
    BY <2>1 DEF IInv
  <2>4. CASE t.at = "idle"
    <3>1. n = Idle
      BY <1>2, <2>1, <2>2, <2>4
    <3> QED BY <2>2, <3>1 DEF Lasts, Fresh, Idle
  <2>5. CASE t.at # "idle"
    <3>1. n = [t EXCEPT !.calm = FALSE]
      BY <1>2, <2>1, <2>2, <2>5
    <3>2. Lasts(n) /\ n.calm = FALSE
      <4>1. Sound(n)
        BY <2>3, <2>5, <3>1, Overtaken
      <4>2. "calm" \in DOMAIN t
        BY <2>3, <2>5 DEF Lasts, Known, Idle
      <4> QED BY <3>1, <4>1, <4>2 DEF Sound
    <3>3. Lasts(n)'
      BY <1>1, <3>2, LastsStays
    <3>4. Fresh(n)'
      BY <3>2 DEF Fresh
    <3> QED BY <2>2, <3>3, <3>4
  <2> QED BY <2>4, <2>5
<1>4. Framed'
  BY <1>2 DEF IInv, Framed
<1>5. \A g \in Handlers : ~ At(g, "idle")' => task'[g].viewer \in Users /\ task'[g].grants \in Grants
  BY <1>3 DEF At, Lasts, Known, Idle
<1>6. load' \in 0 .. MaxLoad
  BY <1>1, ReportsAssumption DEF Meanwhile, Loaded, Cost, IInv, TypeOK
<1>7. notices' \in [NoticeIds -> Opt(Notice)] /\ \A n \in NotificationIds : notifications'[n] \in Opt(Notification)
  BY DEF IInv, TypeOK
<1>8. TypeOK'
  BY <1>1, <1>5, <1>6, <1>7 DEF TypeOK
<1> QED BY <1>1, <1>3, <1>4, <1>8 DEF IInv

-----------------------------------------------------------------------------
(***************************************************************************)
(* The invariant is inductive                                              *)
(***************************************************************************)
LEMMA IInvInit == Init => IInv
<1> SUFFICES ASSUME Init PROVE IInv
  OBVIOUS
<1>1. PICK db \in Seeds : /\ users = db.users /\ employees = db.employees /\ records = db.records
                          /\ leaves = db.leaves /\ days = db.days
  BY DEF Init, ReportsInit
<1>2. /\ users \in [Users -> User] /\ Granted
      /\ employees \in [Employees -> Employee]
      /\ records \in [RecordIds -> Opt(AttendanceRecord)]
      /\ leaves \in [LeaveIds -> Opt(LeaveRequest)]
      /\ days \in [Employees -> [Dates -> Day]]
  BY <1>1, RowsAssumption DEF Granted
<1>3. \A h \in Handlers : task[h] = Idle /\ At(h, "idle")
  BY DEF Init, ReportsInit, At, Idle
<1>4. load \in 0 .. MaxLoad
  BY ReportsAssumption DEF Init, ReportsInit
<1>5. /\ notices \in [NoticeIds -> Opt(Notice)]
      /\ \A n \in NotificationIds : notifications[n] \in Opt(Notification)
      /\ notifications = [n \in NotificationIds |-> notifications[n]]
  BY AnnouncementsAssumption DEF Init, Opt
<1>6. task = [h \in Handlers |-> task[h]]
  BY DEF Init, ReportsInit
<1>7. \A h \in Handlers : Lasts(task[h]) /\ Fresh(task[h])
  BY <1>3 DEF Lasts, Fresh, Idle
<1> QED BY <1>2, <1>3, <1>4, <1>5, <1>6, <1>7 DEF IInv, TypeOK, Framed

LEMMA ProceedKeeps ==
    ASSUME IInv, NEW h \in Handlers, Proceed(h)
    PROVE  IInv'
<1>0. /\ load \in 0 .. MaxLoad /\ notices \in [NoticeIds -> Opt(Notice)]
      /\ notifications = [m \in NotificationIds |-> notifications[m]]
      /\ \A m \in NotificationIds : notifications[m] \in Opt(Notification)
  BY DEF IInv, TypeOK, Framed
<1>1. CASE Report(h) /\ UNCHANGED <<notices, notifications>>
  <2>1. PICK n : Moves(h, n) /\ Sound(n)
    BY <1>1, ReportSound DEF Turns
  <2>2. UNCHANGED <<sources, load>>
    BY <1>1 DEF Report, OverviewQuery, PendingApprovals, FindStaff, FindRecords, FindLeaves,
                ResolveDay, ShowList, FindProfile, FindMyRecords, FindMyLeave, Goto
  <2> QED BY <1>0, <1>1, <2>1, <2>2, Stepping
<1>2. CASE SaveNotice(h)
  BY <1>0, <1>2, SaveNoticeTyped, IdleSound, Stepping DEF SaveNotice, Goto
<1>3. CASE FindReader(h) \/ ShowNotices(h) \/ Answered(h)
  <2>1. \E n : Moves(h, n) /\ Sound(n)
    BY <1>3, FindReaderSound, ShowNoticesSound, IdleSound DEF Answered, Continue, Goto, Moves, Turns
  <2>2. UNCHANGED <<sources, load, notices, notifications>>
    BY <1>3 DEF FindReader, ShowNotices, Answered, Continue, Goto
  <2> QED BY <1>0, <2>1, <2>2, Stepping
<1>4. CASE FindNamed(h) \/ FindHolders(h)
  <2>1. PICK n : Moves(h, n) /\ Sound(n)
    BY <1>4, FindNamedSound, FindHoldersSound DEF GoesOn
  <2>2. UNCHANGED <<sources, load, notices, notifications>>
    BY <1>4 DEF FindNamed, FindHolders, Continue, Goto
  <2> QED BY <1>0, <2>1, <2>2, Stepping
<1>5. CASE SaveNotifications(h)
  BY <1>0, <1>5, SaveNotificationsTyped, IdleSound, Stepping DEF SaveNotifications, Goto
<1>6. CASE SaveMark(h)
  BY <1>0, <1>6, SaveMarkTyped, IdleSound, Stepping DEF SaveMark, Goto
<1> QED BY <1>1, <1>2, <1>3, <1>4, <1>5, <1>6 DEF Proceed

LEMMA RequestKeeps ==
    ASSUME IInv, NEW h \in Handlers, NEW u \in Users, Request(h, u)
    PROVE  IInv'
<1>0. /\ notices \in [NoticeIds -> Opt(Notice)]
      /\ notifications = [m \in NotificationIds |-> notifications[m]]
      /\ \A m \in NotificationIds : notifications[m] \in Opt(Notification)
  BY DEF IInv, TypeOK, Framed
<1>1. /\ UNCHANGED <<sources, notices, notifications>> /\ load' \in 0 .. MaxLoad
      /\ \E n : Moves(h, n) /\ Sound(n)
  <2>1. CASE Ask(h, u) /\ UNCHANGED <<notices, notifications>>
    BY <2>1, AskSound DEF Asked
  <2>2. CASE RequestNotice(h, u)
    BY <2>2, RequestNoticeSound DEF Asked
  <2>3. ASSUME NEW dto \in NotificationDtos, CreateNotifications(h, u, dto)
        PROVE  /\ UNCHANGED <<sources, notices, notifications>> /\ load' \in 0 .. MaxLoad
               /\ \E n : Moves(h, n) /\ Sound(n)
    BY <2>3, CreateNotificationsSound
  <2>4. ASSUME NEW id \in NotificationIds, MarkAsRead(h, u, id)
        PROVE  /\ UNCHANGED <<sources, notices, notifications>> /\ load' \in 0 .. MaxLoad
               /\ \E n : Moves(h, n) /\ Sound(n)
    BY <2>4, MarkAsReadSound
  <2> QED BY <2>1, <2>2, <2>3, <2>4 DEF Request, RequestNotification
<1> QED BY <1>0, <1>1, Stepping

LEMMA IInvNext == IInv /\ [Next]_vars => IInv'
<1> SUFFICES ASSUME IInv, [Next]_vars PROVE IInv'
  OBVIOUS
<1>1. CASE UNCHANGED vars
  <2>1. UNCHANGED sources /\ UNCHANGED <<task, load, notices, notifications>>
    BY <1>1 DEF vars
  <2>2. ASSUME NEW g \in Handlers PROVE Lasts(task[g])' /\ Fresh(task[g])'
    <3>1. PICK t : t = task[g] /\ t = task'[g]
      BY <2>1
    <3>2. Lasts(t)' /\ Fresh(t)'
      BY <2>1, <3>1, StillOnward, LastsStays, FreshStays DEF IInv
    <3> QED BY <3>1, <3>2
  <2> QED BY <2>1, <2>2 DEF IInv, TypeOK, Granted, Framed, At, sources
<1>2. CASE \E h \in Handlers : Proceed(h)
  BY <1>2, ProceedKeeps
<1>3. CASE \E h \in Handlers : \E u \in Users : Request(h, u)
  BY <1>3, RequestKeeps
<1>4. CASE Saves /\ UNCHANGED <<notices, notifications>>
  BY <1>4, SavesKeep
<1> QED BY <1>1, <1>2, <1>3, <1>4 DEF Next

LEMMA Invariance == Spec => []IInv
BY IInvInit, IInvNext, PTL DEF Spec

\* Every row, notice and notification has its type, and whoever is answered is a user with
\* permissions that a user may have.
THEOREM TypeCorrect == Spec => []TypeOK
<1>1. IInv => TypeOK
  BY DEF IInv
<1> QED BY <1>1, Invariance, PTL

-----------------------------------------------------------------------------
(***************************************************************************)
(* What is told is true                                                    *)
(***************************************************************************)
\* An overview never asks for the approval of leave that it counts as decided, whatever is
\* saved between its queries.
THEOREM DecidedStaysDecided == Spec => []DecidedIsNotPending
<1>1. ASSUME IInv PROVE DecidedIsNotPending
  <2> SUFFICES ASSUME NEW h \in Handlers, At(h, "overview"),
                      {"leave"} \subseteq DOMAIN task[h].got \cap DOMAIN task[h].pages,
                      NEW q \in task[h].pages["leave"], q \in DOMAIN task[h].got["leave"]
               PROVE  task[h].got["leave"][q] = "pending"
    BY DEF DecidedIsNotPending
  <2>1. PICK t : t = task[h]
    OBVIOUS
  <2>2. t.at = "overview"
    BY <2>1 DEF At
  <2>3. OverviewLasts(t)
    BY <1>1, <2>1, <2>2, Doing
  <2> QED BY <2>1, <2>2, <2>3 DEF OverviewLasts
<1> QED BY <1>1, Invariance, PTL

LEMMA NotMissing == IInv => RecordedIsNotMissing
<1> SUFFICES ASSUME IInv, NEW h \in Handlers, At(h, "missing_days")
             PROVE  task[h].missing \cap task[h].recorded = {}
  BY DEF RecordedIsNotMissing
<1>1. PICK t : t = task[h]
  OBVIOUS
<1>2. t.at = "missing_days"
  BY <1>1 DEF At
<1>3. MissingLasts(t)
  BY <1>1, <1>2, Doing
<1> QED BY <1>1, <1>2, <1>3 DEF MissingLasts

LEMMA MissingExactly == IInv => MissingIsExact
<1> SUFFICES ASSUME IInv, NEW h \in Handlers, At(h, "missing_days"), task[h].calm,
                    task[h].todo = {},
                    NEW f, f = task[h].filter
             PROVE  task[h].missing =
                        {p \in Employees \X (f.start .. f.end) :
                            /\ employees[p[1]].status \in {"active", "probation"}
                            /\ InScope(f, p[1]) /\ days[p[1]][p[2]] = "working"
                            /\ ~ \/ \E a \in RecordIds : /\ records[a] # None
                                                        /\ records[a].employee = p[1]
                                                        /\ records[a].date = p[2]
                                 \/ \E q \in LeaveIds : /\ leaves[q] # None
                                                        /\ leaves[q].employee = p[1]
                                                        /\ leaves[q].status = "approved"
                                                        /\ leaves[q].from <= p[2]
                                                        /\ p[2] <= leaves[q].to}
  BY DEF MissingIsExact
<1>1. PICK t : t = task[h]
  OBVIOUS
<1>2. t.at = "missing_days"
  BY <1>1 DEF At
<1>3. MissingLasts(t) /\ Fresh(t)
  BY <1>1, <1>2, Doing
<1>4. /\ f.start \in Dates /\ f.end \in Dates /\ t.staff = AtWork(f)
      /\ t.missing \subseteq t.staff \X Window(f)
      /\ \A p \in t.staff \X Window(f) :
             p \in t.missing <=> Due(f, p) /\ days[p[1]][p[2]] = "working"
  BY <1>1, <1>2, <1>3 DEF MissingLasts, Fresh, MissingFresh
<1>5. Window(f) = f.start .. f.end
  <2>1. f.start .. f.end \subseteq Dates
    BY <1>4, ReportsAssumption
  <2>2. Dates \subseteq Nat
    BY ReportsAssumption
  <2>3. \A d : d \in Window(f) <=> d \in f.start .. f.end
    <3>1. ASSUME NEW d \in Window(f) PROVE d \in f.start .. f.end
      BY <1>4, <2>2 DEF Window
    <3>2. ASSUME NEW d \in f.start .. f.end PROVE d \in Window(f)
      BY <1>4, <2>1, <2>2 DEF Window
    <3> QED BY <3>1, <3>2
  <2> QED BY <2>3
<1>6. \A e \in Employees : e \in AtWork(f) <=>
          employees[e].status \in {"active", "probation"} /\ InScope(f, e)
  BY DEF AtWork, Staff
<1>7. AtWork(f) \subseteq Employees
  BY DEF AtWork, Staff
<1>8. ASSUME NEW e \in Employees, NEW d \in f.start .. f.end
      PROVE  OnRecord(<<e, d>>) <=> \E a \in RecordIds : /\ records[a] # None
                                                        /\ records[a].employee = e
                                                        /\ records[a].date = d
  BY DEF OnRecord
<1>9. ASSUME NEW p \in Employees \X (f.start .. f.end)
      PROVE  p \in t.missing <=>
                 /\ employees[p[1]].status \in {"active", "probation"}
                 /\ InScope(f, p[1]) /\ days[p[1]][p[2]] = "working"
                 /\ ~ \/ \E a \in RecordIds : /\ records[a] # None
                                             /\ records[a].employee = p[1]
                                             /\ records[a].date = p[2]
                      \/ \E q \in LeaveIds : /\ leaves[q] # None
                                             /\ leaves[q].employee = p[1]
                                             /\ leaves[q].status = "approved"
                                             /\ leaves[q].from <= p[2]
                                             /\ p[2] <= leaves[q].to
  <2>1. PICK e \in Employees, d \in f.start .. f.end : p = <<e, d>>
    OBVIOUS
  <2>2. p[1] = e /\ p[2] = d
    BY <2>1
  <2>3. p \in t.missing <=> e \in AtWork(f) /\ Due(f, p) /\ days[e][d] = "working"
    BY <1>4, <1>5, <2>1, <2>2
  <2>4. e \in AtWork(f) => (Due(f, p) <=> ~ OnRecord(<<e, d>>) /\ ~ OnLeave(e, d))
    BY <1>5, <2>1, <2>2 DEF Due
  <2>5. OnRecord(<<e, d>>) <=> \E a \in RecordIds : /\ records[a] # None
                                                   /\ records[a].employee = e
                                                   /\ records[a].date = d
    BY <1>8
  <2>6. OnLeave(e, d) <=> \E q \in LeaveIds : /\ leaves[q] # None
                                              /\ leaves[q].employee = e
                                              /\ leaves[q].status = "approved"
                                              /\ leaves[q].from <= d
                                              /\ d <= leaves[q].to
    BY DEF OnLeave
  <2> QED BY <1>6, <2>2, <2>3, <2>4, <2>5, <2>6, Zenon
<1>10. t.missing \subseteq Employees \X (f.start .. f.end)
  BY <1>4, <1>5, <1>7
<1> QED BY <1>1, <1>9, <1>10

LEMMA OwnOnly == IInv => OwnRecordsOnly
<1> SUFFICES ASSUME IInv, NEW h \in Handlers, At(h, "my_shown"), NEW t, t = task[h]
             PROVE  /\ Cardinality(t.shown) <= 1
                    /\ t.calm => \A e \in t.shown : employees[e].email = EmailOf[t.viewer]
  BY DEF OwnRecordsOnly
<1>1. t.at = "my_shown"
  BY DEF At
<1>2. MineLasts(t) /\ Fresh(t)
  BY <1>1, Doing
<1>3. PICK e : t.shown \subseteq {e}
  BY <1>1, <1>2 DEF MineLasts
<1>4. t.shown = {} \/ t.shown = {e}
  BY <1>3
<1>5. Cardinality(t.shown) <= 1
  <2>1. Cardinality({}) = 0 /\ Cardinality({e}) = 1
    BY FS_EmptySet, FS_Singleton
  <2> QED BY <1>4, <2>1
<1> QED BY <1>1, <1>2, <1>5 DEF Fresh, MineFresh

LEMMA ListsTheSame == IInv => ListsAgree
<1> SUFFICES ASSUME IInv, NEW h \in Handlers, At(h, "listed"), task[h].calm,
                    task[h].kind = "leave"
             PROVE  task[h].rows = LeaveRequestQuery(task[h].filter, task[h].statuses)
  BY DEF ListsAgree
<1>1. PICK t : t = task[h]
  OBVIOUS
<1>2. t.at = "listed"
  BY <1>1 DEF At
<1>3. Fresh(t)
  BY <1>1, <1>2, Doing
<1> QED BY <1>1, <1>2, <1>3 DEF Fresh, ListFresh

\* What the services tell of attendance and leave is true: nobody is missed on a day that was
\* recorded; undisturbed, the report of missing attendance is exact; one's own records are
\* one's own; and the two queries for leave find the same.
THEOREM TrulyTold == Spec => []AttendanceIsTold
<1>1. IInv => AttendanceIsTold
  BY NotMissing, MissingExactly, OwnOnly, ListsTheSame DEF AttendanceIsTold
<1> QED BY <1>1, Invariance, PTL

LEMMA ReaderInAudience ==
    ASSUME IInv, NEW t, Known(t), KnownNow(t), t.at = "notice_list", NoticeFresh(t),
           NEW aim \in CreateNoticeDto
    PROVE  ForReader(aim, t) <=> t.viewer \in Audience(aim)
<1>1. PICK u \in Users : u = t.viewer
  BY DEF Known
<1>2. PICK m : m = Max(Profiles(u))
  OBVIOUS
<1>3. /\ m \in Employees /\ employees[m].email = EmailOf[u]
      /\ \A e \in Employees : e > m => employees[e].email # EmailOf[u]
      /\ t.reader = employees[m]
  BY <1>1, <1>2, NewestProfile DEF NoticeFresh
<1>4. u \in Holders(aim.targetPermissions)
          <=> \E p \in aim.targetPermissions : HasPermission(t.grants, p)
  BY <1>1 DEF Holders, Active, KnownNow
<1>5. u \in (IF aim.targetPermissions = {} THEN Users ELSE Holders(aim.targetPermissions))
          <=> \/ aim.targetPermissions = {}
              \/ \E p \in aim.targetPermissions : HasPermission(t.grants, p)
  BY <1>4
<1>6. aim.targetUsers \in {{}, {u} \cup aim.targetUsers}
          <=> (aim.targetUsers = {} \/ u \in aim.targetUsers)
  OBVIOUS
<1> DEFINE Newest1(v) ==
               {e \in Employees : /\ employees[e].email = EmailOf[v]
                                  /\ aim.branch # None => aim.branch = employees[e].branch
                                  /\ aim.department # None => aim.department = employees[e].department
                                  /\ \A later \in Employees :
                                         later > e => employees[later].email # EmailOf[v]}
<1>7. ASSUME NEW e \in Newest1(u) PROVE e = m
  <2>1. /\ e \in Employees /\ employees[e].email = EmailOf[u]
        /\ \A later \in Employees : later > e => employees[later].email # EmailOf[u]
    OBVIOUS
  <2> HIDE DEF Newest1
  <2>2. e \in Nat /\ m \in Nat
    BY <1>3, <2>1, ReportsAssumption
  <2>3. ~ m > e /\ ~ e > m
    BY <1>3, <2>1
  <2> QED BY <2>2, <2>3
<1>8. m \in Newest1(u) <=>
          /\ aim.branch # None => aim.branch = employees[m].branch
          /\ aim.department # None => aim.department = employees[m].department
  BY <1>3
<1>9. Newest1(u) # {} <=>
          /\ aim.branch \in {None, t.reader.branch}
          /\ aim.department \in {None, t.reader.department}
  <2> HIDE DEF Newest1
  <2>1. Newest1(u) # {} <=> m \in Newest1(u)
    BY <1>7
  <2> QED BY <1>3, <1>8, <2>1
<1>10. u \in Audience(aim) <=>
           /\ u \in (IF aim.targetPermissions = {} THEN Users ELSE Holders(aim.targetPermissions))
           /\ aim.targetUsers \in {{}, {u} \cup aim.targetUsers} /\ Newest1(u) # {}
  <2>1. Audience(aim) =
            {v \in IF aim.targetPermissions = {} THEN Users ELSE Holders(aim.targetPermissions) :
                aim.targetUsers \in {{}, {v} \cup aim.targetUsers} /\ Newest1(v) # {}}
    BY Zenon DEF Audience
  <2> HIDE DEF Newest1
  <2> QED BY <2>1
<1> HIDE DEF Newest1
<1> QED BY <1>1, <1>5, <1>6, <1>9, <1>10 DEF ForReader

\* Nothing but the reading of the list shows notices.
LEMMA ShownByReading ==
    ASSUME IInv, [Next]_vars, NEW h \in Handlers, At(h, "notice_list"), At(h, "notice_shown")'
    PROVE  ShowNotices(h)
<1>1. task = [g \in Handlers |-> task[g]] /\ task[h].at = "notice_list" /\ task'[h].at = "notice_shown"
  BY DEF IInv, Framed, At
<1>2. ASSUME NEW g \in Handlers, g # h, NEW n, Moves(g, n) PROVE FALSE
  <2>1. task'[h] = task[h]
    BY <1>1, <1>2 DEF Moves
  <2> QED BY <1>1, <2>1
<1>3. ASSUME NEW g \in Handlers, Proceed(g) PROVE g = h /\ ShowNotices(h)
  <2>1. \E n : Moves(g, n)
    BY <1>3 DEF Proceed, Report, OverviewQuery, PendingApprovals, FindStaff, FindRecords, FindLeaves,
                ResolveDay, ShowList, FindProfile, FindMyRecords, FindMyLeave, SaveNotice, FindReader,
                ShowNotices, Answered, FindNamed, FindHolders, SaveNotifications, SaveMark, Continue,
                Goto, Moves
  <2>2. g = h
    BY <1>2, <2>1
  <2> QED BY <1>1, <1>3, <2>2 DEF Proceed, Report, OverviewQuery, PendingApprovals, FindStaff,
          FindRecords, FindLeaves, ResolveDay, ShowList, FindProfile, FindMyRecords, FindMyLeave,
          SaveNotice, FindReader, ShowNotices, Answered, FindNamed, FindHolders, SaveNotifications,
          SaveMark, At
<1>4. ASSUME NEW g \in Handlers, NEW u \in Users, Request(g, u) PROVE FALSE
  <2>1. (\E n : Moves(g, n)) /\ At(g, "idle")
    BY <1>4 DEF Request, Ask, AskDashboard, AskAttendance, AskLeave, GetOverview, List,
                GetMyAttendance, GetMissingAttendance, GetMyLeaveRequests, RequestNotice, CreateNotice,
                UpdateStatus, GetMyNotices, RequestNotification, CreateNotifications, MarkAsRead,
                Begin, Arrive, Moves
  <2> QED BY <1>1, <1>2, <2>1 DEF At
<1>5. ASSUME Saves PROVE FALSE
  <2>1. Meanwhile
    BY <1>5, SavesTyped
  <2>2. task'[h] = [task[h] EXCEPT !.calm = FALSE]
    BY <1>1, <2>1 DEF Meanwhile, At
  <2> QED BY <1>1, <2>2
<1>6. ASSUME UNCHANGED vars PROVE FALSE
  BY <1>1, <1>6 DEF vars
<1> QED BY <1>3, <1>4, <1>5, <1>6 DEF Next

\* A reader who is not overtaken is shown just the published notices aimed at him.
THEOREM AudienceReached == Spec => NoticesReachTheirAudience
<1>1. ASSUME IInv, [Next]_vars, NEW h \in Handlers,
             At(h, "notice_list"), At(h, "notice_shown")', task[h].calm
      PROVE  task'[h].shown = {n \in NoticeIds : /\ notices[n] # None
                                                 /\ notices[n].status = "published"
                                                 /\ task[h].viewer \in Audience(notices[n].aim)}
  <2>1. PICK t : t = task[h]
    OBVIOUS
  <2>2. t.at = "notice_list" /\ t.calm
    BY <1>1, <2>1 DEF At
  <2>3. Known(t) /\ KnownNow(t) /\ NoticeFresh(t) /\ NoticeLasts(t)
    BY <1>1, <2>1, <2>2, Doing DEF Fresh
  <2>4. ShowNotices(h)
    BY <1>1, ShownByReading
  <2>5. PICK shown : shown = {n \in NoticeIds : /\ notices[n] # None
                                                /\ notices[n].status = "published"
                                                /\ ForReader(notices[n].aim, t)}
    OBVIOUS
  <2>6. task' = [task EXCEPT ![h] = [t EXCEPT !.at = "notice_shown", !.shown = shown]]
    BY <2>1, <2>4, <2>5 DEF ShowNotices, Continue, Goto
  <2>7. task'[h].shown = shown
    <3>1. h \in DOMAIN task
      BY <1>1 DEF IInv, Framed
    <3> QED BY <2>2, <2>3, <2>6, <3>1 DEF Known, NoticeLasts
  <2>8. ASSUME NEW n \in NoticeIds, notices[n] # None
        PROVE  ForReader(notices[n].aim, t) <=> t.viewer \in Audience(notices[n].aim)
    <3>1. PICK aim : aim = notices[n].aim
      OBVIOUS
    <3>2. aim \in CreateNoticeDto
      BY <1>1, <2>8, <3>1 DEF IInv, TypeOK, Opt, Notice
    <3> QED BY <1>1, <2>2, <2>3, <3>1, <3>2, ReaderInAudience
  <2> QED BY <2>1, <2>5, <2>7, <2>8
<1>2. IInv /\ [Next]_vars => [ReadersAreServed]_vars
  BY <1>1 DEF ReadersAreServed
<1> QED BY <1>2, Invariance, PTL DEF Spec, NoticesReachTheirAudience

-----------------------------------------------------------------------------
(***************************************************************************)
(* One notification per request and recipient: the requests whose          *)
(* notifications are not saved yet are told apart from each other, and     *)
(* from those whose are                                                    *)
(***************************************************************************)
Saved == {n \in NotificationIds : notifications[n] # None}

\* Notifications are saved one after another.
Consecutive == Saved = 1 .. Cardinality(Saved)

SavedBefore == \A n \in Saved : notifications[n].batch < load

Unsaved ==
    \A h \in Handlers : Sending(task[h]) =>
        task[h].batch < load /\ \A n \in Saved : notifications[n].batch # task[h].batch

ToldApart ==
    \A g, h \in Handlers : g # h /\ Sending(task[g]) /\ Sending(task[h]) =>
        task[g].batch # task[h].batch

\* Whoever marks a notification as read saves it with its recipient.
Marks(t) ==
    /\ notifications[t.id] # None
    /\ t.row.recipient = notifications[t.id].recipient
    /\ t.row.batch = notifications[t.id].batch

MarkedAsSaved == \A h \in Handlers : task[h].at = "mark_save" => Marks(task[h])

NoteInv ==
    Consecutive /\ SavedBefore /\ Unsaved /\ ToldApart /\ MarkedAsSaved /\ NotifiedOnce

\* Nobody is notified, and nobody's notification is taken away.
NobodyNotified ==
    \A n \in NotificationIds :
        /\ notifications'[n] # None <=> notifications[n] # None
        /\ notifications[n] # None =>
               /\ notifications'[n].recipient = notifications[n].recipient
               /\ notifications'[n].batch = notifications[n].batch

Carried(g) ==
    \/ Quiet(task'[g])
    \/ Sending(task'[g]) /\ Sending(task[g]) /\ task'[g].batch = task[g].batch
    \/ /\ task'[g].at = "mark_save" /\ task'[g].id \in NotificationIds
       /\ Marks(task'[g])

Begun(g) == Sending(task'[g]) /\ task'[g].batch = load /\ load' > load

LEMMA NoteTypes ==
    ASSUME IInv
    PROVE  /\ load \in Nat
           /\ \A n \in Saved : notifications[n].batch \in Nat
           /\ \A h \in Handlers : Sending(task[h]) =>
                  /\ task[h].batch \in Nat /\ task[h].recipients \in Seq(Users)
                  /\ IsInjective(task[h].recipients)
           /\ \A h \in Handlers : task[h].at = "mark_save" => task[h].id \in NotificationIds
<1>1. load \in Nat
  BY ReportsAssumption DEF IInv, TypeOK
<1>2. \A n \in Saved : notifications[n].batch \in Nat
  BY DEF IInv, TypeOK, Saved, Opt, Notification
<1>3. ASSUME NEW h \in Handlers, Sending(task[h])
      PROVE  /\ task[h].batch \in Nat /\ task[h].recipients \in Seq(Users)
             /\ IsInjective(task[h].recipients)
  <2>1. PICK t : t = task[h]
    OBVIOUS
  <2>2. NotificationLasts(t) /\ t.at \in {"named", "holders", "notify"}
    BY <1>3, <2>1, Doing DEF Sending
  <2> QED BY <2>1, <2>2, ReportsAssumption DEF NotificationLasts
<1>4. ASSUME NEW h \in Handlers, task[h].at = "mark_save"
      PROVE  task[h].id \in NotificationIds
  <2>1. PICK t : t = task[h]
    OBVIOUS
  <2>2. NotificationLasts(t) /\ t.at = "mark_save"
    BY <1>4, <2>1, Doing
  <2> QED BY <2>1, <2>2 DEF NotificationLasts
<1> QED BY <1>1, <1>2, <1>3, <1>4

LEMMA NotesKept ==
    ASSUME IInv, NoteInv, IInv', NobodyNotified, load' >= load,
           \A g \in Handlers : Carried(g) \/ (Begun(g) /\ \A k \in Handlers : k # g => Carried(k))
    PROVE  NoteInv'
<1>0. /\ load \in Nat /\ load' \in Nat
      /\ \A n \in Saved : notifications[n].batch \in Nat
      /\ \A h \in Handlers : Sending(task[h]) => task[h].batch \in Nat
  <2>1. load' \in Nat
    BY ReportsAssumption DEF IInv, TypeOK
  <2> QED BY <2>1, NoteTypes
<1>1. Saved' = Saved
  BY DEF Saved, NobodyNotified
<1>2. /\ Saved \subseteq NotificationIds
      /\ \A n \in Saved : /\ notifications[n] # None
                          /\ notifications'[n].recipient = notifications[n].recipient
                          /\ notifications'[n].batch = notifications[n].batch
  BY DEF Saved, NobodyNotified
<1>3. Consecutive'
  BY <1>1 DEF NoteInv, Consecutive
<1>4. SavedBefore'
  BY <1>0, <1>1, <1>2 DEF NoteInv, SavedBefore
<1>5. Unsaved'
  <2> SUFFICES ASSUME NEW h \in Handlers, Sending(task'[h])
               PROVE  /\ task'[h].batch < load'
                      /\ \A n \in Saved' : notifications'[n].batch # task'[h].batch
    BY DEF Unsaved, Sending
  <2>1. CASE Sending(task[h]) /\ task'[h].batch = task[h].batch
    BY <1>0, <1>1, <1>2, <2>1 DEF NoteInv, Unsaved
  <2>2. CASE Begun(h)
    BY <1>0, <1>1, <1>2, <2>2 DEF NoteInv, SavedBefore, Begun
  <2> QED BY <2>1, <2>2 DEF Carried, Sending, Quiet
<1>6. ToldApart'
  <2> SUFFICES ASSUME NEW g \in Handlers, NEW h \in Handlers, g # h,
                      Sending(task'[g]), Sending(task'[h])
               PROVE  task'[g].batch # task'[h].batch
    BY DEF ToldApart, Sending
  <2>1. Carried(g) \/ Carried(h)
    OBVIOUS
  <2>2. \A k \in {g, h} : Carried(k) \/ Begun(k)
    OBVIOUS
  <2>3. ASSUME NEW k \in {g, h}, Carried(k)
        PROVE  /\ Sending(task[k]) /\ task'[k].batch = task[k].batch
               /\ task'[k].batch # load
    <3>1. Sending(task[k]) /\ task'[k].batch = task[k].batch
      BY <2>3 DEF Carried, Sending, Quiet
    <3> QED BY <1>0, <3>1 DEF NoteInv, Unsaved
  <2>4. CASE Carried(g) /\ Carried(h)
    BY <2>3, <2>4 DEF NoteInv, ToldApart
  <2>5. CASE Begun(g) \/ Begun(h)
    BY <2>1, <2>2, <2>3, <2>4, <2>5 DEF Begun
  <2> QED BY <2>2, <2>4, <2>5
<1>7. MarkedAsSaved'
  <2> SUFFICES ASSUME NEW h \in Handlers, task'[h].at = "mark_save"
               PROVE  /\ notifications'[task'[h].id] # None
                      /\ task'[h].row.recipient = notifications'[task'[h].id].recipient
                      /\ task'[h].row.batch = notifications'[task'[h].id].batch
    BY DEF MarkedAsSaved, Marks
  <2>1. task'[h].id \in NotificationIds /\ Marks(task'[h])
    BY DEF Carried, Begun, Sending, Quiet
  <2> QED BY <2>1 DEF Marks, NobodyNotified
<1>8. NotifiedOnce'
  <2> SUFFICES ASSUME NEW n \in NotificationIds, NEW m \in NotificationIds,
                      notifications'[n] # None, notifications'[m] # None,
                      notifications'[n].batch = notifications'[m].batch,
                      notifications'[n].recipient = notifications'[m].recipient
               PROVE  n = m
    BY DEF NotifiedOnce
  <2> QED BY DEF NobodyNotified, NoteInv, NotifiedOnce
<1> QED BY <1>3, <1>4, <1>5, <1>6, <1>7, <1>8 DEF NoteInv

LEMMA NoteInit == Init => NoteInv
<1> SUFFICES ASSUME Init PROVE NoteInv
  OBVIOUS
<1>1. Saved = {}
  BY DEF Init, Saved
<1>2. Cardinality({}) = 0
  BY FS_EmptySet
<1>3. \A h \in Handlers : ~ Sending(task[h]) /\ task[h].at # "mark_save"
  BY DEF Init, ReportsInit, Sending, Idle
<1>4. Consecutive
  BY <1>1, <1>2 DEF Consecutive
<1> QED BY <1>1, <1>3, <1>4
        DEF NoteInv, SavedBefore, Unsaved, ToldApart, MarkedAsSaved, NotifiedOnce, Saved

\* The notifications of one request, saved behind those there are.
LEMMA NotesSaved ==
    ASSUME IInv, NoteInv, IInv', NEW h \in Handlers, SaveNotifications(h)
    PROVE  NoteInv'
<1>1. PICK t : t = task[h]
  OBVIOUS
<1>2. Sending(t)
  BY <1>1 DEF SaveNotifications, At, Sending
<1>3. PICK r : r = t.recipients
  OBVIOUS
<1>4. PICK b : b = t.batch
  OBVIOUS
<1>5. /\ r \in Seq(Users) /\ IsInjective(r) /\ b \in Nat /\ load \in Nat
      /\ \A n \in Saved : notifications[n].batch \in Nat
      /\ \A g \in Handlers : Sending(task[g]) => task[g].batch \in Nat
      /\ \A g \in Handlers : task[g].at = "mark_save" => task[g].id \in NotificationIds
  BY <1>1, <1>2, <1>3, <1>4, NoteTypes
<1>6. PICK c : c = Cardinality(Saved)
  OBVIOUS
<1>7. c \in Nat /\ Saved = 1 .. c
  <2>1. Saved \subseteq NotificationIds
    BY DEF Saved
  <2>2. IsFiniteSet(Saved)
    BY <2>1, FS_Subset, AnnouncementsAssumption
  <2> QED BY <1>6, <2>2, FS_CardinalityType DEF NoteInv, Consecutive
<1>8. PICK k \in Nat : k = Len(r)
  BY <1>5
<1>9. /\ c + k \in NotificationIds
      /\ notifications' = [n \in NotificationIds |->
             IF n - c \in 1 .. k
             THEN [recipient |-> r[n - c], read |-> FALSE, batch |-> b]
             ELSE notifications[n]]
  BY <1>1, <1>3, <1>4, <1>6, <1>8 DEF SaveNotifications, Saved
<1>10. \A n \in 1 .. c + k : n \in NotificationIds
  <2>1. PICK last : last = Cardinality(NotificationIds) /\ NotificationIds = 1 .. last
    BY AnnouncementsAssumption
  <2>2. last \in Nat
    BY <2>1, FS_CardinalityType, AnnouncementsAssumption
  <2>3. c + k \in 1 .. last
    BY <1>9, <2>1
  <2>4. \A n \in 1 .. c + k : n \in 1 .. last
    BY <1>7, <1>8, <2>2, <2>3
  <2> QED BY <2>1, <2>4
<1>11. /\ task' = [task EXCEPT ![h] = Idle] /\ load' = load
       /\ task = [g \in Handlers |-> task[g]]
  BY DEF SaveNotifications, Goto, IInv, Framed
<1>12. /\ ~ Sending(task'[h]) /\ task'[h].at # "mark_save"
       /\ \A g \in Handlers : g # h => task'[g] = task[g]
  BY <1>11 DEF Sending, Idle
<1>13. ASSUME NEW n \in NotificationIds
       PROVE  \/ /\ n \in 1 .. c /\ n \in Saved /\ notifications'[n] = notifications[n]
              \/ /\ n \in c + 1 .. c + k /\ n \notin Saved
                 /\ n - c \in 1 .. k /\ notifications'[n].recipient = r[n - c]
                 /\ notifications'[n].batch = b /\ notifications'[n] # None
              \/ /\ n \notin 1 .. c + k /\ n \notin Saved /\ notifications'[n] = None
  <2>1. n \in Nat \ {0}
    <3>1. PICK last : last = Cardinality(NotificationIds) /\ NotificationIds = 1 .. last
      BY AnnouncementsAssumption
    <3>2. last \in Nat
      BY <3>1, FS_CardinalityType, AnnouncementsAssumption
    <3> QED BY <3>1, <3>2
  <2>2. CASE n - c \in 1 .. k
    <3>1. PICK row : row = [recipient |-> r[n - c], read |-> FALSE, batch |-> b]
      OBVIOUS
    <3>2. notifications'[n] = row /\ row.recipient = r[n - c] /\ row.batch = b
      BY <1>9, <2>2, <3>1
    <3>3. row \in Notification
      BY <1>5, <1>8, <2>2, <3>1 DEF Notification
    <3>4. row # None
      BY <3>3, AnnouncementsAssumption
    <3> QED BY <1>7, <1>8, <2>1, <2>2, <3>2, <3>4
  <2>3. CASE n - c \notin 1 .. k
    <3>1. notifications'[n] = notifications[n]
      BY <1>9, <2>3
    <3>2. n \in Saved <=> notifications[n] # None
      BY DEF Saved
    <3> QED BY <1>7, <1>8, <2>1, <2>3, <3>1, <3>2
  <2> QED BY <2>2, <2>3
<1>14. Saved' = 1 .. c + k
  <2>1. \A n \in NotificationIds : notifications'[n] # None <=> n \in 1 .. c + k
    <3> SUFFICES ASSUME NEW n \in NotificationIds
                 PROVE  notifications'[n] # None <=> n \in 1 .. c + k
      OBVIOUS
    <3>1. n \in Saved => notifications[n] # None
      BY DEF Saved
    <3> QED BY <1>7, <1>8, <1>13, <3>1
  <2> QED BY <1>10, <2>1 DEF Saved
<1>15. Consecutive'
  <2>1. Cardinality(1 .. c + k) = c + k
    BY <1>7, <1>8, FS_Interval
  <2> QED BY <1>14, <2>1 DEF Consecutive
<1>16. b < load /\ \A n \in Saved : notifications[n].batch # b
  BY <1>1, <1>2, <1>4 DEF NoteInv, Unsaved
<1>17. ASSUME NEW n \in Saved'
       PROVE  /\ n \in NotificationIds
              /\ \/ n \in Saved /\ notifications'[n] = notifications[n]
                 \/ /\ n \notin Saved /\ n - c \in 1 .. k /\ n \in Nat
                    /\ notifications'[n].recipient = r[n - c]
                    /\ notifications'[n].batch = b
  <2>1. n \in NotificationIds /\ n \in 1 .. c + k
    BY <1>10, <1>14
  <2> QED BY <1>13, <2>1
<1>18. SavedBefore'
  BY <1>11, <1>16, <1>17 DEF NoteInv, SavedBefore
<1>19. Unsaved'
  <2> SUFFICES ASSUME NEW g \in Handlers, Sending(task'[g])
               PROVE  /\ task'[g].batch < load'
                      /\ \A n \in Saved' : notifications'[n].batch # task'[g].batch
    BY DEF Unsaved, Sending
  <2>1. g # h /\ task'[g] = task[g] /\ Sending(task[g])
    BY <1>12
  <2>2. /\ task[g].batch < load /\ task[g].batch # b
        /\ \A n \in Saved : notifications[n].batch # task[g].batch
    BY <1>1, <1>2, <1>4, <2>1 DEF NoteInv, Unsaved, ToldApart
  <2> QED BY <1>11, <1>17, <2>1, <2>2
<1>20. ToldApart'
  <2> SUFFICES ASSUME NEW f \in Handlers, NEW g \in Handlers, f # g,
                      Sending(task'[f]), Sending(task'[g])
               PROVE  task'[f].batch # task'[g].batch
    BY DEF ToldApart, Sending
  <2> QED BY <1>12 DEF NoteInv, ToldApart
<1>21. MarkedAsSaved'
  <2> SUFFICES ASSUME NEW g \in Handlers, task'[g].at = "mark_save"
               PROVE  /\ notifications'[task'[g].id] # None
                      /\ task'[g].row.recipient = notifications'[task'[g].id].recipient
                      /\ task'[g].row.batch = notifications'[task'[g].id].batch
    BY DEF MarkedAsSaved, Marks
  <2>1. task'[g] = task[g] /\ task[g].at = "mark_save"
    BY <1>12
  <2>2. PICK id \in NotificationIds : id = task[g].id
    BY <1>5, <2>1
  <2>3. /\ notifications[id] # None /\ task[g].row.recipient = notifications[id].recipient
        /\ task[g].row.batch = notifications[id].batch
    BY <2>1, <2>2 DEF NoteInv, MarkedAsSaved, Marks
  <2>4. id \in Saved
    BY <2>3 DEF Saved
  <2>5. notifications'[id] = notifications[id]
    BY <1>7, <1>13, <2>4
  <2> QED BY <2>1, <2>2, <2>3, <2>5
<1>22. NotifiedOnce'
  <2> SUFFICES ASSUME NEW n \in NotificationIds, NEW m \in NotificationIds,
                      notifications'[n] # None, notifications'[m] # None,
                      notifications'[n].batch = notifications'[m].batch,
                      notifications'[n].recipient = notifications'[m].recipient
               PROVE  n = m
    BY DEF NotifiedOnce
  <2>1. n \in Saved' /\ m \in Saved'
    BY DEF Saved
  <2>2. CASE n \in Saved /\ m \in Saved
    BY <1>17, <2>1, <2>2 DEF NoteInv, NotifiedOnce, Saved
  <2>3. CASE n \notin Saved /\ m \notin Saved
    <3>1. /\ n \in Nat /\ m \in Nat /\ n - c \in DOMAIN r /\ m - c \in DOMAIN r
          /\ r[n - c] = r[m - c]
      BY <1>5, <1>8, <1>17, <2>1, <2>3
    <3>2. n - c = m - c
      BY <1>5, <3>1 DEF IsInjective
    <3> QED BY <1>7, <3>1, <3>2
  <2>4. CASE n \in Saved /\ m \notin Saved
    BY <1>16, <1>17, <2>1, <2>4
  <2>5. CASE n \notin Saved /\ m \in Saved
    BY <1>16, <1>17, <2>1, <2>5
  <2> QED BY <2>2, <2>3, <2>4, <2>5
<1> QED BY <1>15, <1>18, <1>19, <1>20, <1>21, <1>22 DEF NoteInv

\* Nothing is saved, and one handler goes on.
LEMMA OneGoesOn ==
    ASSUME IInv, NoteInv, IInv', UNCHANGED notifications, load' >= load,
           NEW h \in Handlers, NEW n, Moves(h, n),
           \/ Quiet(n)
           \/ Sending(n) /\ Sending(task[h]) /\ n.batch = task[h].batch
           \/ Sending(n) /\ n.batch = load /\ load' > load
           \/ n.at = "mark_save" /\ n.id \in NotificationIds /\ Marks(n)
    PROVE  NoteInv'
<1>1. /\ task'[h] = n /\ \A g \in Handlers : g # h => task'[g] = task[g]
  BY DEF IInv, Framed, Moves
<1>2. NobodyNotified
  BY DEF NobodyNotified
<1>3. ASSUME NEW g \in Handlers, g # h PROVE Carried(g)
  <2>1. CASE task[g].at = "mark_save"
    <3>1. task[g].id \in NotificationIds
      BY <2>1, NoteTypes
    <3>2. Marks(task[g])
      BY <2>1 DEF NoteInv, MarkedAsSaved
    <3> QED BY <1>1, <1>3, <2>1, <3>1, <3>2 DEF Carried, Marks
  <2>2. CASE task[g].at # "mark_save"
    BY <1>1, <1>3, <2>2 DEF Carried, Quiet, Sending
  <2> QED BY <2>1, <2>2
<1>4. Carried(h) \/ Begun(h)
  BY <1>1 DEF Carried, Begun, Marks
<1> QED BY <1>2, <1>3, <1>4, NotesKept

LEMMA NoteProceeds ==
    ASSUME IInv, NoteInv, IInv', NEW h \in Handlers, Proceed(h)
    PROVE  NoteInv'
<1>0. load \in Nat
  BY NoteTypes
<1>1. CASE Report(h) /\ UNCHANGED <<notices, notifications>>
  <2>1. PICK n : Moves(h, n) /\ Quiet(n)
    BY <1>1, ReportSound DEF Turns
  <2>2. load' = load
    BY <1>1 DEF Report, OverviewQuery, PendingApprovals, FindStaff, FindRecords, FindLeaves,
                ResolveDay, ShowList, FindProfile, FindMyRecords, FindMyLeave, Goto
  <2> QED BY <1>0, <1>1, <2>1, <2>2, OneGoesOn
<1>2. CASE SaveNotice(h) \/ FindReader(h) \/ ShowNotices(h) \/ Answered(h)
  <2>1. PICK n : Moves(h, n) /\ Quiet(n)
    BY <1>2, SaveNoticeTyped, FindReaderSound, ShowNoticesSound, IdleSound
       DEF Answered, Continue, Goto, Moves, Turns
  <2>2. load' = load /\ UNCHANGED notifications
    BY <1>2 DEF SaveNotice, FindReader, ShowNotices, Answered, Continue, Goto
  <2> QED BY <1>0, <2>1, <2>2, OneGoesOn
<1>3. CASE FindNamed(h) \/ FindHolders(h)
  <2>1. PICK n : /\ Moves(h, n)
                 /\ Quiet(n) \/ (Sending(n) /\ Sending(task[h]) /\ n.batch = task[h].batch)
    BY <1>3, FindNamedSound, FindHoldersSound DEF GoesOn
  <2>2. load' = load /\ UNCHANGED notifications
    BY <1>3 DEF FindNamed, FindHolders, Continue, Goto
  <2> QED BY <1>0, <2>1, <2>2, OneGoesOn
<1>4. CASE SaveNotifications(h)
  BY <1>4, NotesSaved
<1>5. CASE SaveMark(h)
  <2>1. PICK t : t = task[h]
    OBVIOUS
  <2>2. t.at = "mark_save" /\ notifications' = [notifications EXCEPT ![t.id] = t.row]
    BY <1>5, <2>1 DEF SaveMark, At
  <2>3. t.id \in NotificationIds /\ t.row \in Notification
    BY <2>1, <2>2, Doing DEF NotificationLasts
  <2>4. Marks(t)
    BY <2>1, <2>2 DEF NoteInv, MarkedAsSaved
  <2>5. t.row # None
    BY <2>3, AnnouncementsAssumption
  <2>6. NobodyNotified
    BY <2>2, <2>3, <2>4, <2>5 DEF NobodyNotified, Marks, IInv, Framed
  <2>7. Moves(h, Idle) /\ load' = load
    BY <1>5 DEF SaveMark, Goto, Moves
  <2>8. task'[h] = Idle /\ \A g \in Handlers : g # h => task'[g] = task[g]
    BY <2>7 DEF IInv, Framed, Moves
  <2>9. ASSUME NEW g \in Handlers PROVE Carried(g)
    <3>1. CASE g = h
      BY <2>8, <3>1, IdleSound DEF Carried
    <3>2. CASE g # h /\ task[g].at = "mark_save"
      <4>1. task[g].id \in NotificationIds
        BY <3>2, NoteTypes
      <4>2. Marks(task[g])
        BY <3>2 DEF NoteInv, MarkedAsSaved
      <4> QED BY <2>8, <3>2, <4>1, <4>2 DEF Carried, Marks
    <3>3. CASE g # h /\ task[g].at # "mark_save"
      BY <2>8, <3>3 DEF Carried, Quiet, Sending
    <3> QED BY <3>1, <3>2, <3>3
  <2> QED BY <1>0, <2>6, <2>7, <2>9, NotesKept
<1> QED BY <1>1, <1>2, <1>3, <1>4, <1>5 DEF Proceed

LEMMA NoteRequested ==
    ASSUME IInv, NoteInv, IInv', NEW h \in Handlers, NEW u \in Users, Request(h, u)
    PROVE  NoteInv'
<1>0. load \in Nat
  BY NoteTypes
<1>1. ASSUME Asked(h), UNCHANGED notifications PROVE NoteInv'
  <2>1. PICK n : Moves(h, n) /\ Quiet(n) /\ load' \in 0 .. MaxLoad /\ load' > load
    BY <1>1 DEF Asked
  <2> QED BY <1>0, <1>1, <2>1, OneGoesOn, ReportsAssumption
<1>2. CASE Ask(h, u) /\ UNCHANGED <<notices, notifications>>
  BY <1>1, <1>2, AskSound
<1>3. CASE RequestNotice(h, u)
  BY <1>1, <1>3, RequestNoticeSound
<1>4. ASSUME NEW dto \in NotificationDtos, CreateNotifications(h, u, dto) PROVE NoteInv'
  <2>1. PICK n : /\ Moves(h, n) /\ Sending(n) /\ n.batch = load /\ UNCHANGED notifications
                 /\ load' \in 0 .. MaxLoad /\ load' > load
    BY <1>4, CreateNotificationsSound
  <2> QED BY <1>0, <2>1, OneGoesOn, ReportsAssumption
<1>5. ASSUME NEW id \in NotificationIds, MarkAsRead(h, u, id) PROVE NoteInv'
  <2>1. PICK n : /\ Moves(h, n) /\ n.at = "mark_save" /\ n.id = id /\ UNCHANGED notifications
                 /\ notifications[id] # None
                 /\ n.row.recipient = notifications[id].recipient
                 /\ n.row.batch = notifications[id].batch
                 /\ load' \in 0 .. MaxLoad /\ load' > load
    BY <1>5, MarkAsReadSound
  <2>2. Marks(n)
    BY <2>1 DEF Marks
  <2> QED BY <1>0, <2>1, <2>2, OneGoesOn, ReportsAssumption
<1> QED BY <1>2, <1>3, <1>4, <1>5 DEF Request, RequestNotification

LEMMA NoteOvertaken ==
    ASSUME IInv, NoteInv, IInv', UNCHANGED notifications, Meanwhile \/ UNCHANGED <<task, load>>
    PROVE  NoteInv'
<1>0. load \in Nat
  BY NoteTypes
<1>1. load' >= load
  BY <1>0 DEF Meanwhile, Loaded, Cost
<1>2. NobodyNotified
  BY DEF NobodyNotified
<1>3. ASSUME NEW g \in Handlers PROVE Carried(g)
  <2>1. PICK t : t = task[g]
    OBVIOUS
  <2>2. PICK n : n = task'[g]
    OBVIOUS
  <2>3. n = t \/ (t.at = "idle" /\ n = Idle) \/ (t.at # "idle" /\ n = [t EXCEPT !.calm = FALSE])
    BY <2>1, <2>2 DEF Meanwhile, At
  <2>4. CASE t.at = "idle"
    BY <2>2, <2>3, <2>4, IdleSound DEF Carried, Quiet
  <2>5. CASE t.at # "idle"
    <3>1. n.at = t.at
      <4>1. Known(t)
        BY <2>1, <2>5, Doing
      <4> QED BY <2>3, <2>5, <4>1 DEF Known
    <3>2. NotificationLasts(t)
      BY <2>1, <2>5, Doing
    <3>3. CASE Sending(t)
      <4>1. n.batch = t.batch
        BY <2>3, <2>5, <3>2, <3>3 DEF NotificationLasts, Sending
      <4> QED BY <2>1, <2>2, <3>1, <3>3, <4>1 DEF Carried, Sending
    <3>4. CASE t.at = "mark_save"
      <4>1. n.id = t.id /\ n.row = t.row /\ t.id \in NotificationIds
        BY <2>3, <2>5, <3>2, <3>4 DEF NotificationLasts
      <4>2. Marks(t)
        BY <2>1, <3>4 DEF NoteInv, MarkedAsSaved
      <4>3. Marks(n)
        BY <4>1, <4>2 DEF Marks
      <4> QED BY <2>2, <3>1, <3>4, <4>1, <4>3 DEF Carried
    <3>5. CASE Quiet(t)
      BY <2>2, <3>1, <3>5 DEF Carried, Quiet
    <3> QED BY <3>3, <3>4, <3>5 DEF Sending, Quiet
  <2> QED BY <2>4, <2>5
<1> QED BY <1>1, <1>2, <1>3, NotesKept

LEMMA NoteNext == IInv /\ NoteInv /\ IInv' /\ [Next]_vars => NoteInv'
<1> SUFFICES ASSUME IInv, NoteInv, IInv', [Next]_vars PROVE NoteInv'
  OBVIOUS
<1>1. CASE UNCHANGED vars
  <2>1. UNCHANGED notifications /\ UNCHANGED <<task, load>>
    BY <1>1 DEF vars
  <2> QED BY <2>1, NoteOvertaken
<1>2. CASE \E h \in Handlers : Proceed(h)
  BY <1>2, NoteProceeds
<1>3. CASE \E h \in Handlers : \E u \in Users : Request(h, u)
  BY <1>3, NoteRequested
<1>4. CASE Saves /\ UNCHANGED <<notices, notifications>>
  BY <1>4, SavesTyped, NoteOvertaken
<1> QED BY <1>1, <1>2, <1>3, <1>4 DEF Next

LEMMA NoteInvariance == Spec => [](IInv /\ NoteInv)
<1>1. IInv /\ IInv' /\ NoteInv /\ [Next]_vars => NoteInv'
  BY NoteNext
<1> QED BY <1>1, NoteInit, Invariance, PTL DEF Spec

\* A request makes one notification for each recipient, in whatever order requests, saves of
\* permissions and marks follow each other.
THEOREM OnlyOnce == Spec => []NotifiedOnce
<1>1. NoteInv => NotifiedOnce
  BY DEF NoteInv
<1> QED BY <1>1, NoteInvariance, PTL

-----------------------------------------------------------------------------
(***************************************************************************)
(* The numbers of the overview                                             *)
(***************************************************************************)
\* The fold of the community modules adds up a breakdown.
LEMMA TotalIsSum ==
    ASSUME NEW b, NEW s, IsFiniteSet(DOMAIN b)
    PROVE  Total(b, s) = Sum([g \in DOMAIN b |-> b[g][s]], DOMAIN b)
<1> DEFINE S == DOMAIN b
           F == [g \in S |-> b[g][s]]
           Iterates(f) == f = [A \in SUBSET S |->
                                  IF A = {} THEN 0 ELSE b[Pick(A)][s] + f[A \ {Pick(A)}]]
<1>1. \A f : Iterates(f) <=> Summing(F, f, S)
  <2> SUFFICES ASSUME NEW f PROVE Iterates(f) <=> Summing(F, f, S)
    OBVIOUS
  <2>1. \A A \in SUBSET S : A # {} => b[Pick(A)][s] = F[Pick(A)]
    BY PickFrom
  <2> HIDE DEF F, S
  <2>2. [A \in SUBSET S |-> IF A = {} THEN 0 ELSE b[Pick(A)][s] + f[A \ {Pick(A)}]]
          = [A \in SUBSET S |-> IF A = {} THEN 0 ELSE F[Pick(A)] + f[A \ {Pick(A)}]]
    BY <2>1
  <2> QED BY <2>2 DEF Summing
<1>2. Total(b, s) = (CHOOSE f : Iterates(f))[S]
  BY DEF Total, MapThenSumSet, MapThenFoldSet, Pick
<1>3. Iterates(CHOOSE f : Iterates(f))
  <2>1. \E f : Iterates(f)
    <3> HIDE DEF Iterates, F, S
    <3> QED BY <1>1, SummingExists DEF S
  <2> HIDE DEF Iterates
  <2> QED BY <2>1, Zenon
<1> DEFINE c == CHOOSE f : Iterates(f)
<1> HIDE DEF c, Iterates, F
<1>4. Summing(F, c, S)
  BY <1>1, <1>3 DEF c
<1> QED BY <1>2, <1>4, SumIs DEF c, F

\* A breakdown of records counts each of them once.
LEMMA BreakdownAddsUp ==
    ASSUME NEW rows, IsFiniteSet(rows), NEW group, DOMAIN group = rows,
           NEW told, told = [a \in rows |-> records[a].approval], NEW s \in ApprovalStatus
    PROVE  Cardinality(Counted(told, s)) = Total(Breakdown(group), s)
<1>1. PICK b : b = Breakdown(group)
  OBVIOUS
<1>2. PICK groups : groups = {group[a] : a \in rows}
  OBVIOUS
<1>3. DOMAIN b = groups
  BY <1>1, <1>2 DEF Breakdown
<1>4. IsFiniteSet(groups)
  <2>1. [a \in rows |-> group[a]] \in Surjection(rows, groups)
    BY <1>2 DEF Surjection
  <2> QED BY <2>1, FS_Surjection
<1>5. PICK counted : counted = Counted(told, s)
  OBVIOUS
<1>6. counted = {a \in rows : records[a].approval = s}
  BY <1>5 DEF Counted
<1>7. IsFiniteSet(counted)
  <2>1. counted \in SUBSET rows
    BY <1>6
  <2> QED BY <2>1, FS_Subset
<1>8. PICK F : F = [g \in groups |-> b[g][s]]
  OBVIOUS
<1>9. ASSUME NEW g \in groups PROVE F[g] = Cardinality({a \in counted : group[a] = g})
  <2>1. b[g] = Tally({a \in rows : group[a] = g})
    BY <1>1, <1>2 DEF Breakdown
  <2>2. b[g][s] = Cardinality({a \in {c \in rows : group[c] = g} : records[a].approval = s})
    BY <2>1 DEF Tally
  <2>3. {a \in {c \in rows : group[c] = g} : records[a].approval = s}
          = {a \in counted : group[a] = g}
    BY <1>6
  <2> QED BY <1>8, <2>2, <2>3
<1>10. \A a \in counted : group[a] \in groups
  BY <1>2, <1>6
<1>11. Sum(F, groups) = Cardinality(counted)
  <2>1. Grouped(counted, groups, group, F)
    BY <1>9, <1>10 DEF Grouped
  <2> QED BY <1>4, <1>7, <2>1, SumOfGroups
<1>12. Total(b, s) = Sum([g \in DOMAIN b |-> b[g][s]], DOMAIN b)
  BY <1>3, <1>4, TotalIsSum
<1> QED BY <1>1, <1>3, <1>5, <1>8, <1>11, <1>12

\* Nobody has two statuses.
LEMMA StaffAddsUp ==
    ASSUME NEW f
    PROVE  Answer("active", f) + Answer("probation", f) + Answer("on_leave", f)
             <= Answer("total", f)
<1>1. PICK all : all = Staff(f, EmploymentStatus)
  OBVIOUS
<1>2. PICK a : a = Staff(f, {"active"})
  OBVIOUS
<1>3. PICK p : p = Staff(f, {"probation"})
  OBVIOUS
<1>4. PICK o : o = Staff(f, {"on_leave"})
  OBVIOUS
<1>5. /\ a \in SUBSET all /\ p \in SUBSET all /\ o \in SUBSET all
      /\ a \cap p = {} /\ (a \cup p) \cap o = {}
  BY <1>1, <1>2, <1>3, <1>4 DEF Staff, EmploymentStatus
<1>6. IsFiniteSet(all)
  <2>1. all \in SUBSET Employees
    BY <1>1 DEF Staff
  <2> QED BY <2>1, FS_Subset, ReportsAssumption
<1>7. IsFiniteSet(a) /\ IsFiniteSet(p) /\ IsFiniteSet(o)
  BY <1>5, <1>6, FS_Subset
<1>8. Cardinality({}) = 0
  BY FS_EmptySet
<1>9. /\ IsFiniteSet(a \cup p)
      /\ Cardinality(a \cup p) = Cardinality(a) + Cardinality(p) - Cardinality(a \cap p)
  BY <1>7, FS_Union
<1>10. PICK both : both = a \cup p
  OBVIOUS
<1>11. Cardinality(both \cup o) = Cardinality(both) + Cardinality(o) - Cardinality(both \cap o)
  BY <1>7, <1>9, <1>10, FS_Union
<1>12. Cardinality(both \cup o) <= Cardinality(all)
  <2>1. both \cup o \in SUBSET all
    BY <1>5, <1>10
  <2> QED BY <1>6, <2>1, FS_Subset
<1>13. /\ Cardinality(a) \in Nat /\ Cardinality(p) \in Nat /\ Cardinality(o) \in Nat
       /\ Cardinality(both) \in Nat /\ Cardinality(all) \in Nat
  BY <1>6, <1>7, <1>9, <1>10, FS_CardinalityType
<1>14. Cardinality(a) + Cardinality(p) + Cardinality(o) <= Cardinality(all)
  <2>1. Cardinality(a \cap p) = 0 /\ Cardinality(both \cap o) = 0
    BY <1>5, <1>8, <1>10
  <2>2. Cardinality(both) = Cardinality(a) + Cardinality(p)
    BY <1>9, <1>10, <1>13, <2>1
  <2> QED BY <1>11, <1>12, <1>13, <2>1, <2>2
<1> QED BY <1>1, <1>2, <1>3, <1>4, <1>14 DEF Answer

\* Of more rows than a page holds, the newest fill the page.
LEMMA NewestFill ==
    ASSUME NEW rows, IsFiniteSet(rows), NEW later, DOMAIN later = rows,
           \A x \in rows : later[x] \subseteq rows \ {x},
           \A x, y \in rows : x # y => x \in later[y] \/ y \in later[x],
           \A x, y \in rows : y \in later[x] => later[y] \subseteq later[x]
    PROVE  /\ Newest(later) \subseteq rows
           /\ Newest(later) # rows => Cardinality(Newest(later)) = PageSize
<1>1. PICK first : first = {x \in rows : Cardinality(later[x]) < PageSize}
  OBVIOUS
<1>2. Newest(later) = first
  BY <1>1 DEF Newest
<1>3. first # rows => Cardinality(first) = PageSize
  BY <1>1, FirstOnes, ReportsAssumption
<1> QED BY <1>1, <1>2, <1>3

LEMMA NewestRecords ==
    ASSUME TypeOK, NEW rows, rows \subseteq RecordIds, \A a \in rows : records[a] # None
    PROVE  /\ Newest(LaterRecords(rows)) \subseteq rows
           /\ Newest(LaterRecords(rows)) # rows
                => Cardinality(Newest(LaterRecords(rows))) = PageSize
<1>1. PICK date : date = [a \in rows |-> records[a].date]
  OBVIOUS
<1>2. \A a \in rows : a \in Nat /\ date[a] \in Nat /\ date[a] = records[a].date
  BY <1>1, ReportsAssumption DEF TypeOK, Opt, AttendanceRecord
<1>3. PICK later : later = LaterRecords(rows)
  OBVIOUS
<1>4. /\ DOMAIN later = rows
      /\ \A a \in rows : later[a] = {b \in rows : date[b] > date[a] \/ (date[b] = date[a] /\ b > a)}
  BY <1>2, <1>3 DEF LaterRecords
<1>5. IsFiniteSet(rows)
  BY FS_Subset, ReportsAssumption
<1>6. \A x \in rows : later[x] \subseteq rows \ {x}
  BY <1>2, <1>4
<1>7. \A x, y \in rows : x # y => x \in later[y] \/ y \in later[x]
  BY <1>2, <1>4
<1>8. \A x, y \in rows : y \in later[x] => later[y] \subseteq later[x]
  BY <1>2, <1>4
<1>9. /\ Newest(later) \subseteq rows
      /\ Newest(later) # rows => Cardinality(Newest(later)) = PageSize
  BY <1>4, <1>5, <1>6, <1>7, <1>8, NewestFill
<1> QED BY <1>3, <1>9

LEMMA NewestLeaves ==
    ASSUME NEW rows, rows \subseteq LeaveIds
    PROVE  /\ Newest(LaterLeaves(rows)) \subseteq rows
           /\ Newest(LaterLeaves(rows)) # rows
                => Cardinality(Newest(LaterLeaves(rows))) = PageSize
<1>1. PICK later : later = LaterLeaves(rows)
  OBVIOUS
<1>2. DOMAIN later = rows /\ \A a \in rows : later[a] = {b \in rows : b > a}
  BY <1>1 DEF LaterLeaves
<1>3. IsFiniteSet(rows) /\ rows \subseteq Nat
  BY FS_Subset, ReportsAssumption
<1>4. \A x \in rows : later[x] \subseteq rows \ {x}
  BY <1>2, <1>3
<1>5. \A x, y \in rows : x # y => x \in later[y] \/ y \in later[x]
  BY <1>2, <1>3
<1>6. \A x, y \in rows : y \in later[x] => later[y] \subseteq later[x]
  <2> SUFFICES ASSUME NEW x \in rows, NEW y \in rows, y \in later[x], NEW z \in later[y]
               PROVE  z \in later[x]
    OBVIOUS
  <2>1. z \in rows /\ z > y /\ y > x
    BY <1>2
  <2>2. z > x
    BY <1>3, <2>1
  <2> QED BY <1>2, <2>1, <2>2
<1>7. /\ Newest(later) \subseteq rows
      /\ Newest(later) # rows => Cardinality(Newest(later)) = PageSize
  BY <1>2, <1>3, <1>4, <1>5, <1>6, NewestFill
<1> QED BY <1>1, <1>7

\* The pending approvals are the newest of those the summary counts as pending.
LEMMA PageAddsUp ==
    ASSUME TypeOK, NEW f, NEW p \in {"attendance", "leave"},
           NEW page, page = PendingPage(p, f),
           NEW pending, pending = Counted(Answer(p, f), "pending")
    PROVE  page \subseteq pending /\ (page # pending => Cardinality(page) = PageSize)
<1>1. CASE p = "attendance"
  <2>1. PICK rows : rows = AttendanceQuery(f, {"pending"})
    OBVIOUS
  <2>2. Answer(p, f) = [a \in AttendanceQuery(f, ApprovalStatus) |-> records[a].approval]
    BY <1>1 DEF Answer
  <2>3. pending = rows
    BY <2>1, <2>2 DEF Counted, AttendanceQuery, ApprovalStatus
  <2>4. page = Newest(LaterRecords(rows))
    BY <1>1, <2>1 DEF PendingPage
  <2>5. rows \subseteq RecordIds /\ \A a \in rows : records[a] # None
    BY <2>1 DEF AttendanceQuery
  <2> QED BY <2>3, <2>4, <2>5, NewestRecords
<1>2. CASE p = "leave"
  <2>1. PICK rows : rows = LeaveRequestQuery(f, {"pending"})
    OBVIOUS
  <2>2. Answer(p, f) = [r \in LeaveRequestQuery(f, ApprovalStatus) |-> leaves[r].status]
    BY <1>2 DEF Answer
  <2>3. pending = rows
    BY <2>1, <2>2 DEF Counted, LeaveRequestQuery, ApprovalStatus
  <2>4. page = Newest(LaterLeaves(rows))
    BY <1>2, <2>1 DEF PendingPage
  <2>5. rows \subseteq LeaveIds
    BY <2>1 DEF LeaveRequestQuery
  <2> QED BY <2>3, <2>4, <2>5, NewestLeaves
<1> QED BY <1>1, <1>2

\* The breakdowns of a summary that was answered at one go.
LEMMA BreakdownsAddUp ==
    ASSUME NEW f, NEW s \in ApprovalStatus, NEW told, told = Answer("attendance", f)
    PROVE  /\ Cardinality(Counted(told, s)) = Total(Answer("byBranch", f), s)
           /\ Cardinality(Counted(told, s)) = Total(Answer("byDepartment", f), s)
<1>1. PICK rows : rows = AttendanceQuery(f, ApprovalStatus)
  OBVIOUS
<1>2. told = [a \in rows |-> records[a].approval]
  BY <1>1 DEF Answer
<1>3. IsFiniteSet(rows)
  <2>1. rows \in SUBSET RecordIds
    BY <1>1 DEF AttendanceQuery
  <2> QED BY <2>1, FS_Subset, ReportsAssumption
<1>4. PICK branch : branch = BranchOf(rows)
  OBVIOUS
<1>5. PICK department : department = DepartmentOf(rows)
  OBVIOUS
<1>6. DOMAIN branch = rows /\ DOMAIN department = rows
  BY <1>4, <1>5 DEF BranchOf, DepartmentOf
<1>7. Cardinality(Counted(told, s)) = Total(Breakdown(branch), s)
  BY <1>2, <1>3, <1>6, BreakdownAddsUp
<1>8. Cardinality(Counted(told, s)) = Total(Breakdown(department), s)
  BY <1>2, <1>3, <1>6, BreakdownAddsUp
<1>9. Answer("byBranch", f) = Breakdown(branch)
  BY <1>1, <1>4 DEF Answer, BreakdownByBranch
<1>10. Answer("byDepartment", f) = Breakdown(department)
  BY <1>1, <1>5 DEF Answer, BreakdownByDepartment
<1> QED BY <1>7, <1>8, <1>9, <1>10

LEMMA OverviewSums == IInv => OverviewAddsUp
<1> SUFFICES ASSUME IInv, NEW h \in Handlers, NEW t, t = task[h],
                    t.at = "overview", t.calm, t.left = {}
             PROVE  /\ t.got["active"] + t.got["probation"] + t.got["on_leave"] <= t.got["total"]
                    /\ \A s \in ApprovalStatus :
                          /\ Cardinality(Counted(t.got["attendance"], s))
                               = Total(t.got["byBranch"], s)
                          /\ Cardinality(Counted(t.got["attendance"], s))
                               = Total(t.got["byDepartment"], s)
                    /\ \A p \in DOMAIN t.pages :
                          /\ t.pages[p] \subseteq Counted(t.got[p], "pending")
                          /\ t.pages[p] # Counted(t.got[p], "pending")
                               => Cardinality(t.pages[p]) = PageSize
  BY DEF OverviewAddsUp, At
<1>1. OverviewLasts(t) /\ Fresh(t)
  BY Doing
<1>2. PICK f : f = t.filter
  OBVIOUS
<1>3. \A q \in Queries : t.got[q] = Answer(q, f)
  BY <1>1, <1>2 DEF OverviewLasts, Fresh, OverviewFresh
<1>4. t.got["active"] + t.got["probation"] + t.got["on_leave"] <= t.got["total"]
  BY <1>3, StaffAddsUp DEF Queries
<1>5. ASSUME NEW s \in ApprovalStatus
      PROVE  /\ Cardinality(Counted(t.got["attendance"], s)) = Total(t.got["byBranch"], s)
             /\ Cardinality(Counted(t.got["attendance"], s)) = Total(t.got["byDepartment"], s)
  <2>1. PICK told : told = t.got["attendance"]
    OBVIOUS
  <2>2. told = Answer("attendance", f)
    BY <1>3, <2>1 DEF Queries
  <2>3. t.got["byBranch"] = Answer("byBranch", f) /\ t.got["byDepartment"] = Answer("byDepartment", f)
    BY <1>3 DEF Queries
  <2>4. /\ Cardinality(Counted(told, s)) = Total(Answer("byBranch", f), s)
        /\ Cardinality(Counted(told, s)) = Total(Answer("byDepartment", f), s)
    BY <2>2, BreakdownsAddUp
  <2> QED BY <2>1, <2>3, <2>4
<1>6. ASSUME NEW p \in DOMAIN t.pages
      PROVE  /\ t.pages[p] \subseteq Counted(t.got[p], "pending")
             /\ t.pages[p] # Counted(t.got[p], "pending") => Cardinality(t.pages[p]) = PageSize
  <2>1. p \in {"attendance", "leave"} /\ p \in Queries
    BY <1>1 DEF OverviewLasts, Queries
  <2>2. PICK page : page = t.pages[p]
    OBVIOUS
  <2>3. PICK pending : pending = Counted(t.got[p], "pending")
    OBVIOUS
  <2>4. page = PendingPage(p, f)
    BY <1>1, <1>2, <2>2 DEF Fresh, OverviewFresh
  <2>5. pending = Counted(Answer(p, f), "pending")
    BY <1>3, <2>1, <2>3
  <2>6. page \subseteq pending /\ (page # pending => Cardinality(page) = PageSize)
    BY <2>1, <2>4, <2>5, PageAddsUp DEF IInv
  <2> QED BY <2>2, <2>3, <2>6
<1> QED BY <1>4, <1>5, <1>6

\* The numbers of an overview agree if nothing is saved between its queries, in whatever order
\* they are answered: nobody is counted under two statuses, the breakdowns by branch and by
\* department account for every record, and the pending approvals are the newest of those the
\* summary counts, a full page of them if not all.
THEOREM AddsUp == Spec => []OverviewAddsUp
BY OverviewSums, Invariance, PTL

=============================================================================

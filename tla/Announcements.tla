--------------------------- MODULE Announcements ---------------------------
(***************************************************************************)
(* Notices, which their readers look for, and notifications, which are     *)
(* made for their recipients (NoticesService, NotificationsService), over  *)
(* the users and employees of Reports.  Texts, dates and pins are left     *)
(* out.                                                                    *)
(***************************************************************************)
EXTENDS Reports, Sequences, SequencesExt

CONSTANTS
    NoticeIds, NotificationIds,   \* numbered as they are created
    NoticeDtos, NotificationDtos, \* what notices and notifications are made from
    NoticeSeeds                   \* the notices a behaviour may start from

NoticeStatus == {"draft", "published", "archived"}

\* Aimed at a branch, a department, users or holders of permissions; None and {} aim at all.
CreateNoticeDto ==
    [branch : Opt(Branches), department : Opt(Departments),
     targetUsers : SUBSET Users, targetPermissions : SUBSET Permissions]

Notice == [aim : CreateNoticeDto, status : NoticeStatus, publishedAt : BOOLEAN]

CreateNotificationDto == [users : SUBSET Users, permissions : SUBSET Permissions]

\* `batch` is history: the request that made the notification.
Notification == [recipient : Users, read : BOOLEAN, batch : Nat]

ASSUME AnnouncementsAssumption ==
    /\ NoticeIds \subseteq Nat
    /\ IsFiniteSet(NotificationIds) /\ NotificationIds = 1 .. Cardinality(NotificationIds)
    /\ NoticeDtos \subseteq CreateNoticeDto /\ NotificationDtos \subseteq CreateNotificationDto
    /\ NoticeSeeds \subseteq [NoticeIds -> Opt(Notice)]
    /\ None \notin Notice \cup Notification

VARIABLES notices, notifications

vars == <<sources, task, load, notices, notifications>>

Init ==
    /\ ReportsInit
    /\ notices \in NoticeSeeds
    /\ notifications = [n \in NotificationIds |-> None]

\* Bound: nothing else runs beside a report, which reads neither table.
Reporting == \E h \in Handlers : "filter" \in DOMAIN task[h]

Begin(h, u, next) == ~Reporting /\ Arrive(h, u, next) /\ UNCHANGED <<notices, notifications>>
Continue(h, t) == Goto(h, t) /\ UNCHANGED <<notices, notifications>>

-----------------------------------------------------------------------------
(***************************************************************************)
(* Notices                                                                 *)
(***************************************************************************)
Held == {task[h].id : h \in {g \in Handlers : At(g, "notice_save")}}

CreateNotice(h, u, dto) ==
    LET fresh == {n \in NoticeIds \ Held : notices[n] = None}
    IN  /\ fresh # {}
        /\ Begin(h, u, [at |-> "notice_save", id |-> Min(fresh),
                        row |-> [aim |-> dto, status |-> "draft", publishedAt |-> FALSE]])

WithStatus(row, status) ==
    [row EXCEPT !.status = status, !.publishedAt = @ \/ status = "published"]

\* The row is read, and saved whole.
UpdateStatus(h, u, n, status) ==
    /\ notices[n] # None
    /\ Begin(h, u, [at |-> "notice_save", id |-> n, row |-> WithStatus(notices[n], status)])

SaveNotice(h) ==
    /\ At(h, "notice_save")
    /\ notices' = [notices EXCEPT ![task[h].id] = task[h].row]
    /\ Goto(h, Idle) /\ UNCHANGED notifications

GetMyNotices(h, u) == Begin(h, u, [at |-> "notice_reader"])

\* findEmployeeByUser, as for attendance.
FindReader(h) ==
    LET t == task[h]
        mine == Profiles(t.viewer)
    IN  /\ At(h, "notice_reader")
        /\ Continue(h, IF mine = {} THEN Idle
                       ELSE With([t EXCEPT !.at = "notice_list"],
                                 [reader |-> employees[Max(mine)], shown |-> {}]))

\* Wrong on purpose: a notice aimed at permissions asks for all of them.
ForReaderOfAll(aim, t) ==
    /\ aim.targetUsers = {} \/ t.viewer \in aim.targetUsers
    /\ aim.targetPermissions = {} \/ \A p \in aim.targetPermissions : HasPermission(t.grants, p)
    /\ aim.branch \in {None, t.reader.branch}
    /\ aim.department \in {None, t.reader.department}

ForReader(aim, t) ==
    /\ aim.targetUsers = {} \/ t.viewer \in aim.targetUsers
    /\ aim.targetPermissions = {} \/ \E p \in aim.targetPermissions : HasPermission(t.grants, p)
    /\ aim.branch \in {None, t.reader.branch}
    /\ aim.department \in {None, t.reader.department}

ShowNotices(h) ==
    LET t == task[h]
    IN  /\ At(h, "notice_list")
        /\ Continue(h, [t EXCEPT !.at = "notice_shown",
                                 !.shown = {n \in NoticeIds : /\ notices[n] # None
                                                              /\ notices[n].status = "published"
                                                              /\ ForReader(notices[n].aim, t)}])

\* The answer has been read.
Answered(h) == At(h, "notice_shown") /\ Continue(h, Idle)

-----------------------------------------------------------------------------
(***************************************************************************)
(* Notifications                                                           *)
(***************************************************************************)
Active == {u \in Users : users[u].isActive}
Holders(permissions) ==
    {u \in Active : \E p \in permissions : HasPermission(users[u].permissions, p)}

\* A query that has nothing to ask for is not made.
AfterNamed(t) ==
    CASE t.dto.permissions # {} -> [t EXCEPT !.at = "holders"]
      [] t.recipients # <<>>    -> [t EXCEPT !.at = "notify"]
      [] OTHER                  -> Idle

CreateNotifications(h, u, dto) ==
    /\ dto.users # {} \/ dto.permissions # {}
    /\ Begin(h, u, [at |-> IF dto.users = {} THEN "holders" ELSE "named", dto |-> dto,
                    recipients |-> <<>>, batch |-> load])

\* Wrong on purpose: a user who is not active leaves a hole in the list.
FindNamedOrHole(h) ==
    LET t == task[h]
        found == {IF u \in Active THEN u ELSE None : u \in t.dto.users}
    IN  At(h, "named") /\ Continue(h, AfterNamed([t EXCEPT !.recipients = SetToSeq(found)]))

FindNamed(h) ==
    LET t == task[h]
    IN  /\ At(h, "named")
        /\ Continue(h, AfterNamed([t EXCEPT !.recipients = SetToSeq(t.dto.users \cap Active)]))

\* Wrong on purpose: the two lists are put one behind the other.
Appended(recipients, found) == recipients \o SetToSeq(found)

\* recipientMap.set: a user who is there already stays where he is.
Added(recipients, found) == recipients \o SetToSeq(found \ ToSet(recipients))

FindHolders(h) ==
    LET t == task[h]
        all == Added(t.recipients, Holders(t.dto.permissions))
    IN  /\ At(h, "holders")
        /\ Continue(h, IF all = <<>> THEN Idle
                       ELSE [t EXCEPT !.at = "notify", !.recipients = all])

\* One save for all recipients.
SaveNotifications(h) ==
    LET t == task[h]
        next == Cardinality({n \in NotificationIds : notifications[n] # None})
    IN  /\ At(h, "notify")
        /\ next + Len(t.recipients) \in NotificationIds
        /\ notifications' = [n \in NotificationIds |->
               IF n - next \in 1 .. Len(t.recipients)
               THEN [recipient |-> t.recipients[n - next], read |-> FALSE, batch |-> t.batch]
               ELSE notifications[n]]
        /\ Goto(h, Idle) /\ UNCHANGED notices

MarkAsRead(h, u, n) ==
    /\ notifications[n] # None /\ notifications[n].recipient = u
    /\ Begin(h, u, [at |-> "mark_save", id |-> n, row |-> [notifications[n] EXCEPT !.read = TRUE]])

SaveMark(h) ==
    /\ At(h, "mark_save")
    /\ notifications' = [notifications EXCEPT ![task[h].id] = task[h].row]
    /\ Goto(h, Idle) /\ UNCHANGED notices

-----------------------------------------------------------------------------
RequestNotice(h, u) ==
    \/ \E dto \in NoticeDtos : CreateNotice(h, u, dto)
    \/ GetMyNotices(h, u)
    \/ \E n \in NoticeIds, s \in NoticeStatus : UpdateStatus(h, u, n, s)

RequestNotification(h, u) ==
    \/ \E dto \in NotificationDtos : CreateNotifications(h, u, dto)
    \/ \E n \in NotificationIds : MarkAsRead(h, u, n)

Request(h, u) ==
    \/ Ask(h, u) /\ UNCHANGED <<notices, notifications>>
    \/ RequestNotice(h, u)
    \/ RequestNotification(h, u)

Proceed(h) ==
    \/ Report(h) /\ UNCHANGED <<notices, notifications>>
    \/ SaveNotice(h) \/ FindReader(h) \/ ShowNotices(h) \/ Answered(h)
    \/ FindNamed(h) \/ FindHolders(h) \/ SaveNotifications(h) \/ SaveMark(h)

Next ==
    \/ \E h \in Handlers : Proceed(h) \/ \E u \in Users : Request(h, u)
    \/ Saves /\ UNCHANGED <<notices, notifications>>

Spec == Init /\ [][Next]_vars

-----------------------------------------------------------------------------
(***************************************************************************)
(* Properties                                                              *)
(***************************************************************************)
TypeOK ==
    /\ users \in [Users -> User] /\ employees \in [Employees -> Employee]
    /\ records \in [RecordIds -> Opt(AttendanceRecord)]
    /\ leaves \in [LeaveIds -> Opt(LeaveRequest)]
    /\ days \in [Employees -> [Dates -> Day]]
    /\ notices \in [NoticeIds -> Opt(Notice)]
    /\ \A n \in NotificationIds : notifications[n] \in Opt(Notification)
    /\ load \in 0 .. MaxLoad
    /\ \A h \in Handlers : ~At(h, "idle") =>
           task[h].viewer \in Users /\ task[h].grants \in Grants

\* A request makes one notification per recipient, also for a user whom it names and who
\* holds a permission it names, and whose permissions change between the two queries.
NotifiedOnce ==
    \A n, m \in NotificationIds :
        /\ notifications[n] # None /\ notifications[m] # None
        /\ notifications[n].batch = notifications[m].batch
        /\ notifications[n].recipient = notifications[m].recipient
        => n = m

Audience(aim) ==
    LET colleagues(u) ==
            {e \in Employees : /\ employees[e].email = EmailOf[u]
                               /\ aim.branch # None => aim.branch = employees[e].branch
                               /\ aim.department # None => aim.department = employees[e].department
                               /\ \A later \in Employees :
                                      later > e => employees[later].email # EmailOf[u]}
    IN  {u \in IF aim.targetPermissions = {} THEN Users ELSE Holders(aim.targetPermissions) :
            aim.targetUsers \in {{}, {u} \cup aim.targetUsers} /\ colleagues(u) # {}}

ReadersAreServed ==
    \A h \in Handlers : At(h, "notice_list") /\ At(h, "notice_shown")' /\ task[h].calm =>
        task'[h].shown = {n \in NoticeIds : /\ notices[n] # None
                                            /\ notices[n].status = "published"
                                            /\ task[h].viewer \in Audience(notices[n].aim)}

\* A reader who is not overtaken by other saves is shown just the published notices aimed at
\* him; and a permission aims a notice at the users to whom it would aim a notification.
NoticesReachTheirAudience == [][ReadersAreServed]_vars
=============================================================================

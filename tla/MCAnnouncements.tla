-------------------------- MODULE MCAnnouncements --------------------------
(***************************************************************************)
(* Two users, one of whom is an employee, and two employees.               *)
(***************************************************************************)
EXTENDS Announcements, TLC

CONSTANTS kim, root, north, sales

MCEmailOf == kim :> "kim@example.com" @@ root :> "root@example.com"

MCFilters ==
    LET everybody == [employee |-> None, branch |-> None, department |-> None, search |-> None,
                      start |-> 1, end |-> 2]
    IN  {everybody,
         [employee |-> 2, branch |-> north, department |-> sales, search |-> {1, 2},
          start |-> 2, end |-> 2]}

MCGrants == {{}, {"leave:approve"}, {"attendance:approve", "leave:approve"}, {"*"}}

Everybody == [branch |-> None, department |-> None, targetUsers |-> {}, targetPermissions |-> {}]
MCNoticeDtos == {[Everybody EXCEPT !.branch = north],
                 [Everybody EXCEPT !.department = sales, !.targetUsers = {kim}],
                 [Everybody EXCEPT !.targetPermissions = {"attendance:approve", "leave:approve"}]}

\* None, or an archived one and one that is published.
MCNoticeSeeds ==
    {<<None, None>>} \cup
    {<<[aim |-> [Everybody EXCEPT !.targetUsers = {kim}], status |-> "archived", publishedAt |-> TRUE],
       [aim |-> aim, status |-> "published", publishedAt |-> TRUE]>> : aim \in MCNoticeDtos}

MCNotificationDtos == {[users |-> {kim}, permissions |-> {}],
                       [users |-> {kim}, permissions |-> {"leave:approve"}],
                       [users |-> {}, permissions |-> {"*"}]}

\* An employee without a branch, a colleague, and what they recorded and asked for.
MCSeeds ==
    {[users |-> kim :> [isActive |-> TRUE, permissions |-> {"leave:approve"}]
                @@ root :> [isActive |-> TRUE, permissions |-> {"*"}],
      employees |-> <<[status |-> "active", branch |-> None, department |-> sales,
                       email |-> "kim@example.com"],
                      [status |-> "probation", branch |-> north, department |-> sales,
                       email |-> "lee@example.com"]>>,
      records |-> <<[employee |-> 1, date |-> 1, approval |-> "pending"],
                    [employee |-> 2, date |-> 1, approval |-> "pending"], None>>,
      leaves |-> <<[employee |-> 2, from |-> 1, to |-> 2, status |-> "approved"],
                   [employee |-> 1, from |-> 2, to |-> 2, status |-> "pending"]>>,
      days |-> <<<<"working", "working">>, <<"off", "working">>>>]}

MCSymmetry == Permutations(Handlers)
=============================================================================

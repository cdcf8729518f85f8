----------------------------- MODULE MCWorkDays -----------------------------
(***************************************************************************)
(* One employee and two days: a schedule leaves the first without a rule   *)
(* and gives the second off.                                               *)
(***************************************************************************)
EXTENDS WorkDays, TLC

CONSTANTS ann, sales, north, s1, y1, y2, o1, o2, b1, b2, p1

MCDepartmentOf == ann :> sales
MCStateOf == ann :> north
MCDates == 1..2
MCWeekDay == 1 :> "monday" @@ 2 :> "sunday"
MCRules == {[monday |-> None, sunday |-> FALSE]}

\* An address of three bits, the first one given first.
MCAddress(x, y, z) == 2 :> x @@ 1 :> y @@ 0 :> z

\* The first branch has every address; the addresses that start with two ones are the second's too.
MCNetworks ==
    {[branch |-> b1, address |-> None,
      cidr |-> [range |-> MCAddress(1, 1, 1), prefixLength |-> 0]],
     [branch |-> b2, address |-> None,
      cidr |-> [range |-> MCAddress(1, 1, 1), prefixLength |-> 2]]}
MCBranchOf == o1 :> b1 @@ o2 :> b2
MCTrustedIps == o1 :> {MCAddress(0, 0, 0)} @@ o2 :> {}
MCDistance == p1 :> (o1 :> 5 @@ o2 :> 7)
MCMarks == {[ip |-> MCAddress(1, 0, 1), place |-> None], [ip |-> MCAddress(1, 1, 0), place |-> None],
            [ip |-> None, place |-> p1]}

\* One office and nothing else; one office, a schedule in use and a holiday on its working
\* day; or a schedule in use and two offices.  Holidays can be made from the first only.
MCSeeds ==
    LET open    == [live |-> TRUE, isActive |-> TRUE]
        holiday == [live |-> TRUE, isActive |-> TRUE, date |-> 1, target |-> sales]
        removed == [holiday EXCEPT !.live = FALSE]
        bare == [schedules |-> [s \in Schedules |-> None],
                 holidays |-> [y \in HolidayIds |-> None],
                 offices |-> (o1 :> open @@ o2 :> None),
                 assignments |-> <<>>]
        scheduled ==
            [bare EXCEPT
                !.schedules[s1] = [live |-> TRUE, weekDays |-> [monday |-> None, sunday |-> FALSE]],
                !.assignments = <<[employee |-> ann, schedule |-> s1, from |-> 1, to |-> None]>>]
    IN  {bare,
         [scheduled EXCEPT !.holidays = y1 :> holiday @@ y2 :> removed],
         [scheduled EXCEPT !.holidays = [y \in HolidayIds |-> removed], !.offices[o2] = open]}

MCSymmetry == Permutations(Handlers)
=============================================================================

---------------------------- MODULE MCPersonnel -----------------------------
(***************************************************************************)
(* Three organisations to start from: none, an employee in the department  *)
(* of a branch, and a branch and a department with everything else that    *)
(* may keep them.                                                          *)
(***************************************************************************)
EXTENDS Personnel, TLC

CONSTANTS c1, c2, t1, b1, d1, d2, l1, n1, o1, a1, a2, y1, r1, m1, e1, e2

NoRows == [id \in Ids |-> None]
Acme == c1 :> [live |-> TRUE]
BranchOf(type) == b1 :> [live |-> TRUE, company |-> c1, officeType |-> type]
DepartmentOf(d, parent) == d :> [live |-> TRUE, company |-> c1, parent |-> parent]

Staffed ==
    Acme @@ BranchOf(None) @@ DepartmentOf(d1, None)
    @@ a1 :> [live |-> TRUE, branch |-> b1, department |-> d1]
    @@ e1 :> [live |-> TRUE, branch |-> b1, department |-> d1, status |-> "active"]
    @@ NoRows

Equipped ==
    Acme @@ c2 :> [live |-> TRUE] @@ t1 :> [live |-> TRUE, company |-> c1]
    @@ BranchOf(t1) @@ DepartmentOf(d1, None) @@ DepartmentOf(d2, d1)
    @@ l1 :> [live |-> TRUE, branch |-> b1] @@ n1 :> [live |-> TRUE, branch |-> b1]
    @@ o1 :> [live |-> TRUE, branch |-> b1] @@ y1 :> [live |-> TRUE, department |-> d1]
    @@ NoRows

MCSeeds == {NoRows, Staffed, Equipped}

MCSymmetry == Permutations(Handlers)
=============================================================================

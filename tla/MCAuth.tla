------------------------------- MODULE MCAuth -------------------------------
(***************************************************************************)
(* Small instances of Auth: one role, and the updates of an account that   *)
(* disable and enable it.                                                  *)
(***************************************************************************)
EXTENDS Auth, TLC

MCRoles == {"employee"}
MCRoleTemplate == [role \in MCRoles |-> {}]

MCNoEdit == [role |-> None, permissions |-> None, mergeWithRoleTemplate |-> FALSE,
             isActive |-> None]
MCAccessDtos == {[MCNoEdit EXCEPT !.isActive = FALSE], [MCNoEdit EXCEPT !.isActive = TRUE]}
MCLimits == [w \in Windows |-> 2]

MCSymmetry == Permutations(Handlers) \cup Permutations(Devices) \cup Permutations(Passwords)
=============================================================================

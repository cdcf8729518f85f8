------------------------------ MODULE MCLeave ------------------------------
(***************************************************************************)
(* Small instances of Leave.  The three days run over the end of a year.   *)
(***************************************************************************)
EXTENDS Leave, TLC

MCDays == 30 .. 32
MCYearOf == [d \in MCDays |-> IF d < 32 THEN 1 ELSE 2]
MCOneYear == [d \in {1, 2} |-> 1]
MCOneDay == [d \in {1} |-> 1]

MCSymmetry == Permutations(Handlers) \cup Permutations(RequestIds)
=============================================================================

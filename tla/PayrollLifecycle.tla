------------------------- MODULE PayrollLifecycle --------------------------
(***************************************************************************)
(* What payroll promises about one run after another: a run is opened as a *)
(* draft, its pay may be amended only while it is a draft, it is submitted *)
(* once there is somebody to pay, and it is decided once, for good.        *)
(* Nothing is said of handlers, copies in memory, totals or workflows.     *)
(***************************************************************************)
CONSTANTS RunIds, PayTables, NobodyPaid

VARIABLES
    phase,   \* "absent", or the status of each run
    pay      \* the items of each run

vars == <<phase, pay>>

Init ==
    /\ phase = [r \in RunIds |-> "absent"]
    /\ pay = [r \in RunIds |-> NobodyPaid]

Become(r, from, to) ==
    /\ phase[r] = from
    /\ phase' = [phase EXCEPT ![r] = to]
    /\ UNCHANGED pay

Open(r) == Become(r, "absent", "draft")

Amend(r) ==
    /\ phase[r] = "draft"
    /\ pay' \in {[pay EXCEPT ![r] = table] : table \in PayTables}
    /\ UNCHANGED phase

Submit(r) == pay[r] # NobodyPaid /\ Become(r, "draft", "pending_approval")

Decide(r) ==
    \E outcome \in {"approved", "rejected"} : Become(r, "pending_approval", outcome)

Next == \E r \in RunIds : Open(r) \/ Amend(r) \/ Submit(r) \/ Decide(r)

Spec == Init /\ [][Next]_vars
=============================================================================

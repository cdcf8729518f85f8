---------------------------- MODULE LeaveLedger ----------------------------
(***************************************************************************)
(* What leave management promises, without the columns it keeps the books  *)
(* in: an entitlement per account (employee, leave type and year), and     *)
(* requests that are decided once.  The days of the requests not rejected  *)
(* never come to more than the entitlement at the time one is added.       *)
(***************************************************************************)
EXTENDS Integers, FiniteSetsExt

CONSTANTS RequestIds, Accounts, None

VARIABLES
    entitlement,   \* days, or None, of each account
    limited,       \* the accounts whose leave type requires a balance
    ledger         \* the requests: account, days and status

vars == <<entitlement, limited, ledger>>

Init ==
    /\ entitlement = [a \in Accounts |-> None]
    /\ limited = {}
    /\ ledger = [r \in RequestIds |-> None]

\* The days of an account that are asked for or granted.
Booked(a) ==
    MapThenSumSet(LAMBDA r : ledger[r].days,
                  {r \in RequestIds : /\ ledger[r] # None
                                      /\ ledger[r].account = a
                                      /\ ledger[r].status # "rejected"})

\* An administrator may change an entitlement at any time, even below what is booked.
Allocate(a) ==
    /\ entitlement'[a] \in Nat
    /\ entitlement' = [entitlement EXCEPT ![a] = entitlement'[a]]
    /\ UNCHANGED <<limited, ledger>>

\* A new leave type: nothing is asked of its accounts yet.
OpenType ==
    /\ limited \subseteq limited'
    /\ \A r \in RequestIds : ledger[r] # None => ledger[r].account \notin limited' \ limited
    /\ UNCHANGED <<entitlement, ledger>>

Ask(r) ==
    LET new == ledger'[r]
    IN  /\ ledger[r] = None
        /\ new # None
        /\ new.status = "pending"
        /\ new.days > 0
        /\ new.account \in limited =>
               /\ entitlement[new.account] # None
               /\ Booked(new.account) + new.days <= entitlement[new.account]
        /\ ledger' = [ledger EXCEPT ![r] = new]
        /\ UNCHANGED <<entitlement, limited>>

Decide(r) ==
    /\ ledger[r] # None
    /\ ledger[r].status = "pending"
    /\ \E decision \in {"approved", "rejected"} :
           ledger' = [ledger EXCEPT ![r].status = decision]
    /\ UNCHANGED <<entitlement, limited>>

Next ==
    \/ \E a \in Accounts : Allocate(a)
    \/ OpenType
    \/ \E r \in RequestIds : Ask(r) \/ Decide(r)

Spec == Init /\ [][Next]_vars
=============================================================================

------------------------------- MODULE Leave -------------------------------
(***************************************************************************)
(* Leave types, leave balances and leave requests (LeaveService).          *)
(*                                                                         *)
(* As in PayrollApproval a request runs in a handler that stops at every   *)
(* `await` on the database: an action is what the code does from one call  *)
(* to the next, and saving a row that was read earlier writes the          *)
(* handler's copy of it back over whatever the row has become.             *)
(* A request refused before it has written anything has no action.         *)
(*                                                                         *)
(* A calendar day is a number, and balances are in whole days.  Employees  *)
(* are never removed.  Of a leave type only requiresBalance is read by any *)
(* code (isActive is not), and no route leads to removeLeaveType: leave    *)
(* types only come.                                                        *)
(***************************************************************************)
EXTENDS Integers, FiniteSetsExt

CONSTANTS
    Employees,
    LeaveTypes,          \* ids of leave types      (bounds how many are created)
    RequestIds,          \* ids of leave requests   (bounds how many are created)
    Days,                \* the calendar days, numbered consecutively
    yearOf,              \* the UTC year of a day
    Allocations,         \* totalAllocated and carryForward amounts that may be set
    Corrections,         \* used and pending amounts that may be set
    RequirementEdits,    \* values an update of a leave type may give requiresBalance
    Handlers,            \* requests in flight at once
    MaxFailures,         \* how many handlers may die between two of their steps
    None                 \* null: no row, no value

Years == {yearOf[d] : d \in Days}

ASSUME LeaveAssumption ==
    /\ Days \subseteq Nat
    /\ yearOf \in [Days -> Nat]
    /\ Allocations \subseteq Nat
    /\ Corrections \subseteq Nat
    /\ RequirementEdits \subseteq BOOLEAN
    /\ MaxFailures \in Nat
    /\ None \notin Nat \cup BOOLEAN

-----------------------------------------------------------------------------
(***************************************************************************)
(* Rows                                                                    *)
(***************************************************************************)
LeaveType == [requiresBalance : BOOLEAN]

\* A balance is unique per employee, leave type and year.
Account == Employees \X LeaveTypes \X Years

Balance == [totalAllocated : Nat, carryForward : Nat, used : Nat, pending : Nat]

LeaveRequest ==
    [employee : Employees, leaveType : LeaveTypes, startDate : Days,
     requestedDays : Nat \ {0}, status : {"pending", "approved", "rejected"}]

ASSUME RowAssumption == None \notin LeaveType \cup Balance \cup LeaveRequest

Entitlement(balance) == balance.totalAllocated + balance.carryForward

\* Wrong on purpose (see the README on mutants): days that are asked for are still free.
AvailableAfterUsed(balance) == Entitlement(balance) - balance.used

Available(balance) == Entitlement(balance) - balance.used - balance.pending

\* calculateLeaveDays: both ends count.
CalculateLeaveDays(start, end) == end - start + 1

\* All the days of a request are booked in the year of its first day.
AccountOf(request) == <<request.employee, request.leaveType, yearOf[request.startDate]>>

\* The columns an administrator may set; None where the field is left out.
BalanceDto ==
    [totalAllocated : Allocations, carryForward : Allocations \cup {None},
     used : Corrections \cup {None}, pending : Corrections \cup {None}]

\* `??`
OrElse(new, old) == IF new = None THEN old ELSE new

NewBalance == [totalAllocated |-> 0, carryForward |-> 0, used |-> 0, pending |-> 0]

SetColumns(dto, old) ==
    [totalAllocated |-> dto.totalAllocated,
     carryForward   |-> OrElse(dto.carryForward, old.carryForward),
     used           |-> OrElse(dto.used, old.used),
     pending        |-> OrElse(dto.pending, old.pending)]

\* The balance as create leaves it in memory.
Reserved(balance, request) == [balance EXCEPT !.pending = @ + request.requestedDays]

\* Wrong on purpose: pending may fall below zero...
ReleasedUnclamped(balance, request) ==
    [balance EXCEPT
        !.pending = @ - request.requestedDays,
        !.used    = IF request.status = "approved" THEN @ + request.requestedDays ELSE @]

\* ...or only an approval releases it.
ReleasedIfApproved(balance, request) ==
    IF request.status = "approved"
    THEN [balance EXCEPT !.pending = IF request.requestedDays < @
                                     THEN @ - request.requestedDays ELSE 0,
                         !.used = @ + request.requestedDays]
    ELSE balance

\* The balance as reviewLeaveRequest leaves it in memory: pending stops at zero.
Released(balance, request) ==
    [balance EXCEPT
        !.pending = IF request.requestedDays < @ THEN @ - request.requestedDays ELSE 0,
        !.used    = IF request.status = "approved" THEN @ + request.requestedDays ELSE @]

(***************************************************************************)
(* What a handler holds in memory at each await, under the name of the     *)
(* database call it is about to make.  The request of a review is held     *)
(* with the decision already in it, as it will be saved.                   *)
(***************************************************************************)
Idle == [at |-> "idle"]

Task ==
    {Idle}
    \cup [at : {"create_balance", "create_save"}, row : LeaveRequest]
    \cup [at : {"create_save_balance"}, row : LeaveRequest, balance : Balance]
    \cup [at : {"review_balance", "review_save"}, request : RequestIds, row : LeaveRequest]
    \cup [at : {"review_save_balance"}, request : RequestIds, row : LeaveRequest,
          balance : Balance]
    \cup [at : {"set_read"}, account : Account, dto : BalanceDto]
    \cup [at : {"set_save"}, account : Account, balance : Balance, fresh : BOOLEAN]
    \cup [at : {"type_save"}, leaveType : LeaveTypes, row : LeaveType]

-----------------------------------------------------------------------------
VARIABLES
    types,      \* leave_types
    balances,   \* employee_leave_balances
    requests,   \* leave_requests
    task,       \* what each handler is doing
    failures,   \* how many handlers have died so far
    calm        \* history: no two requests have overlapped, no `used` column was corrected
                \* by hand, and no leave type has been given another requirement

tables == <<types, balances, requests>>
vars == <<types, balances, requests, task, failures, calm>>

Init ==
    /\ types = [t \in LeaveTypes |-> None]
    /\ balances = [a \in Account |-> None]
    /\ requests = [r \in RequestIds |-> None]
    /\ task = [h \in Handlers |-> Idle]
    /\ failures = 0
    /\ calm = TRUE

Continue(h, next) == task' = [task EXCEPT ![h] = next]
Finish(h) == Continue(h, Idle)
At(h, place) == task[h].at = place

Quiescent == \A h \in Handlers : At(h, "idle")

-----------------------------------------------------------------------------
(***************************************************************************)
(* POST /leave-requests                                                    *)
(***************************************************************************)
CreateRequest(h, e, t, start, end) ==
    /\ At(h, "idle")
    /\ types[t] # None
    /\ CalculateLeaveDays(start, end) > 0
    /\ Continue(h, [at  |-> IF types[t].requiresBalance THEN "create_balance"
                                                        ELSE "create_save",
                    row |-> [employee |-> e, leaveType |-> t, startDate |-> start,
                             requestedDays |-> CalculateLeaveDays(start, end),
                             status |-> "pending"]])
    /\ calm' = (calm /\ Quiescent)
    /\ UNCHANGED <<tables, failures>>

\* No balance, or too small a one, and the request is refused.
CreateReadBalance(h) ==
    LET row     == task[h].row
        balance == balances[AccountOf(row)]
    IN  /\ At(h, "create_balance")
        /\ IF balance = None \/ Available(balance) < row.requestedDays
           THEN Finish(h)
           ELSE Continue(h, [at |-> "create_save_balance", row |-> row,
                             balance |-> Reserved(balance, row)])
        /\ UNCHANGED <<tables, failures, calm>>

CreateSaveBalance(h) ==
    /\ At(h, "create_save_balance")
    /\ balances' = [balances EXCEPT ![AccountOf(task[h].row)] = task[h].balance]
    /\ Continue(h, [at |-> "create_save", row |-> task[h].row])
    /\ UNCHANGED <<types, requests, failures, calm>>

CreateSave(h) ==
    /\ At(h, "create_save")
    /\ \E r \in RequestIds :
           /\ requests[r] = None
           /\ requests' = [requests EXCEPT ![r] = task[h].row]
    /\ Finish(h)
    /\ UNCHANGED <<types, balances, failures, calm>>

(***************************************************************************)
(* PATCH /leave-requests/:id/review                                        *)
(***************************************************************************)

\* Wrong on purpose: any status of the enumeration is accepted as a decision...
ReviewWithAnyStatus(h, r, decision) ==
    /\ At(h, "idle")
    /\ requests[r] # None
    /\ requests[r].status = "pending"
    /\ \E status \in {decision, "pending"} :
           Continue(h, [at      |-> IF types[requests[r].leaveType].requiresBalance
                                    THEN "review_balance" ELSE "review_save",
                        request |-> r,
                        row     |-> [requests[r] EXCEPT !.status = status]])
    /\ calm' = (calm /\ Quiescent)
    /\ UNCHANGED <<tables, failures>>

\* ...or the request is saved before its balance.
ReviewSavesRequestFirst(h, r, decision) ==
    /\ At(h, "idle")
    /\ requests[r] # None
    /\ requests[r].status = "pending"
    /\ requests' = [requests EXCEPT ![r].status = decision]
    /\ Continue(h, [at      |-> IF types[requests[r].leaveType].requiresBalance
                                THEN "review_balance" ELSE "review_save",
                    request |-> r,
                    row     |-> [requests[r] EXCEPT !.status = decision]])
    /\ calm' = (calm /\ Quiescent)
    /\ UNCHANGED <<types, balances, failures>>

\* The leave type is loaded with the request.
ReviewLeaveRequest(h, r, decision) ==
    /\ At(h, "idle")
    /\ requests[r] # None
    /\ requests[r].status = "pending"
    /\ Continue(h, [at      |-> IF types[requests[r].leaveType].requiresBalance
                                THEN "review_balance" ELSE "review_save",
                    request |-> r,
                    row     |-> [requests[r] EXCEPT !.status = decision]])
    /\ calm' = (calm /\ Quiescent)
    /\ UNCHANGED <<tables, failures>>

ReviewReadBalance(h) ==
    LET row     == task[h].row
        balance == balances[AccountOf(row)]
    IN  /\ At(h, "review_balance")
        /\ IF balance = None
           THEN Finish(h)
           ELSE Continue(h, [at |-> "review_save_balance", request |-> task[h].request,
                             row |-> row, balance |-> Released(balance, row)])
        /\ UNCHANGED <<tables, failures, calm>>

ReviewSaveBalance(h) ==
    /\ At(h, "review_save_balance")
    /\ balances' = [balances EXCEPT ![AccountOf(task[h].row)] = task[h].balance]
    /\ Continue(h, [at |-> "review_save", request |-> task[h].request,
                    row |-> task[h].row])
    /\ UNCHANGED <<types, requests, failures, calm>>

ReviewSave(h) ==
    /\ At(h, "review_save")
    /\ requests' = [requests EXCEPT ![task[h].request] = task[h].row]
    /\ Finish(h)
    /\ UNCHANGED <<types, balances, failures, calm>>

(***************************************************************************)
(* PATCH /leave-requests/balances                                          *)
(***************************************************************************)
SetLeaveBalance(h, a, dto) ==
    /\ At(h, "idle")
    /\ types[a[2]] # None
    /\ Continue(h, [at |-> "set_read", account |-> a, dto |-> dto])
    /\ calm' = (calm /\ Quiescent /\ dto.used = None)
    /\ UNCHANGED <<tables, failures>>

SetReadBalance(h) ==
    LET found == balances[task[h].account]
    IN  /\ At(h, "set_read")
        /\ Continue(h, [at |-> "set_save", account |-> task[h].account,
                        balance |-> SetColumns(task[h].dto,
                                               IF found = None THEN NewBalance ELSE found),
                        fresh |-> found = None])
        /\ UNCHANGED <<tables, failures, calm>>

\* Inserting a balance that another request has inserted meanwhile breaks the unique key.
SetSave(h) ==
    /\ At(h, "set_save")
    /\ balances' = IF task[h].fresh /\ balances[task[h].account] # None
                   THEN balances
                   ELSE [balances EXCEPT ![task[h].account] = task[h].balance]
    /\ Finish(h)
    /\ UNCHANGED <<types, requests, failures, calm>>

(***************************************************************************)
(* POST and PATCH /leave-requests/types                                    *)
(***************************************************************************)
CreateLeaveType(t, requiresBalance) ==
    /\ types[t] = None
    /\ types' = [types EXCEPT ![t] = [requiresBalance |-> requiresBalance]]
    /\ UNCHANGED <<balances, requests, task, failures, calm>>

UpdateLeaveType(h, t, requiresBalance) ==
    /\ At(h, "idle")
    /\ types[t] # None
    /\ Continue(h, [at |-> "type_save", leaveType |-> t,
                    row |-> [types[t] EXCEPT !.requiresBalance =
                                 OrElse(requiresBalance, @)]])
    /\ calm' = (calm /\ Quiescent /\ requiresBalance = None)
    /\ UNCHANGED <<tables, failures>>

TypeSave(h) ==
    /\ At(h, "type_save")
    /\ types' = [types EXCEPT ![task[h].leaveType] = task[h].row]
    /\ Finish(h)
    /\ UNCHANGED <<balances, requests, failures, calm>>

-----------------------------------------------------------------------------
\* A database call is rejected or the process stops: what was saved stays saved.
Fail(h) ==
    /\ failures < MaxFailures
    /\ ~At(h, "idle")
    /\ Finish(h)
    /\ failures' = failures + 1
    /\ UNCHANGED <<tables, calm>>

\* A request arrives at handler h.
Begin(h) ==
    \/ \E e \in Employees, t \in LeaveTypes, start \in Days, end \in Days :
           CreateRequest(h, e, t, start, end)
    \/ \E r \in RequestIds, decision \in {"approved", "rejected"} :
           ReviewLeaveRequest(h, r, decision)
    \/ \E a \in Account, dto \in BalanceDto : SetLeaveBalance(h, a, dto)
    \/ \E t \in LeaveTypes, flag \in RequirementEdits \cup {None} : UpdateLeaveType(h, t, flag)

\* Handler h makes its next database call.
Proceed(h) ==
    \/ CreateReadBalance(h) \/ CreateSaveBalance(h) \/ CreateSave(h)
    \/ ReviewReadBalance(h) \/ ReviewSaveBalance(h) \/ ReviewSave(h)
    \/ SetReadBalance(h) \/ SetSave(h) \/ TypeSave(h)

Next ==
    \/ \E h \in Handlers : Begin(h) \/ Proceed(h) \/ Fail(h)
    \/ \E t \in LeaveTypes, flag \in BOOLEAN : CreateLeaveType(t, flag)

Spec == Init /\ [][Next]_vars

-----------------------------------------------------------------------------
(***************************************************************************)
(* Properties of every interleaving, with handlers dying anywhere          *)
(***************************************************************************)

\* Every row, and every row a handler holds across an await, has the columns and the
\* values its entity declares; no balance column is ever negative.
TypeOK ==
    /\ types \in [LeaveTypes -> LeaveType \cup {None}]
    /\ balances \in [Account -> Balance \cup {None}]
    /\ requests \in [RequestIds -> LeaveRequest \cup {None}]
    /\ task \in [Handlers -> Task]
    /\ failures \in 0 .. MaxFailures
    /\ calm \in BOOLEAN

Decided(r) == requests[r] # None /\ requests[r].status # "pending"

\* Two copies of a request that differ in nothing but the decision.
SameTerms(q, p) == [q EXCEPT !.status = p.status] = p

\* A request is stored once and keeps its employee, leave type, dates and days; once it
\* has been decided it never becomes pending again, whatever stale copies are saved.
RequestsEndure ==
    [][\A r \in RequestIds :
           requests[r] # None =>
               /\ requests'[r] # None
               /\ SameTerms(requests'[r], requests[r])
               /\ Decided(r) => Decided(r)']_vars

\* reviewLeaveRequest decides pending requests only: a decision is never changed.
DecidedOnce ==
    [][\A r \in RequestIds : Decided(r) => requests'[r] = requests[r]]_vars

(***************************************************************************)
(* Properties of one request after another                                 *)
(***************************************************************************)
\* The requests that the balance of account a answers for.
Charged(a, status) ==
    {r \in RequestIds : /\ requests[r] # None
                        /\ AccountOf(requests[r]) = a
                        /\ types[a[2]].requiresBalance
                        /\ requests[r].status = status}

DaysOf(ids) == MapThenSumSet(LAMBDA r : requests[r].requestedDays, ids)

\* The used and pending columns are the days of the approved and of the pending requests:
\* create, reviewLeaveRequest and setLeaveBalance keep the two tables together.
Reconciled ==
    Quiescent =>
        \A a \in Account : balances[a] # None =>
            /\ balances[a].used = DaysOf(Charged(a, "approved"))
            /\ balances[a].pending = DaysOf(Charged(a, "pending"))

\* A request that is not there is not an entry of the ledger either.
ASSUME EntryAssumption ==
    None \notin [account : Account, days : Nat \ {0},
                 status : {"pending", "approved", "rejected"}]

\* Read without its used and pending columns, leave is the ledger it promises.
Ledger ==
    INSTANCE LeaveLedger WITH
        Accounts    <- Account,
        entitlement <- [a \in Account |-> IF balances[a] = None THEN None
                                                               ELSE Entitlement(balances[a])],
        limited     <- {a \in Account : types[a[2]] # None /\ types[a[2]].requiresBalance},
        ledger      <- [r \in RequestIds |->
                           IF requests[r] = None THEN None
                           ELSE [account |-> AccountOf(requests[r]),
                                 days    |-> requests[r].requestedDays,
                                 status  |-> requests[r].status]]

LedgerSpec == Ledger!Spec

(***************************************************************************)
(* Properties of one request after another, each of which may be cut short *)
(***************************************************************************)

\* A handler that dies between its two saves may leave days reserved that nobody asked for
\* or booked twice; but requests that come one after the other, cut short or not, never
\* grant leave without booking it: the days of the approved requests are in the used column.
CalmLeaveIsBooked ==
    calm => \A a \in Account : balances[a] # None =>
                balances[a].used >= DaysOf(Charged(a, "approved"))

-----------------------------------------------------------------------------
(***************************************************************************)
(* The inductive invariant behind RequestsEndure, and the condition under  *)
(* which reviewLeaveRequest keeps its promise.                             *)
(***************************************************************************)
Reviewing(h) == task[h].at \in {"review_balance", "review_save_balance", "review_save"}

\* The copy a review holds is a decided copy of the request it is about.
ReviewsHoldTheirRequest ==
    \A h \in Handlers : Reviewing(h) =>
        /\ requests[task[h].request] # None
        /\ SameTerms(task[h].row, requests[task[h].request])
        /\ task[h].row.status # "pending"

IInv == TypeOK /\ ReviewsHoldTheirRequest

\* No two handlers review the same request at the same time.  The code does not see to it.
OneReviewEach ==
    \A g, h \in Handlers :
        g # h /\ Reviewing(g) /\ Reviewing(h) => task[g].request # task[h].request

ReviewedIsPending ==
    \A h \in Handlers : Reviewing(h) => requests[task[h].request].status = "pending"
=============================================================================

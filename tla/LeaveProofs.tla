---------------------------- MODULE LeaveProofs ----------------------------
(***************************************************************************)
(* What holds of leave for any number of employees, leave types, requests  *)
(* and handlers, with handlers that overlap in any way and die anywhere;   *)
(* what would follow if no two reviews of one request overlapped; and what *)
(* the columns of a balance have to do with the requests.                  *)
(***************************************************************************)
EXTENDS Leave, FiniteSums

-----------------------------------------------------------------------------
(***************************************************************************)
(* Types                                                                   *)
(***************************************************************************)

\* What a handler holds at each of its stops.
LEMMA TaskFields ==
    ASSUME NEW t \in Task
    PROVE  /\ t.at \in {"create_balance", "create_save_balance", "create_save",
                        "review_balance", "review_save_balance", "review_save"} =>
                t.row \in LeaveRequest
           /\ t.at \in {"create_save_balance", "review_save_balance", "set_save"} =>
                t.balance \in Balance
           /\ t.at \in {"review_balance", "review_save_balance", "review_save"} =>
                t.request \in RequestIds
           /\ t.at \in {"set_read", "set_save"} => t.account \in Account
           /\ t.at = "set_read" => t.dto \in BalanceDto
           /\ t.at = "set_save" => t.fresh \in BOOLEAN
           /\ t.at = "type_save" => t.leaveType \in LeaveTypes /\ t.row \in LeaveType
BY DEF Task, Idle

LEMMA ContinueTyped ==
    ASSUME task \in [Handlers -> Task], NEW h \in Handlers, NEW next \in Task,
           Continue(h, next)
    PROVE  /\ task' \in [Handlers -> Task]
           /\ task'[h] = next
           /\ \A g \in Handlers : g # h => task'[g] = task[g]
BY DEF Continue

LEMMA FinishTyped ==
    ASSUME task \in [Handlers -> Task], NEW h \in Handlers, Finish(h)
    PROVE  /\ task' \in [Handlers -> Task]
           /\ task'[h] = Idle
           /\ \A g \in Handlers : g # h => task'[g] = task[g]
BY DEF Finish, Continue, Task

\* A request is charged to an account of its leave type.
LEMMA AccountTyped ==
    ASSUME NEW row \in LeaveRequest
    PROVE  AccountOf(row) \in Account
BY LeaveAssumption DEF LeaveRequest, AccountOf, Account, Years

\* What the handlers compute from a balance is a balance: in particular pending, which
\* reviewLeaveRequest lowers, never falls below zero.
LEMMA ReservedTyped ==
    ASSUME NEW balance \in Balance, NEW row \in LeaveRequest
    PROVE  Reserved(balance, row) \in Balance
BY DEF Balance, Reserved, LeaveRequest

LEMMA ReleasedTyped ==
    ASSUME NEW balance \in Balance, NEW row \in LeaveRequest
    PROVE  Released(balance, row) \in Balance
<1>1. row.requestedDays \in Nat
  BY DEF LeaveRequest
<1>2. (IF row.requestedDays < balance.pending
       THEN balance.pending - row.requestedDays ELSE 0) \in Nat
  BY <1>1 DEF Balance
<1>3. (IF row.status = "approved"
       THEN balance.used + row.requestedDays ELSE balance.used) \in Nat
  BY <1>1 DEF Balance
<1> QED BY <1>2, <1>3 DEF Balance, Released

LEMMA SetTyped ==
    ASSUME NEW balance \in Balance, NEW dto \in BalanceDto
    PROVE  SetColumns(dto, balance) \in Balance
BY LeaveAssumption DEF Balance, BalanceDto, SetColumns, OrElse

LEMMA TypeInit == Init => TypeOK
BY LeaveAssumption DEF Init, TypeOK, Task

\* One step per action; where a handler goes on, the step says what it holds next.
LEMMA TypeNext == TypeOK /\ [Next]_vars => TypeOK'
<1> SUFFICES ASSUME TypeOK, [Next]_vars PROVE TypeOK'
  OBVIOUS
<1> USE LeaveAssumption, RowAssumption
<1>1. ASSUME NEW h \in Handlers, NEW e \in Employees, NEW t \in LeaveTypes,
             NEW start \in Days, NEW end \in Days, CreateRequest(h, e, t, start, end)
      PROVE  TypeOK'
  <2> DEFINE row == [employee |-> e, leaveType |-> t, startDate |-> start,
                     requestedDays |-> CalculateLeaveDays(start, end),
                     status |-> "pending"]
  <2>1. row \in LeaveRequest
    <3>1. CalculateLeaveDays(start, end) \in Nat \ {0}
      <4>1. start \in Nat /\ end \in Nat
        OBVIOUS
      <4>2. CalculateLeaveDays(start, end) \in Int
        BY <4>1 DEF CalculateLeaveDays
      <4> QED BY <1>1, <4>2 DEF CreateRequest
    <3> HIDE DEF CalculateLeaveDays
    <3> QED BY <3>1 DEF LeaveRequest
  <2>2. PICK place \in {"create_balance", "create_save"} :
          Continue(h, [at |-> place, row |-> row])
    BY <1>1 DEF CreateRequest
  <2>3. [at |-> place, row |-> row] \in Task
    BY <2>1 DEF Task
  <2>4. task' \in [Handlers -> Task]
    BY <2>2, <2>3, ContinueTyped DEF TypeOK
  <2> QED BY <1>1, <2>4 DEF CreateRequest, TypeOK, tables
<1>2. ASSUME NEW h \in Handlers, CreateReadBalance(h) PROVE TypeOK'
  <2> DEFINE row == task[h].row
             balance == balances[AccountOf(row)]
             t == [at |-> "create_save_balance", row |-> row,
                   balance |-> Reserved(balance, row)]
  <2>1. row \in LeaveRequest
    BY <1>2, TaskFields DEF TypeOK, CreateReadBalance, At
  <2>2. balance \in Balance \cup {None}
    BY <2>1, AccountTyped DEF TypeOK
  <2>3. CASE Finish(h)
    BY <1>2, <2>3, FinishTyped DEF CreateReadBalance, TypeOK, tables
  <2>4. CASE balance # None /\ Continue(h, t)
    <3>1. Reserved(balance, row) \in Balance
      <4>1. balance \in Balance
        BY <2>2, <2>4
      <4> HIDE DEF balance, row
      <4> QED BY <2>1, <4>1, ReservedTyped
    <3>2. t \in Task
      BY <2>1, <3>1 DEF Task
    <3>3. task' \in [Handlers -> Task]
      BY <2>4, <3>2, ContinueTyped DEF TypeOK
    <3> QED BY <1>2, <3>3 DEF CreateReadBalance, TypeOK, tables
  <2> QED BY <1>2, <2>3, <2>4 DEF CreateReadBalance
<1>3. ASSUME NEW h \in Handlers, CreateSaveBalance(h) PROVE TypeOK'
  <2>1. task[h].row \in LeaveRequest /\ task[h].balance \in Balance
    BY <1>3, TaskFields DEF TypeOK, CreateSaveBalance, At
  <2>2. [at |-> "create_save", row |-> task[h].row] \in Task
    BY <2>1 DEF Task
  <2>3. task' \in [Handlers -> Task]
    BY <1>3, <2>2, ContinueTyped DEF TypeOK, CreateSaveBalance
  <2> QED BY <1>3, <2>1, <2>3 DEF CreateSaveBalance, TypeOK
<1>4. ASSUME NEW h \in Handlers, CreateSave(h) PROVE TypeOK'
  <2>1. task[h].row \in LeaveRequest
    BY <1>4, TaskFields DEF TypeOK, CreateSave, At
  <2>2. task' \in [Handlers -> Task]
    BY <1>4, FinishTyped DEF TypeOK, CreateSave
  <2> QED BY <1>4, <2>1, <2>2 DEF CreateSave, TypeOK
<1>5. ASSUME NEW h \in Handlers, NEW r \in RequestIds,
             NEW decision \in {"approved", "rejected"}, ReviewLeaveRequest(h, r, decision)
      PROVE  TypeOK'
  <2> DEFINE row == [requests[r] EXCEPT !.status = decision]
  <2>1. row \in LeaveRequest
    BY <1>5 DEF ReviewLeaveRequest, TypeOK, LeaveRequest
  <2>2. PICK place \in {"review_balance", "review_save"} :
          Continue(h, [at |-> place, request |-> r, row |-> row])
    BY <1>5 DEF ReviewLeaveRequest
  <2> HIDE DEF row
  <2>3. [at |-> place, request |-> r, row |-> row] \in Task
    BY <2>1 DEF Task
  <2>4. task' \in [Handlers -> Task]
    BY <2>2, <2>3, ContinueTyped DEF TypeOK
  <2> QED BY <1>5, <2>4 DEF ReviewLeaveRequest, TypeOK, tables
<1>6. ASSUME NEW h \in Handlers, ReviewReadBalance(h) PROVE TypeOK'
  <2> DEFINE row == task[h].row
             balance == balances[AccountOf(row)]
             t == [at |-> "review_save_balance", request |-> task[h].request,
                   row |-> row, balance |-> Released(balance, row)]
  <2>1. row \in LeaveRequest /\ task[h].request \in RequestIds
    BY <1>6, TaskFields DEF TypeOK, ReviewReadBalance, At
  <2>2. balance \in Balance \cup {None}
    BY <2>1, AccountTyped DEF TypeOK
  <2>3. CASE balance = None
    BY <1>6, <2>3, FinishTyped DEF ReviewReadBalance, TypeOK, tables
  <2>4. CASE balance # None
    <3>1. Released(balance, row) \in Balance
      <4>1. balance \in Balance
        BY <2>2, <2>4
      <4> HIDE DEF balance, row
      <4> QED BY <2>1, <4>1, ReleasedTyped
    <3>2. t \in Task
      BY <2>1, <3>1 DEF Task
    <3>3. task' \in [Handlers -> Task]
      BY <1>6, <2>4, <3>2, ContinueTyped DEF TypeOK, ReviewReadBalance
    <3> QED BY <1>6, <3>3 DEF ReviewReadBalance, TypeOK, tables
  <2> QED BY <2>3, <2>4
<1>7. ASSUME NEW h \in Handlers, ReviewSaveBalance(h) PROVE TypeOK'
  <2>1. /\ task[h].row \in LeaveRequest /\ task[h].balance \in Balance
        /\ task[h].request \in RequestIds
    BY <1>7, TaskFields DEF TypeOK, ReviewSaveBalance, At
  <2>2. [at |-> "review_save", request |-> task[h].request, row |-> task[h].row] \in Task
    BY <2>1 DEF Task
  <2>3. task' \in [Handlers -> Task]
    BY <1>7, <2>2, ContinueTyped DEF TypeOK, ReviewSaveBalance
  <2> QED BY <1>7, <2>1, <2>3 DEF ReviewSaveBalance, TypeOK
<1>8. ASSUME NEW h \in Handlers, ReviewSave(h) PROVE TypeOK'
  <2>1. task[h].row \in LeaveRequest
    BY <1>8, TaskFields DEF TypeOK, ReviewSave, At
  <2>2. task' \in [Handlers -> Task]
    BY <1>8, FinishTyped DEF TypeOK, ReviewSave
  <2> QED BY <1>8, <2>1, <2>2 DEF ReviewSave, TypeOK
<1>9. ASSUME NEW h \in Handlers, NEW a \in Account, NEW dto \in BalanceDto,
             SetLeaveBalance(h, a, dto)
      PROVE  TypeOK'
  <2>1. [at |-> "set_read", account |-> a, dto |-> dto] \in Task
    BY DEF Task
  <2>2. task' \in [Handlers -> Task]
    BY <1>9, <2>1, ContinueTyped DEF TypeOK, SetLeaveBalance
  <2> QED BY <1>9, <2>2 DEF SetLeaveBalance, TypeOK, tables
<1>10. ASSUME NEW h \in Handlers, SetReadBalance(h) PROVE TypeOK'
  <2> DEFINE found == balances[task[h].account]
             base  == IF found = None THEN NewBalance ELSE found
             t == [at |-> "set_save", account |-> task[h].account,
                   balance |-> SetColumns(task[h].dto, base), fresh |-> found = None]
  <2>1. task[h].account \in Account /\ task[h].dto \in BalanceDto
    BY <1>10, TaskFields DEF TypeOK, SetReadBalance, At
  <2>2. base \in Balance
    BY <2>1 DEF TypeOK, NewBalance, Balance
  <2>3. SetColumns(task[h].dto, base) \in Balance
    <3> HIDE DEF base
    <3> QED BY <2>1, <2>2, SetTyped
  <2>4. t \in Task
    BY <2>1, <2>3 DEF Task
  <2>5. task' \in [Handlers -> Task]
    BY <1>10, <2>4, ContinueTyped DEF TypeOK, SetReadBalance
  <2> QED BY <1>10, <2>5 DEF SetReadBalance, TypeOK, tables
<1>11. ASSUME NEW h \in Handlers, SetSave(h) PROVE TypeOK'
  <2>1. task[h].account \in Account /\ task[h].balance \in Balance
    BY <1>11, TaskFields DEF TypeOK, SetSave, At
  <2>2. task' \in [Handlers -> Task]
    BY <1>11, FinishTyped DEF TypeOK, SetSave
  <2> QED BY <1>11, <2>1, <2>2 DEF SetSave, TypeOK
<1>12. ASSUME NEW h \in Handlers, NEW t \in LeaveTypes,
              NEW flag \in RequirementEdits \cup {None}, UpdateLeaveType(h, t, flag)
       PROVE  TypeOK'
  <2> DEFINE row == [types[t] EXCEPT !.requiresBalance = OrElse(flag, @)]
  <2>1. row \in LeaveType
    BY <1>12 DEF UpdateLeaveType, TypeOK, LeaveType, OrElse
  <2>2. [at |-> "type_save", leaveType |-> t, row |-> row] \in Task
    BY <2>1 DEF Task
  <2>3. task' \in [Handlers -> Task]
    BY <1>12, <2>2, ContinueTyped DEF TypeOK, UpdateLeaveType
  <2> QED BY <1>12, <2>3 DEF UpdateLeaveType, TypeOK, tables
<1>13. ASSUME NEW h \in Handlers, TypeSave(h) PROVE TypeOK'
  <2>1. task[h].leaveType \in LeaveTypes /\ task[h].row \in LeaveType
    BY <1>13, TaskFields DEF TypeOK, TypeSave, At
  <2>2. task' \in [Handlers -> Task]
    BY <1>13, FinishTyped DEF TypeOK, TypeSave
  <2> QED BY <1>13, <2>1, <2>2 DEF TypeSave, TypeOK
<1>14. ASSUME NEW h \in Handlers, Fail(h) PROVE TypeOK'
  BY <1>14, FinishTyped DEF TypeOK, Fail, tables
<1>15. ASSUME NEW t \in LeaveTypes, NEW flag \in BOOLEAN, CreateLeaveType(t, flag)
       PROVE  TypeOK'
  BY <1>15 DEF TypeOK, CreateLeaveType, LeaveType
<1>16. CASE UNCHANGED vars
  BY <1>16 DEF TypeOK, vars
<1>17. ASSUME NEW h \in Handlers, Begin(h) PROVE TypeOK'
  BY <1>1, <1>5, <1>9, <1>12, <1>17 DEF Begin
<1>18. ASSUME NEW h \in Handlers, Proceed(h) PROVE TypeOK'
  BY <1>2, <1>3, <1>4, <1>6, <1>7, <1>8, <1>10, <1>11, <1>13, <1>18 DEF Proceed
<1> QED BY <1>14, <1>15, <1>16, <1>17, <1>18 DEF Next
-----------------------------------------------------------------------------
(***************************************************************************)
(* Reviews                                                                 *)
(***************************************************************************)

\* What a review finds when it starts and what its first step puts in its hands.
LEMMA ReviewStarts ==
    ASSUME TypeOK, NEW h \in Handlers, NEW r \in RequestIds,
           NEW decision \in {"approved", "rejected"}, ReviewLeaveRequest(h, r, decision)
    PROVE  /\ UNCHANGED requests
           /\ requests[r] # None
           /\ requests[r].status = "pending"
           /\ task'[h].request = r
           /\ SameTerms(task'[h].row, requests[r])
           /\ task'[h].row.status = decision
           /\ \A g \in Handlers : g # h => task'[g] = task[g]
<1> DEFINE row == [requests[r] EXCEPT !.status = decision]
<1>1. requests[r] \in LeaveRequest
  BY DEF TypeOK, ReviewLeaveRequest
<1>2. PICK place \in {"review_balance", "review_save"} :
        Continue(h, [at |-> place, request |-> r, row |-> row])
  BY DEF ReviewLeaveRequest
<1>3. task'[h] = [at |-> place, request |-> r, row |-> row]
  BY <1>2 DEF Continue, TypeOK
<1>4. SameTerms(row, requests[r]) /\ row.status = decision
  BY <1>1 DEF SameTerms, LeaveRequest
<1>5. \A g \in Handlers : g # h => task'[g] = task[g]
  BY <1>2 DEF Continue, TypeOK
<1> HIDE DEF row
<1> QED BY <1>3, <1>4, <1>5 DEF ReviewLeaveRequest, tables

\* A step that is not the first or the last of a review changes no stored request other
\* than by adding one, and leaves every review with the request and the copy it had.
Uneventful ==
    /\ \A r \in RequestIds : requests[r] # None => requests'[r] = requests[r]
    /\ \A h \in Handlers : Reviewing(h)' =>
           /\ Reviewing(h)
           /\ task'[h].request = task[h].request
           /\ task'[h].row = task[h].row

\* Every step starts a review, ends one or is uneventful.
LEMMA Steps ==
    ASSUME TypeOK, [Next]_vars
    PROVE  \/ \E h \in Handlers, r \in RequestIds, decision \in {"approved", "rejected"} :
                 ReviewLeaveRequest(h, r, decision)
           \/ \E h \in Handlers : ReviewSave(h)
           \/ Uneventful
<1> USE DEF Uneventful, Reviewing, TypeOK
<1>1. ASSUME NEW h \in Handlers, NEW next, Continue(h, next), UNCHANGED requests,
             next.at \notin {"review_balance", "review_save_balance", "review_save"}
      PROVE  Uneventful
  BY <1>1 DEF Continue
<1>2. ASSUME NEW h \in Handlers, NEW e \in Employees, NEW t \in LeaveTypes,
             NEW start \in Days, NEW end \in Days, CreateRequest(h, e, t, start, end)
      PROVE  Uneventful
  <2> DEFINE row == [employee |-> e, leaveType |-> t, startDate |-> start,
                     requestedDays |-> CalculateLeaveDays(start, end),
                     status |-> "pending"]
  <2>1. PICK place \in {"create_balance", "create_save"} :
          Continue(h, [at |-> place, row |-> row])
    BY <1>2 DEF CreateRequest
  <2> QED BY <1>1, <1>2, <2>1 DEF CreateRequest, tables
<1>3. ASSUME NEW h \in Handlers, CreateReadBalance(h) PROVE Uneventful
  <2>1. CASE Finish(h)
    BY <1>1, <1>3, <2>1 DEF CreateReadBalance, tables, Finish, Idle
  <2>2. CASE ~Finish(h)
    BY <1>1, <1>3, <2>2 DEF CreateReadBalance, tables
  <2> QED BY <2>1, <2>2
<1>4. ASSUME NEW h \in Handlers, CreateSaveBalance(h) PROVE Uneventful
  BY <1>1, <1>4 DEF CreateSaveBalance
<1>5. ASSUME NEW h \in Handlers, CreateSave(h) PROVE Uneventful
  BY <1>5 DEF CreateSave, Finish, Continue, Idle
<1>6. ASSUME NEW h \in Handlers, ReviewReadBalance(h) PROVE Uneventful
  <2>1. CASE Finish(h)
    BY <1>1, <1>6, <2>1 DEF ReviewReadBalance, tables, Finish, Idle
  <2>2. CASE ~Finish(h)
    BY <1>6, <2>2 DEF ReviewReadBalance, tables, Continue, At
  <2> QED BY <2>1, <2>2
<1>7. ASSUME NEW h \in Handlers, ReviewSaveBalance(h) PROVE Uneventful
  BY <1>7 DEF ReviewSaveBalance, Continue, At
<1>8. ASSUME NEW h \in Handlers, NEW a \in Account, NEW dto \in BalanceDto,
             SetLeaveBalance(h, a, dto)
      PROVE  Uneventful
  BY <1>1, <1>8 DEF SetLeaveBalance, tables
<1>9. ASSUME NEW h \in Handlers, SetReadBalance(h) PROVE Uneventful
  BY <1>1, <1>9 DEF SetReadBalance, tables
<1>10. ASSUME NEW h \in Handlers, SetSave(h) PROVE Uneventful
  BY <1>1, <1>10 DEF SetSave, Finish, Idle
<1>11. ASSUME NEW h \in Handlers, NEW t \in LeaveTypes,
              NEW flag \in RequirementEdits \cup {None}, UpdateLeaveType(h, t, flag)
       PROVE  Uneventful
  BY <1>1, <1>11 DEF UpdateLeaveType, tables
<1>12. ASSUME NEW h \in Handlers, TypeSave(h) PROVE Uneventful
  BY <1>1, <1>12 DEF TypeSave, Finish, Idle
<1>13. ASSUME NEW h \in Handlers, Fail(h) PROVE Uneventful
  BY <1>1, <1>13 DEF Fail, tables, Finish, Idle
<1>14. ASSUME NEW t \in LeaveTypes, NEW flag \in BOOLEAN, CreateLeaveType(t, flag)
       PROVE  Uneventful
  BY <1>14 DEF CreateLeaveType
<1>15. CASE UNCHANGED vars
  BY <1>15 DEF vars
<1> HIDE DEF Uneventful, Reviewing, TypeOK
<1>16. ASSUME NEW h \in Handlers, Proceed(h), ~ReviewSave(h) PROVE Uneventful
  BY <1>3, <1>4, <1>5, <1>6, <1>7, <1>9, <1>10, <1>12, <1>16 DEF Proceed
<1> QED BY <1>2, <1>8, <1>11, <1>13, <1>14, <1>15, <1>16 DEF Next, Begin

-----------------------------------------------------------------------------
(***************************************************************************)
(* RequestsEndure                                                          *)
(***************************************************************************)

LEMMA SameTermsTransitive ==
    ASSUME NEW p \in LeaveRequest, NEW q \in LeaveRequest, NEW s \in LeaveRequest,
           SameTerms(p, q), SameTerms(s, q)
    PROVE  SameTerms(p, s)
BY DEF SameTerms, LeaveRequest

\* What the last save of a review does to the stored requests.
LEMMA ReviewEnds ==
    ASSUME IInv, NEW h \in Handlers, ReviewSave(h)
    PROVE  /\ Reviewing(h)
           /\ task[h].request \in RequestIds
           /\ task[h].row \in LeaveRequest
           /\ requests[task[h].request] \in LeaveRequest
           /\ SameTerms(task[h].row, requests[task[h].request])
           /\ task[h].row.status # "pending"
           /\ requests' = [requests EXCEPT ![task[h].request] = task[h].row]
           /\ task'[h] = Idle
           /\ \A g \in Handlers : g # h => task'[g] = task[g]
<1>1. Reviewing(h)
  BY DEF ReviewSave, At, Reviewing
<1>2. task[h].request \in RequestIds /\ task[h].row \in LeaveRequest
  BY TaskFields DEF IInv, TypeOK, ReviewSave, At
<1>3. requests[task[h].request] \in LeaveRequest
  BY <1>1, <1>2 DEF IInv, TypeOK, ReviewsHoldTheirRequest
<1>4. task'[h] = Idle /\ \A g \in Handlers : g # h => task'[g] = task[g]
  BY FinishTyped DEF IInv, TypeOK, ReviewSave
<1> QED BY <1>1, <1>2, <1>3, <1>4 DEF IInv, ReviewsHoldTheirRequest, ReviewSave

LEMMA HeldInit == Init => ReviewsHoldTheirRequest
BY DEF Init, ReviewsHoldTheirRequest, Reviewing, Idle

LEMMA HeldNext == IInv /\ [Next]_vars => ReviewsHoldTheirRequest'
<1> SUFFICES ASSUME IInv, [Next]_vars, NEW g \in Handlers, Reviewing(g)'
             PROVE  /\ requests'[task'[g].request] # None
                    /\ SameTerms(task'[g].row, requests'[task'[g].request])
                    /\ task'[g].row.status # "pending"
  BY DEF ReviewsHoldTheirRequest, SameTerms
<1>1. TypeOK /\ TypeOK'
  BY TypeNext DEF IInv
<1>2. CASE Uneventful
  <2>1. Reviewing(g) /\ task'[g].request = task[g].request /\ task'[g].row = task[g].row
    BY <1>2 DEF Uneventful
  <2>2. task[g].request \in RequestIds
    BY <1>1, <2>1, TaskFields DEF TypeOK, Reviewing
  <2>3. /\ requests[task[g].request] # None
        /\ SameTerms(task[g].row, requests[task[g].request])
        /\ task[g].row.status # "pending"
    BY <2>1 DEF IInv, ReviewsHoldTheirRequest
  <2> QED BY <1>2, <2>1, <2>2, <2>3 DEF Uneventful
<1>3. ASSUME NEW h \in Handlers, NEW r \in RequestIds,
             NEW decision \in {"approved", "rejected"}, ReviewLeaveRequest(h, r, decision)
      PROVE  /\ requests'[task'[g].request] # None
             /\ SameTerms(task'[g].row, requests'[task'[g].request])
             /\ task'[g].row.status # "pending"
  <2>1. CASE g = h
    BY <1>1, <1>3, <2>1, ReviewStarts
  <2>2. CASE g # h
    <3>1. task'[g] = task[g] /\ requests' = requests
      BY <1>1, <1>3, <2>2, ReviewStarts
    <3> QED BY <3>1 DEF IInv, ReviewsHoldTheirRequest, Reviewing
  <2> QED BY <2>1, <2>2
<1>4. ASSUME NEW h \in Handlers, ReviewSave(h)
      PROVE  /\ requests'[task'[g].request] # None
             /\ SameTerms(task'[g].row, requests'[task'[g].request])
             /\ task'[g].row.status # "pending"
  <2>1. g # h /\ task'[g] = task[g]
    BY <1>4, ReviewEnds DEF Reviewing, Idle
  <2>2. /\ requests[task[g].request] # None
        /\ SameTerms(task[g].row, requests[task[g].request])
        /\ task[g].row.status # "pending"
    BY <2>1 DEF IInv, ReviewsHoldTheirRequest, Reviewing
  <2>3. task[g].request \in RequestIds /\ task[g].row \in LeaveRequest
    BY <1>1, <2>1, TaskFields DEF TypeOK, Reviewing
  <2>4. CASE task[g].request = task[h].request
    <3>1. requests'[task[g].request] = task[h].row
      BY <1>1, <1>4, <2>3, <2>4, ReviewEnds DEF TypeOK
    <3>2. SameTerms(task[g].row, task[h].row)
      BY <1>4, <2>2, <2>3, <2>4, ReviewEnds, SameTermsTransitive
    <3>3. task[h].row # None
      BY <1>4, ReviewEnds, RowAssumption
    <3> QED BY <2>1, <2>2, <3>1, <3>2, <3>3
  <2>5. CASE task[g].request # task[h].request
    <3>1. requests'[task[g].request] = requests[task[g].request]
      BY <1>1, <1>4, <2>3, <2>5, ReviewEnds DEF TypeOK
    <3> QED BY <2>1, <2>2, <3>1
  <2> QED BY <2>4, <2>5
<1> QED BY <1>1, <1>2, <1>3, <1>4, Steps

\* LeaveService: every row and every copy a handler holds across an await is well typed and
\* no balance column is negative, however requests overlap and wherever handlers die.
THEOREM TypeCorrect == Spec => []TypeOK
<1>1. Init => TypeOK
  BY TypeInit
<1>2. TypeOK /\ [Next]_vars => TypeOK'
  BY TypeNext
<1> QED BY <1>1, <1>2, PTL DEF Spec

\* What a review holds across its awaits is always a decided copy of a stored request.
LEMMA Invariance == Spec => []IInv
<1>1. Init => IInv
  BY TypeInit, HeldInit DEF IInv
<1>2. IInv /\ [Next]_vars => IInv'
  BY TypeNext, HeldNext DEF IInv
<1> QED BY <1>1, <1>2, PTL DEF Spec

\* One request across one step.
LEMMA Enduring ==
    ASSUME IInv, [Next]_vars, NEW r \in RequestIds, requests[r] # None
    PROVE  /\ requests'[r] # None
           /\ SameTerms(requests'[r], requests[r])
           /\ Decided(r) => Decided(r)'
<1>1. TypeOK /\ requests[r] \in LeaveRequest
  BY DEF IInv, TypeOK
<1>2. CASE requests'[r] = requests[r]
  <2>1. SameTerms(requests[r], requests[r])
    BY <1>1 DEF SameTerms, LeaveRequest
  <2> QED BY <1>2, <2>1 DEF Decided
<1>3. ASSUME NEW h \in Handlers, ReviewSave(h), task[h].request = r
      PROVE  /\ requests'[r] # None
             /\ SameTerms(requests'[r], requests[r])
             /\ Decided(r) => Decided(r)'
  <2>1. requests'[r] = task[h].row
    BY <1>1, <1>3, ReviewEnds DEF TypeOK
  <2>2. task[h].row # None
    BY <1>3, ReviewEnds, RowAssumption
  <2> QED BY <1>3, <2>1, <2>2, ReviewEnds DEF Decided
<1>4. ASSUME NEW h \in Handlers, ReviewSave(h), task[h].request # r
      PROVE  requests'[r] = requests[r]
  BY <1>1, <1>4, ReviewEnds DEF TypeOK
<1>5. ASSUME NEW h \in Handlers, NEW q \in RequestIds,
             NEW decision \in {"approved", "rejected"}, ReviewLeaveRequest(h, q, decision)
      PROVE  requests'[r] = requests[r]
  BY <1>1, <1>5, ReviewStarts
<1>6. CASE Uneventful
  BY <1>2, <1>6 DEF Uneventful
<1> QED BY <1>1, <1>2, <1>3, <1>4, <1>5, <1>6, Steps

\* LeaveService.reviewLeaveRequest and create: no interleaving and no crash removes a stored
\* request, changes its terms, or turns a decided request back into a pending one.
THEOREM Endurance == Spec => RequestsEndure
<1>1. IInv /\ [Next]_vars =>
        [\A r \in RequestIds :
            requests[r] # None =>
                /\ requests'[r] # None
                /\ SameTerms(requests'[r], requests[r])
                /\ Decided(r) => Decided(r)']_vars
  BY Enduring
<1> QED BY <1>1, Invariance, PTL DEF Spec, RequestsEndure

-----------------------------------------------------------------------------
(***************************************************************************)
(* DecidedOnce                                                             *)
(***************************************************************************)

LEMMA PendingInit == Init => ReviewedIsPending
BY DEF Init, ReviewedIsPending, Reviewing, Idle

LEMMA PendingNext ==
    ASSUME IInv, OneReviewEach, ReviewedIsPending, [Next]_vars
    PROVE  ReviewedIsPending'
<1> SUFFICES ASSUME NEW g \in Handlers, Reviewing(g)'
             PROVE  requests'[task'[g].request].status = "pending"
  BY DEF ReviewedIsPending
<1>1. TypeOK
  BY DEF IInv
<1>2. CASE Uneventful
  <2>1. Reviewing(g) /\ task'[g].request = task[g].request
    BY <1>2 DEF Uneventful
  <2>2. task[g].request \in RequestIds
    BY <1>1, <2>1, TaskFields DEF TypeOK, Reviewing
  <2>3. requests[task[g].request] # None /\ requests[task[g].request].status = "pending"
    BY <2>1 DEF IInv, ReviewsHoldTheirRequest, ReviewedIsPending
  <2> QED BY <1>2, <2>1, <2>2, <2>3 DEF Uneventful
<1>3. ASSUME NEW h \in Handlers, NEW r \in RequestIds,
             NEW decision \in {"approved", "rejected"}, ReviewLeaveRequest(h, r, decision)
      PROVE  requests'[task'[g].request].status = "pending"
  <2>1. CASE g = h
    BY <1>1, <1>3, <2>1, ReviewStarts
  <2>2. CASE g # h
    <3>1. task'[g] = task[g] /\ requests' = requests
      BY <1>1, <1>3, <2>2, ReviewStarts
    <3> QED BY <3>1 DEF ReviewedIsPending, Reviewing
  <2> QED BY <2>1, <2>2
<1>4. ASSUME NEW h \in Handlers, ReviewSave(h)
      PROVE  requests'[task'[g].request].status = "pending"
  <2>1. g # h /\ task'[g] = task[g]
    BY <1>4, ReviewEnds DEF Reviewing, Idle
  <2>2. Reviewing(g) /\ Reviewing(h)
    BY <1>4, <2>1, ReviewEnds DEF Reviewing
  <2>3. task[g].request # task[h].request /\ task[g].request \in RequestIds
    BY <1>1, <2>1, <2>2, TaskFields DEF TypeOK, Reviewing, OneReviewEach
  <2>4. requests'[task[g].request] = requests[task[g].request]
    BY <1>1, <1>4, <2>3, ReviewEnds DEF TypeOK
  <2> QED BY <2>1, <2>2, <2>4 DEF ReviewedIsPending
<1> QED BY <1>1, <1>2, <1>3, <1>4, Steps

\* LeaveService.reviewLeaveRequest: if reviews of the same request never overlapped, a
\* decision would be final.  The pending check would be enough were it not for the awaits
\* between it and the save; the run leave_double_review shows that the condition is needed.
THEOREM OneDecision == Spec /\ []OneReviewEach => DecidedOnce
<1>1. Init => ReviewedIsPending
  BY PendingInit
<1>2. IInv /\ OneReviewEach /\ ReviewedIsPending /\ [Next]_vars => ReviewedIsPending'
  BY PendingNext
<1>3. IInv /\ ReviewedIsPending /\ [Next]_vars =>
        [\A r \in RequestIds : Decided(r) => requests'[r] = requests[r]]_vars
  <2> SUFFICES ASSUME IInv, ReviewedIsPending, [Next]_vars, NEW r \in RequestIds, Decided(r)
               PROVE  requests'[r] = requests[r]
    OBVIOUS
  <2>1. TypeOK /\ requests[r] # None /\ requests[r].status # "pending"
    BY DEF IInv, Decided
  <2>2. ASSUME NEW h \in Handlers, ReviewSave(h) PROVE requests'[r] = requests[r]
    <3>1. task[h].request # r
      BY <2>1, <2>2, ReviewEnds DEF ReviewedIsPending
    <3> QED BY <2>1, <2>2, <3>1, ReviewEnds DEF TypeOK
  <2>3. ASSUME NEW h \in Handlers, NEW q \in RequestIds,
               NEW decision \in {"approved", "rejected"}, ReviewLeaveRequest(h, q, decision)
        PROVE  requests'[r] = requests[r]
    BY <2>1, <2>3, ReviewStarts
  <2>4. CASE Uneventful
    BY <2>1, <2>4 DEF Uneventful
  <2> QED BY <2>1, <2>2, <2>3, <2>4, Steps
<1> QED BY <1>1, <1>2, <1>3, Invariance, PTL DEF Spec, DecidedOnce

-----------------------------------------------------------------------------
(***************************************************************************)
(* The books of leave: what the used and pending columns of a balance have *)
(* to do with the requests                                                 *)
(***************************************************************************)
\* The days of the requests S of a table q.
Total(q, S) == MapThenSumSet(LAMBDA r : q[r].requestedDays, S)

\* The fold of the community modules computes such a sum.
LEMMA TotalIsSum ==
    ASSUME NEW q, NEW S, IsFiniteSet(S)
    PROVE  Total(q, S) = Sum([r \in S |-> q[r].requestedDays], S)
<1> DEFINE F == [r \in S |-> q[r].requestedDays]
           Iterates(g) == g = [s \in SUBSET S |->
                                  IF s = {} THEN 0
                                  ELSE q[Pick(s)].requestedDays + g[s \ {Pick(s)}]]
<1>1. \A g : Iterates(g) <=> Summing(F, g, S)
  <2> SUFFICES ASSUME NEW g PROVE Iterates(g) <=> Summing(F, g, S)
    OBVIOUS
  <2>1. \A s \in SUBSET S : s # {} => q[Pick(s)].requestedDays = F[Pick(s)]
    BY PickFrom
  <2> HIDE DEF F
  <2>2. [s \in SUBSET S |-> IF s = {} THEN 0
                            ELSE q[Pick(s)].requestedDays + g[s \ {Pick(s)}]]
          = [s \in SUBSET S |-> IF s = {} THEN 0 ELSE F[Pick(s)] + g[s \ {Pick(s)}]]
    BY <2>1
  <2> QED BY <2>2 DEF Summing
<1>2. Total(q, S) = (CHOOSE g : Iterates(g))[S]
  BY DEF Total, MapThenSumSet, MapThenFoldSet, Pick
<1>3. Iterates(CHOOSE g : Iterates(g))
  <2>1. \E g : Iterates(g)
    <3> HIDE DEF Iterates, F
    <3> QED BY <1>1, SummingExists
  <2> HIDE DEF Iterates
  <2> QED BY <2>1, Zenon
<1> DEFINE f == CHOOSE g : Iterates(g)
<1> HIDE DEF f, Iterates, F
<1>4. Summing(F, f, S)
  BY <1>1, <1>3 DEF f
<1> QED BY <1>2, <1>4, SumIs DEF f, F

\* What the proofs below use of it.
LEMMA TotalTyped ==
    ASSUME NEW q, NEW S, IsFiniteSet(S), \A r \in S : q[r].requestedDays \in Nat
    PROVE  Total(q, S) \in Nat
<1> DEFINE F == [r \in S |-> q[r].requestedDays]
<1>1. \A r \in S : F[r] \in Nat
  OBVIOUS
<1> HIDE DEF F
<1>2. Sum(F, S) \in Nat
  BY <1>1, SumTyped
<1> QED BY <1>2, TotalIsSum DEF F

LEMMA TotalEmpty == \A q : Total(q, {}) = 0
<1> SUFFICES ASSUME NEW q PROVE Total(q, {}) = 0
  OBVIOUS
<1> DEFINE F == [r \in {} |-> q[r].requestedDays]
<1>1. IsFiniteSet({})
  BY FS_EmptySet
<1>2. Total(q, {}) = Sum(F, {})
  BY <1>1, TotalIsSum
<1> HIDE DEF F
<1> QED BY <1>1, <1>2, SumUnfolds

LEMMA TotalSame ==
    ASSUME NEW p, NEW q, NEW S, IsFiniteSet(S),
           \A r \in S : p[r].requestedDays = q[r].requestedDays
    PROVE  Total(p, S) = Total(q, S)
<1> DEFINE F == [r \in S |-> p[r].requestedDays]
           G == [r \in S |-> q[r].requestedDays]
<1>1. F = G
  OBVIOUS
<1> HIDE DEF F, G
<1>2. Total(p, S) = Sum(F, S) /\ Total(q, S) = Sum(G, S)
  BY TotalIsSum DEF F, G
<1> QED BY <1>1, <1>2

LEMMA TotalAdds ==
    ASSUME NEW q, NEW S, NEW x, IsFiniteSet(S), x \notin S,
           \A r \in S \cup {x} : q[r].requestedDays \in Nat
    PROVE  Total(q, S \cup {x}) = Total(q, S) + q[x].requestedDays
<1> DEFINE U == S \cup {x}
           F == [r \in U |-> q[r].requestedDays]
           G == [r \in S |-> q[r].requestedDays]
<1>1. IsFiniteSet(U)
  BY FS_AddElement
<1>2. /\ \A r \in S \cup {x} : F[r] \in Nat
      /\ \A r \in S : F[r] = G[r]
      /\ F[x] = q[x].requestedDays
  OBVIOUS
<1>3. Total(q, U) = Sum(F, U) /\ Total(q, S) = Sum(G, S)
  <2> HIDE DEF U
  <2> QED BY <1>1, TotalIsSum
<1> HIDE DEF F, G
<1>4. Sum(F, S) = Sum(G, S)
  BY <1>2, SumSame
<1>5. Sum(F, S \cup {x}) = Sum(F, S) + F[x]
  BY <1>2, SumAdds
<1> QED BY <1>2, <1>3, <1>4, <1>5

\* One request's part in the days of a set.
Part(q, S, x) == IF x \in S THEN q[x].requestedDays ELSE 0

LEMMA TotalSplits ==
    ASSUME NEW q, NEW S, NEW x, IsFiniteSet(S), \A r \in S : q[r].requestedDays \in Nat
    PROVE  /\ Total(q, S) = Total(q, S \ {x}) + Part(q, S, x)
           /\ Total(q, S \ {x}) \in Nat
           /\ Part(q, S, x) \in Nat
<1> DEFINE R == S \ {x}
<1>1. IsFiniteSet(R) /\ x \notin R
  BY FS_RemoveElement
<1>2. \A r \in R : q[r].requestedDays \in Nat
  OBVIOUS
<1>3. Total(q, R) \in Nat
  <2> HIDE DEF R
  <2> QED BY <1>1, <1>2, TotalTyped
<1>4. CASE x \in S
  <2>1. R \cup {x} = S
    BY <1>4
  <2>2. \A r \in R \cup {x} : q[r].requestedDays \in Nat
    BY <2>1
  <2> HIDE DEF R
  <2>3. Total(q, S) = Total(q, R) + q[x].requestedDays
    BY <1>1, <2>1, <2>2, TotalAdds
  <2> QED BY <1>3, <1>4, <2>3 DEF Part, R
<1>5. CASE x \notin S
  <2>1. R = S
    BY <1>5
  <2>2. Part(q, S, x) = 0 /\ S \ {x} = S
    BY <1>5 DEF Part
  <2>3. Total(q, S) \in Nat
    BY <1>3, <2>1
  <2> QED BY <2>2, <2>3
<1> QED BY <1>4, <1>5

-----------------------------------------------------------------------------
(***************************************************************************)
(* What holds in every interleaving: the leave type of a request is there  *)
(* and finitely many requests are stored                                   *)
(***************************************************************************)
Creating == {"create_balance", "create_save_balance", "create_save"}
Reviews == {"review_balance", "review_save_balance", "review_save"}

Requires(row) == types[row.leaveType].requiresBalance

Grounded(t) ==
    /\ t.at \in Creating \cup Reviews => types[t.row.leaveType] # None
    /\ t.at \in Creating => t.row.status = "pending"
    /\ t.at = "type_save" => types[t.leaveType] # None

Stored == {r \in RequestIds : requests[r] # None}

GroundInv ==
    /\ IsFiniteSet(Stored)
    /\ \A r \in RequestIds : requests[r] # None => types[requests[r].leaveType] # None
    /\ \A h \in Handlers : Grounded(task[h])

\* What is new in each handler's hands.
Others(h) == \A g \in Handlers : g # h => task'[g] = task[g]

LEMMA Moves ==
    ASSUME TypeOK, NEW h \in Handlers, NEW next, Continue(h, next)
    PROVE  task'[h] = next /\ Others(h)
BY DEF TypeOK, Continue, Others

LEMMA Rests ==
    ASSUME TypeOK, NEW h \in Handlers, Finish(h)
    PROVE  task'[h] = Idle /\ Others(h)
BY Moves DEF Finish

LEMMA IdleTask == \A t \in Task : t.at = "idle" => t = Idle
BY DEF Task, Idle

LEMMA TypesTyped ==
    ASSUME TypeOK, NEW t \in LeaveTypes, types[t] # None
    PROVE  types[t] \in LeaveType /\ types[t].requiresBalance \in BOOLEAN
BY DEF TypeOK, LeaveType

\* The four arrivals: nothing is stored, and the handler has what its request asks for.
AsksForLeave(n) ==
    /\ n.at \in {"create_balance", "create_save"}
    /\ n.row.status = "pending" /\ types[n.row.leaveType] # None
    /\ Requires(n.row) <=> n.at = "create_balance"

StartsReview(n) ==
    /\ n.at \in {"review_balance", "review_save"}
    /\ n.request \in RequestIds
    /\ requests[n.request] # None /\ requests[n.request].status = "pending"
    /\ SameTerms(n.row, requests[n.request]) /\ n.row.status # "pending"
    /\ Requires(n.row) <=> n.at = "review_balance"

SetsBalance(n, quietly) == n.at = "set_read" /\ (quietly => n.dto.used = None)

SetsType(n, quietly) ==
    /\ n.at = "type_save" /\ types[n.leaveType] # None
    /\ quietly => n.row = types[n.leaveType]

Arrival(n, quietly) ==
    AsksForLeave(n) \/ StartsReview(n) \/ SetsBalance(n, quietly) \/ SetsType(n, quietly)

Arrives(h) ==
    /\ At(h, "idle") /\ Others(h)
    /\ UNCHANGED <<tables, failures>>
    /\ calm' => calm /\ Quiescent
    /\ Arrival(task'[h], calm')

LEMMA Arrivals ==
    ASSUME TypeOK, NEW h \in Handlers, Begin(h)
    PROVE  Arrives(h)
<1>1. ASSUME NEW e \in Employees, NEW t \in LeaveTypes, NEW start \in Days, NEW end \in Days,
             CreateRequest(h, e, t, start, end)
      PROVE  Arrives(h)
  <2> DEFINE row == [employee |-> e, leaveType |-> t, startDate |-> start,
                     requestedDays |-> CalculateLeaveDays(start, end),
                     status |-> "pending"]
             place == IF types[t].requiresBalance THEN "create_balance" ELSE "create_save"
             n == [at |-> place, row |-> row]
  <2>1. task'[h] = n /\ Others(h)
    BY <1>1, Moves DEF CreateRequest
  <2>2. types[t].requiresBalance \in BOOLEAN /\ types[t] # None
    BY <1>1, TypesTyped DEF CreateRequest
  <2>3. AsksForLeave(n)
    BY <2>2 DEF AsksForLeave, Requires
  <2>4. At(h, "idle") /\ UNCHANGED <<tables, failures>> /\ (calm' => calm /\ Quiescent)
    BY <1>1 DEF CreateRequest
  <2> QED BY <2>1, <2>3, <2>4, Zenon DEF Arrives, Arrival
<1>2. ASSUME NEW r \in RequestIds, NEW decision \in {"approved", "rejected"},
             ReviewLeaveRequest(h, r, decision)
      PROVE  Arrives(h)
  <2> DEFINE row == [requests[r] EXCEPT !.status = decision]
             place == IF types[requests[r].leaveType].requiresBalance
                      THEN "review_balance" ELSE "review_save"
             n == [at |-> place, request |-> r, row |-> row]
  <2>1. task'[h] = n /\ Others(h)
    BY <1>2, Moves DEF ReviewLeaveRequest
  <2>2. /\ SameTerms(row, requests[r]) /\ row.status = decision
        /\ requests[r] # None /\ requests[r].status = "pending"
    BY <1>2, <2>1, ReviewStarts
  <2>3. row.leaveType = requests[r].leaveType
    BY <1>2 DEF ReviewLeaveRequest, TypeOK, LeaveRequest
  <2>4. StartsReview(n)
    <3> HIDE DEF row
    <3> QED BY <2>2, <2>3 DEF StartsReview, Requires
  <2>5. At(h, "idle") /\ UNCHANGED <<tables, failures>> /\ (calm' => calm /\ Quiescent)
    BY <1>2 DEF ReviewLeaveRequest
  <2> QED BY <2>1, <2>4, <2>5, Zenon DEF Arrives, Arrival
<1>3. ASSUME NEW a \in Account, NEW dto \in BalanceDto, SetLeaveBalance(h, a, dto)
      PROVE  Arrives(h)
  <2> DEFINE n == [at |-> "set_read", account |-> a, dto |-> dto]
  <2>1. task'[h] = n /\ Others(h)
    BY <1>3, Moves DEF SetLeaveBalance
  <2>2. /\ At(h, "idle") /\ UNCHANGED <<tables, failures>> /\ (calm' => calm /\ Quiescent)
        /\ calm' => dto.used = None
    BY <1>3 DEF SetLeaveBalance
  <2>3. SetsBalance(n, calm')
    BY <2>2 DEF SetsBalance
  <2> QED BY <2>1, <2>2, <2>3, Zenon DEF Arrives, Arrival
<1>4. ASSUME NEW t \in LeaveTypes, NEW flag \in RequirementEdits \cup {None},
             UpdateLeaveType(h, t, flag)
      PROVE  Arrives(h)
  <2> DEFINE row == [types[t] EXCEPT !.requiresBalance = OrElse(flag, @)]
             n == [at |-> "type_save", leaveType |-> t, row |-> row]
  <2>1. task'[h] = n /\ Others(h)
    BY <1>4, Moves DEF UpdateLeaveType
  <2>2. /\ At(h, "idle") /\ UNCHANGED <<tables, failures>> /\ (calm' => calm /\ Quiescent)
        /\ calm' => flag = None
        /\ types[t] # None
    BY <1>4 DEF UpdateLeaveType
  <2>3. types[t] \in LeaveType
    BY <2>2 DEF TypeOK
  <2>4. flag = None => row = types[t]
    BY <2>3 DEF OrElse, LeaveType
  <2>5. SetsType(n, calm')
    <3> HIDE DEF row
    <3> QED BY <2>2, <2>4 DEF SetsType
  <2> QED BY <2>1, <2>2, <2>5, Zenon DEF Arrives, Arrival
<1> QED BY <1>1, <1>2, <1>3, <1>4 DEF Begin

TypesEndure == \A t \in LeaveTypes : types[t] # None => types'[t] # None

\* Requests are stored for leave types that are there.
RequestsGrounded ==
    \/ UNCHANGED requests
    \/ \E r \in RequestIds, row \in LeaveRequest :
           /\ types[row.leaveType] # None
           /\ requests' = [requests EXCEPT ![r] = row]

LEMMA StoredFinite ==
    ASSUME TypeOK, GroundInv, RequestsGrounded
    PROVE  IsFiniteSet(Stored')
<1>1. ASSUME NEW r \in RequestIds, NEW row \in LeaveRequest,
             requests' = [requests EXCEPT ![r] = row]
      PROVE  IsFiniteSet(Stored')
  <2>1. Stored' \in SUBSET (Stored \cup {r})
    BY <1>1 DEF Stored, TypeOK
  <2>2. IsFiniteSet(Stored \cup {r})
    BY FS_AddElement DEF GroundInv
  <2> QED BY <2>1, <2>2, FS_Subset
<1>2. CASE UNCHANGED requests
  BY <1>2 DEF GroundInv, Stored
<1> QED BY <1>1, <1>2 DEF RequestsGrounded

LEMMA GroundStep ==
    ASSUME TypeOK, GroundInv, NEW h \in Handlers, Others(h), TypesEndure, RequestsGrounded,
           NEW n \in Task, task'[h] = n, Grounded(n)
    PROVE  GroundInv'
<1>1. IsFiniteSet(Stored')
  BY StoredFinite
<1>2. ASSUME NEW r \in RequestIds, requests'[r] # None
      PROVE  types'[requests'[r].leaveType] # None
  <2>1. requests[r] # None => types[requests[r].leaveType] # None
    BY DEF GroundInv
  <2>2. requests[r] # None => requests[r].leaveType \in LeaveTypes
    BY DEF TypeOK, LeaveRequest
  <2> QED BY <1>2, <2>1, <2>2 DEF RequestsGrounded, TypesEndure, TypeOK, LeaveRequest
<1>3. ASSUME NEW t \in Task, Grounded(t) PROVE Grounded(t)'
  <2>1. /\ t.at \in Creating \cup Reviews => t.row.leaveType \in LeaveTypes
        /\ t.at = "type_save" => t.leaveType \in LeaveTypes
    BY TaskFields DEF Creating, Reviews, LeaveRequest
  <2> QED BY <1>3, <2>1 DEF Grounded, TypesEndure
<1>4. ASSUME NEW g \in Handlers PROVE Grounded(task[g])'
  <2>1. PICK t : t = task'[g]
    OBVIOUS
  <2>2. t \in Task /\ Grounded(t)
    BY <2>1 DEF TypeOK, Others, GroundInv
  <2>3. Grounded(t)'
    BY <1>3, <2>2
  <2> QED BY <2>1, <2>3 DEF Grounded
<1> QED BY <1>1, <1>2, <1>4 DEF GroundInv

LEMMA GroundArrives ==
    ASSUME TypeOK, TypeOK', GroundInv, NEW h \in Handlers, Arrives(h)
    PROVE  GroundInv'
<1> PICK n : n = task'[h]
  OBVIOUS
<1>1. n \in Task
  BY DEF TypeOK
<1>2. Others(h) /\ TypesEndure /\ RequestsGrounded /\ Arrival(n, calm')
  BY DEF Arrives, TypesEndure, RequestsGrounded, tables
<1> SUFFICES Grounded(n)
  BY <1>1, <1>2, GroundStep
<1>3. CASE AsksForLeave(n)
  BY <1>3 DEF AsksForLeave, Grounded, Creating, Reviews
<1>4. CASE StartsReview(n)
  <2>1. n.row \in LeaveRequest /\ requests[n.request] \in LeaveRequest
    BY <1>1, <1>4, TaskFields DEF StartsReview, TypeOK
  <2>2. n.row.leaveType = requests[n.request].leaveType
    BY <1>4, <2>1 DEF StartsReview, SameTerms, LeaveRequest
  <2> QED BY <1>4, <2>2 DEF StartsReview, Grounded, GroundInv, Creating, Reviews
<1>5. CASE SetsBalance(n, calm') \/ SetsType(n, calm')
  BY <1>5 DEF SetsBalance, SetsType, Grounded, Creating, Reviews
<1> QED BY <1>2, <1>3, <1>4, <1>5 DEF Arrival

LEMMA GroundProceeds ==
    ASSUME TypeOK, TypeOK', GroundInv, NEW h \in Handlers, Proceed(h) \/ Fail(h)
    PROVE  GroundInv'
<1> PICK t : t = task[h]
  OBVIOUS
<1> PICK n : n = task'[h]
  OBVIOUS
<1>1. t \in Task /\ n \in Task /\ Grounded(t)
  BY DEF TypeOK, GroundInv
<1> SUFFICES Others(h) /\ TypesEndure /\ RequestsGrounded /\ Grounded(n)
  BY <1>1, GroundStep
<1>2. Grounded(Idle)
  BY DEF Grounded, Idle, Creating, Reviews
<1>3. ASSUME Finish(h), UNCHANGED <<types, requests>>
      PROVE  Others(h) /\ TypesEndure /\ RequestsGrounded /\ Grounded(n)
  BY <1>2, <1>3, Rests DEF TypesEndure, RequestsGrounded
<1>4. ASSUME NEW m, Continue(h, m), UNCHANGED <<types, requests>>, Grounded(m)
      PROVE  Others(h) /\ TypesEndure /\ RequestsGrounded /\ Grounded(n)
  BY <1>4, Moves DEF TypesEndure, RequestsGrounded
<1>5. CASE CreateReadBalance(h)
  <2> DEFINE m == [at |-> "create_save_balance", row |-> t.row,
                   balance |-> Reserved(balances[AccountOf(t.row)], t.row)]
  <2>1. t.at = "create_balance" => Grounded(m)
    BY <1>1 DEF Grounded, Creating, Reviews
  <2>2. /\ t.at = "create_balance" /\ UNCHANGED <<types, requests>>
        /\ Finish(h) \/ Continue(h, m)
    BY <1>5 DEF CreateReadBalance, At, tables
  <2> HIDE DEF m
  <2> QED BY <1>3, <1>4, <2>1, <2>2
<1>6. CASE CreateSaveBalance(h)
  <2> DEFINE m == [at |-> "create_save", row |-> t.row]
  <2>1. t.at = "create_save_balance" => Grounded(m)
    BY <1>1 DEF Grounded, Creating, Reviews
  <2>2. t.at = "create_save_balance" /\ UNCHANGED <<types, requests>> /\ Continue(h, m)
    BY <1>6 DEF CreateSaveBalance, At
  <2> HIDE DEF m
  <2> QED BY <1>4, <2>1, <2>2
<1>7. CASE CreateSave(h)
  <2>1. t.row \in LeaveRequest /\ types[t.row.leaveType] # None
    BY <1>1, <1>7, TaskFields DEF CreateSave, At, Grounded, Creating
  <2> QED BY <1>2, <1>7, <2>1, Rests DEF CreateSave, TypesEndure, RequestsGrounded
<1>8. CASE ReviewReadBalance(h)
  <2> DEFINE m == [at |-> "review_save_balance", request |-> t.request, row |-> t.row,
                   balance |-> Released(balances[AccountOf(t.row)], t.row)]
  <2>1. t.at = "review_balance" => Grounded(m)
    BY <1>1 DEF Grounded, Creating, Reviews
  <2>2. /\ t.at = "review_balance" /\ UNCHANGED <<types, requests>>
        /\ Finish(h) \/ Continue(h, m)
    BY <1>8 DEF ReviewReadBalance, At, tables
  <2> HIDE DEF m
  <2> QED BY <1>3, <1>4, <2>1, <2>2
<1>9. CASE ReviewSaveBalance(h)
  <2> DEFINE m == [at |-> "review_save", request |-> t.request, row |-> t.row]
  <2>1. t.at = "review_save_balance" => Grounded(m)
    BY <1>1 DEF Grounded, Creating, Reviews
  <2>2. t.at = "review_save_balance" /\ UNCHANGED <<types, requests>> /\ Continue(h, m)
    BY <1>9 DEF ReviewSaveBalance, At
  <2> HIDE DEF m
  <2> QED BY <1>4, <2>1, <2>2
<1>10. CASE ReviewSave(h)
  <2>1. t.row \in LeaveRequest /\ t.request \in RequestIds /\ types[t.row.leaveType] # None
    BY <1>1, <1>10, TaskFields DEF ReviewSave, At, Grounded, Reviews
  <2> QED BY <1>2, <1>10, <2>1, Rests DEF ReviewSave, TypesEndure, RequestsGrounded
<1>11. CASE SetReadBalance(h)
  <2> DEFINE m == [at |-> "set_save", account |-> t.account,
                   balance |-> SetColumns(t.dto, IF balances[t.account] = None
                                                 THEN NewBalance ELSE balances[t.account]),
                   fresh |-> balances[t.account] = None]
  <2>1. Grounded(m)
    BY DEF Grounded, Creating, Reviews
  <2>2. UNCHANGED <<types, requests>> /\ Continue(h, m)
    BY <1>11 DEF SetReadBalance, tables
  <2> HIDE DEF m
  <2> QED BY <1>4, <2>1, <2>2
<1>12. CASE SetSave(h)
  BY <1>3, <1>12 DEF SetSave
<1>13. CASE TypeSave(h)
  <2>1. t.row # None
    BY <1>1, <1>13, TaskFields, RowAssumption DEF TypeSave, At
  <2>2. UNCHANGED requests /\ Finish(h) /\ types' = [types EXCEPT ![t.leaveType] = t.row]
    BY <1>13 DEF TypeSave
  <2> QED BY <1>2, <2>1, <2>2, Rests DEF TypesEndure, RequestsGrounded, TypeOK
<1>14. CASE Fail(h)
  BY <1>3, <1>14 DEF Fail, tables
<1> QED BY <1>5, <1>6, <1>7, <1>8, <1>9, <1>10, <1>11, <1>12, <1>13, <1>14 DEF Proceed

LEMMA GroundNext == TypeOK /\ GroundInv /\ [Next]_vars => GroundInv'
<1> SUFFICES ASSUME TypeOK, GroundInv, [Next]_vars PROVE GroundInv'
  OBVIOUS
<1>1. TypeOK'
  BY TypeNext
<1>2. ASSUME NEW h \in Handlers, Begin(h) PROVE GroundInv'
  BY <1>1, <1>2, Arrivals, GroundArrives
<1>3. ASSUME NEW h \in Handlers, Proceed(h) \/ Fail(h) PROVE GroundInv'
  BY <1>1, <1>3, GroundProceeds
<1>4. ASSUME NEW t \in LeaveTypes, NEW flag \in BOOLEAN, CreateLeaveType(t, flag)
      PROVE  GroundInv'
  <2>1. [requiresBalance |-> flag] # None
    BY RowAssumption DEF LeaveType
  <2>2. TypesEndure /\ UNCHANGED <<requests, task>>
    BY <1>4, <2>1 DEF CreateLeaveType, TypesEndure, TypeOK
  <2>3. ASSUME NEW u \in Task, Grounded(u) PROVE Grounded(u)'
    <3>1. /\ u.at \in Creating \cup Reviews => u.row.leaveType \in LeaveTypes
          /\ u.at = "type_save" => u.leaveType \in LeaveTypes
      BY TaskFields DEF Creating, Reviews, LeaveRequest
    <3> QED BY <2>2, <2>3, <3>1 DEF Grounded, TypesEndure
  <2>4. \A h \in Handlers : Grounded(task[h])'
    BY <2>2, <2>3 DEF GroundInv, TypeOK, Grounded
  <2>5. ASSUME NEW r \in RequestIds, requests[r] # None
        PROVE  types'[requests[r].leaveType] # None
    BY <2>2, <2>5 DEF GroundInv, TypeOK, LeaveRequest, TypesEndure
  <2> QED BY <2>2, <2>4, <2>5 DEF GroundInv, Stored
<1>5. CASE UNCHANGED vars
  BY <1>5 DEF vars, GroundInv, Grounded, Stored
<1> QED BY <1>2, <1>3, <1>4, <1>5 DEF Next

LEMMA GroundInit == Init => GroundInv
<1> SUFFICES ASSUME Init PROVE GroundInv
  OBVIOUS
<1>1. Stored = {}
  BY DEF Init, Stored
<1>2. \A h \in Handlers : Grounded(task[h])
  BY DEF Init, Grounded, Idle, Creating, Reviews
<1> QED BY <1>1, <1>2, FS_EmptySet DEF GroundInv, Init


-----------------------------------------------------------------------------
(***************************************************************************)
(* The books.  A balance answers for the stored requests, and for what the *)
(* handler at work has saved of one of the two and not yet of the other.   *)
(***************************************************************************)
UsedOf(a) == IF balances[a] = None THEN 0 ELSE balances[a].used
PendingOf(a) == IF balances[a] = None THEN 0 ELSE balances[a].pending

Concerns(t, a) == AccountOf(t.row) = a /\ Requires(t.row)

\* Days booked as used of a request that is not yet stored as approved, ...
Granted(t, a) ==
    IF t.at = "review_save" /\ t.row.status = "approved" /\ Concerns(t, a)
    THEN t.row.requestedDays ELSE 0

\* ... days released of one still stored as pending, ...
Answered(t, a) ==
    IF t.at = "review_save" /\ Concerns(t, a) THEN t.row.requestedDays ELSE 0

\* ... and days reserved for one not yet stored.
Asked(t, a) ==
    IF t.at = "create_save" /\ Concerns(t, a) THEN t.row.requestedDays ELSE 0

ApprovedDays(a) == DaysOf(Charged(a, "approved"))
PendingDays(a) == DaysOf(Charged(a, "pending"))

\* What the columns say beyond the requests; the books are in order when it is nothing.
Surplus(t, a) == UsedOf(a) - ApprovedDays(a) - Granted(t, a)
Excess(t, a) == PendingOf(a) + Answered(t, a) - PendingDays(a) - Asked(t, a)

LEMMA ChargedTyped ==
    ASSUME TypeOK, IsFiniteSet(Stored), NEW a, NEW status
    PROVE  /\ IsFiniteSet(Charged(a, status))
           /\ \A r \in Charged(a, status) : requests[r].requestedDays \in Nat
<1>1. Charged(a, status) \in SUBSET Stored
  BY DEF Charged, Stored
<1>2. IsFiniteSet(Charged(a, status))
  BY <1>1, FS_Subset
<1>3. \A r \in Stored : requests[r].requestedDays \in Nat
  BY DEF Stored, TypeOK, LeaveRequest
<1> QED BY <1>1, <1>2, <1>3

LEMMA DaysTotal == \A S : DaysOf(S) = Total(requests, S) /\ DaysOf(S)' = Total(requests', S)
<1>1. ASSUME NEW S PROVE DaysOf(S) = Total(requests, S)
  BY DEF DaysOf, Total
<1>2. ASSUME NEW S PROVE DaysOf(S)' = Total(requests', S)
  BY DEF DaysOf, Total, MapThenSumSet, MapThenFoldSet
<1> QED BY <1>1, <1>2

LEMMA AmountsTyped ==
    ASSUME TypeOK, GroundInv, NEW a \in Account, NEW t \in Task
    PROVE  /\ UsedOf(a) \in Nat /\ PendingOf(a) \in Nat
           /\ ApprovedDays(a) \in Nat /\ PendingDays(a) \in Nat
           /\ Granted(t, a) \in Nat /\ Answered(t, a) \in Nat /\ Asked(t, a) \in Nat
<1>1. UsedOf(a) \in Nat /\ PendingOf(a) \in Nat
  BY DEF UsedOf, PendingOf, TypeOK, Balance
<1>2. ASSUME NEW status PROVE DaysOf(Charged(a, status)) \in Nat
  <2>1. Total(requests, Charged(a, status)) \in Nat
    BY ChargedTyped, TotalTyped DEF GroundInv
  <2> QED BY <2>1, DaysTotal
<1>3. t.at \in {"review_save", "create_save"} => t.row.requestedDays \in Nat
  BY TaskFields DEF LeaveRequest
<1> QED BY <1>1, <1>2, <1>3 DEF ApprovedDays, PendingDays, Granted, Answered, Asked

\* The part of request r in the days of a status.
Share(r, a, status) == IF r \in Charged(a, status) THEN requests[r].requestedDays ELSE 0

\* When one request is saved, the days charged change by what is its share.
LEMMA ChargedMoves ==
    ASSUME TypeOK, TypeOK', GroundInv, GroundInv', UNCHANGED types, NEW r \in RequestIds,
           \A q \in RequestIds : q # r => requests'[q] = requests[q],
           NEW a, NEW status
    PROVE  /\ DaysOf(Charged(a, status))' - Share(r, a, status)' =
                  DaysOf(Charged(a, status)) - Share(r, a, status)
           /\ Share(r, a, status) \in Nat /\ Share(r, a, status)' \in Nat
           /\ DaysOf(Charged(a, status)) \in Nat /\ DaysOf(Charged(a, status))' \in Nat
<1> PICK S : S = Charged(a, status)
  OBVIOUS
<1> PICK T : T = Charged(a, status)'
  OBVIOUS
<1>1. IsFiniteSet(S) /\ \A x \in S : requests[x].requestedDays \in Nat
  BY ChargedTyped DEF GroundInv
<1>2. IsFiniteSet(T) /\ \A x \in T : requests'[x].requestedDays \in Nat
  <2>1. T \in SUBSET Stored'
    BY DEF Charged, Stored
  <2>2. IsFiniteSet(Stored')
    BY DEF GroundInv
  <2>3. \A x \in Stored' : requests'[x].requestedDays \in Nat
    BY DEF Stored, TypeOK, LeaveRequest
  <2> QED BY <2>1, <2>2, <2>3, FS_Subset
<1>3. S \ {r} = T \ {r}
  BY DEF Charged, AccountOf
<1>4. \A x \in S \ {r} : requests[x].requestedDays = requests'[x].requestedDays
  BY DEF Charged
<1>5. Total(requests, S \ {r}) = Total(requests', S \ {r})
  <2>1. IsFiniteSet(S \ {r})
    BY <1>1, FS_RemoveElement
  <2> QED BY <1>4, <2>1, TotalSame
<1>6. /\ Total(requests, S) = Total(requests, S \ {r}) + Part(requests, S, r)
      /\ Total(requests, S \ {r}) \in Nat /\ Part(requests, S, r) \in Nat
  BY <1>1, TotalSplits
<1>7. /\ Total(requests', T) = Total(requests', T \ {r}) + Part(requests', T, r)
      /\ Total(requests', T \ {r}) \in Nat /\ Part(requests', T, r) \in Nat
  BY <1>2, TotalSplits
<1>8. Share(r, a, status) = Part(requests, S, r) /\ Share(r, a, status)' = Part(requests', T, r)
  BY DEF Share, Part
<1>9. /\ DaysOf(Charged(a, status)) = Total(requests, S)
      /\ DaysOf(Charged(a, status))' = Total(requests', T)
  <2>1. DaysOf(Charged(a, status))' = DaysOf(T)'
    OBVIOUS
  <2> QED BY <2>1, DaysTotal
<1> QED BY <1>3, <1>5, <1>6, <1>7, <1>8, <1>9

\* Types and requests being as they were, so are the days charged.
LEMMA ChargedStays ==
    ASSUME UNCHANGED <<types, requests>>, NEW a
    PROVE  /\ ApprovedDays(a)' = ApprovedDays(a) /\ PendingDays(a)' = PendingDays(a)
           /\ \A t : /\ Granted(t, a)' = Granted(t, a)
                     /\ Answered(t, a)' = Answered(t, a)
                     /\ Asked(t, a)' = Asked(t, a)
<1>1. \A status : Charged(a, status)' = Charged(a, status)
  BY DEF Charged
<1>2. ApprovedDays(a)' = ApprovedDays(a) /\ PendingDays(a)' = PendingDays(a)
  <2>1. \A S : DaysOf(S)' = DaysOf(S)
    BY DaysTotal
  <2>2. PICK S : S = Charged(a, "approved")
    OBVIOUS
  <2>3. PICK T : T = Charged(a, "pending")
    OBVIOUS
  <2>4. ApprovedDays(a)' = DaysOf(S)' /\ PendingDays(a)' = DaysOf(T)'
    BY <1>1, <2>2, <2>3 DEF ApprovedDays, PendingDays
  <2> QED BY <2>1, <2>2, <2>3, <2>4 DEF ApprovedDays, PendingDays
<1>3. \A t : /\ Granted(t, a)' = Granted(t, a)
             /\ Answered(t, a)' = Answered(t, a)
             /\ Asked(t, a)' = Asked(t, a)
  BY DEF Granted, Answered, Asked, Concerns, Requires
<1> QED BY <1>2, <1>3


-----------------------------------------------------------------------------
(***************************************************************************)
(* While it is calm one handler is at work, and its copies are current     *)
(***************************************************************************)
Current(t) ==
    /\ t.at \in {"create_balance", "create_save_balance", "review_balance",
                 "review_save_balance"} => Requires(t.row)
    /\ t.at \in {"create_save_balance", "review_save_balance"} =>
           balances[AccountOf(t.row)] # None
    /\ t.at = "create_save_balance" =>
           t.balance = Reserved(balances[AccountOf(t.row)], t.row)
    /\ t.at = "review_save_balance" =>
           t.balance = Released(balances[AccountOf(t.row)], t.row)
    /\ t.at \in Reviews => requests[t.request].status = "pending"
    /\ t.at = "set_read" => t.dto.used = None
    /\ t.at = "set_save" =>
           /\ t.fresh <=> balances[t.account] = None
           /\ t.balance.used = UsedOf(t.account)
    /\ t.at = "type_save" => t.row = types[t.leaveType]

Lone == \A g \in Handlers, h \in Handlers : ~At(g, "idle") /\ ~At(h, "idle") => g = h

\* What the handler at work holds, Idle when there is none.
AtWork(t) ==
    IF Quiescent THEN t = Idle ELSE \E h \in Handlers : task[h] = t /\ t.at # "idle"

InOrder(t) == \A a \in Account : Surplus(t, a) >= 0

CalmInv == calm => Lone /\ \A t \in Task : AtWork(t) => Current(t) /\ InOrder(t)

\* A step from t to n keeps the columns in step with the requests.
KeepsUsed(t, n) == \A a \in Account : Surplus(n, a)' = Surplus(t, a)
KeepsPending(t, n) == \A a \in Account : Excess(n, a)' = Excess(t, a)

\* A handler with nothing half saved.
Silent(t) == t.at \in {"review_save", "create_save"} => ~Requires(t.row)

LEMMA SilentAmounts ==
    ASSUME NEW t, Silent(t), NEW a
    PROVE  Granted(t, a) = 0 /\ Answered(t, a) = 0 /\ Asked(t, a) = 0
BY DEF Silent, Granted, Answered, Asked, Concerns

LEMMA QuietBooks ==
    ASSUME UNCHANGED tables, NEW t, NEW n, Silent(t), Silent(n)
    PROVE  KeepsUsed(t, n) /\ KeepsPending(t, n)
<1> SUFFICES ASSUME NEW a \in Account
             PROVE  Surplus(n, a)' = Surplus(t, a) /\ Excess(n, a)' = Excess(t, a)
  BY DEF KeepsUsed, KeepsPending
<1>1. UsedOf(a)' = UsedOf(a) /\ PendingOf(a)' = PendingOf(a)
  BY DEF tables, UsedOf, PendingOf
<1>2. /\ ApprovedDays(a)' = ApprovedDays(a) /\ PendingDays(a)' = PendingDays(a)
      /\ Granted(n, a)' = Granted(n, a) /\ Answered(n, a)' = Answered(n, a)
      /\ Asked(n, a)' = Asked(n, a)
  BY ChargedStays DEF tables
<1> QED BY <1>1, <1>2, SilentAmounts DEF Surplus, Excess

LEMMA CurrentStays ==
    ASSUME UNCHANGED tables, NEW n, Current(n)
    PROVE  Current(n)'
BY DEF tables, Current, Requires, UsedOf

LEMMA IdleCurrent == Current(Idle) /\ Current(Idle)' /\ Silent(Idle)
BY DEF Current, Idle, Silent, Reviews

\* How a calm step of h leaves the books.
Orderly(h, t, n) ==
    /\ task'[h] = n /\ Others(h)
    /\ Current(n)'
    /\ KeepsUsed(t, n)

LEMMA ArrivesOrderly ==
    ASSUME TypeOK, NEW h \in Handlers, Arrives(h), calm', NEW n, n = task'[h]
    PROVE  Orderly(h, Idle, n) /\ KeepsPending(Idle, n)
<1>1. UNCHANGED tables /\ Others(h) /\ Arrival(n, TRUE)
  BY DEF Arrives, Arrival, SetsBalance, SetsType
<1>2. Current(n) /\ Silent(n)
  <2>1. CASE AsksForLeave(n)
    BY <2>1 DEF AsksForLeave, Current, Silent, Reviews
  <2>2. CASE StartsReview(n)
    BY <2>2 DEF StartsReview, Current, Silent, Reviews
  <2>3. CASE SetsBalance(n, TRUE) \/ SetsType(n, TRUE)
    BY <2>3 DEF SetsBalance, SetsType, Current, Silent, Reviews
  <2> QED BY <1>1, <2>1, <2>2, <2>3 DEF Arrival
<1> QED BY <1>1, <1>2, CurrentStays, IdleCurrent, QuietBooks DEF Orderly

LEMMA ReadOrderly ==
    ASSUME TypeOK, NEW h \in Handlers, NEW t, t = task[h], NEW n, n = task'[h], Current(t),
           CreateReadBalance(h) \/ ReviewReadBalance(h) \/ SetReadBalance(h)
    PROVE  Orderly(h, t, n) /\ KeepsPending(t, n)
<1>1. UNCHANGED tables /\ Silent(t)
  BY DEF CreateReadBalance, ReviewReadBalance, SetReadBalance, tables, Silent, At
<1> SUFFICES Others(h) /\ Current(n) /\ Silent(n)
  BY <1>1, CurrentStays, QuietBooks DEF Orderly
<1>2. ASSUME Finish(h) PROVE Others(h) /\ Current(n) /\ Silent(n)
  BY <1>2, Rests, IdleCurrent
<1>3. CASE CreateReadBalance(h)
  <2> DEFINE balance == balances[AccountOf(t.row)]
             m == [at |-> "create_save_balance", row |-> t.row,
                   balance |-> Reserved(balance, t.row)]
  <2>1. /\ t.at = "create_balance"
        /\ Finish(h) \/ (balance # None /\ Continue(h, m))
    BY <1>3 DEF CreateReadBalance, At
  <2>2. balance # None => Current(m) /\ Silent(m)
    BY <2>1 DEF Current, Silent, Reviews
  <2> HIDE DEF m
  <2> QED BY <1>2, <2>1, <2>2, Moves
<1>4. CASE ReviewReadBalance(h)
  <2> DEFINE balance == balances[AccountOf(t.row)]
             m == [at |-> "review_save_balance", request |-> t.request, row |-> t.row,
                   balance |-> Released(balance, t.row)]
  <2>1. /\ t.at = "review_balance"
        /\ Finish(h) \/ (balance # None /\ Continue(h, m))
    BY <1>4 DEF ReviewReadBalance, At
  <2>2. balance # None => Current(m) /\ Silent(m)
    BY <2>1 DEF Current, Silent, Reviews
  <2> HIDE DEF m
  <2> QED BY <1>2, <2>1, <2>2, Moves
<1>5. CASE SetReadBalance(h)
  <2> DEFINE found == balances[t.account]
             base == IF found = None THEN NewBalance ELSE found
             m == [at |-> "set_save", account |-> t.account,
                   balance |-> SetColumns(t.dto, base), fresh |-> found = None]
  <2>1. t.at = "set_read" /\ Continue(h, m)
    BY <1>5 DEF SetReadBalance, At
  <2>2. SetColumns(t.dto, base).used = base.used /\ base.used = UsedOf(t.account)
    BY <2>1 DEF Current, SetColumns, OrElse, UsedOf, NewBalance
  <2>3. Current(m) /\ Silent(m)
    <3> HIDE DEF base
    <3> QED BY <2>2 DEF Current, Silent, Reviews
  <2> HIDE DEF m
  <2> QED BY <2>1, <2>3, Moves
<1> QED BY <1>3, <1>4, <1>5


LEMMA CreateSaveBalanceOrderly ==
    ASSUME TypeOK, GroundInv, NEW h \in Handlers, NEW t, t = task[h], NEW n, n = task'[h],
           Current(t), CreateSaveBalance(h)
    PROVE  Orderly(h, t, n) /\ KeepsPending(t, n)
<1> PICK account : account = AccountOf(t.row)
  OBVIOUS
<1> PICK old : old = balances[account]
  OBVIOUS
<1>1. /\ t \in Task /\ t.at = "create_save_balance" /\ t.row \in LeaveRequest
      /\ account \in Account /\ old # None /\ old \in Balance /\ Requires(t.row)
      /\ t.balance = Reserved(old, t.row) /\ t.row.requestedDays \in Nat
  <2>1. t \in Task /\ t.at = "create_save_balance"
    BY DEF TypeOK, CreateSaveBalance, At
  <2>2. t.row \in LeaveRequest
    BY <2>1, TaskFields
  <2>3. account \in Account
    BY <2>2, AccountTyped
  <2> QED BY <2>1, <2>2, <2>3 DEF Current, TypeOK, LeaveRequest
<1>2. /\ UNCHANGED <<types, requests>> /\ Others(h)
      /\ balances' = [balances EXCEPT ![account] = t.balance]
      /\ n = [at |-> "create_save", row |-> t.row]
  BY Moves DEF CreateSaveBalance
<1>3. Current(n)'
  BY <1>2 DEF Current, Reviews
<1>4. /\ UsedOf(account)' = UsedOf(account)
      /\ PendingOf(account)' = PendingOf(account) + t.row.requestedDays
  <2>1. balances'[account] = t.balance /\ t.balance # None
    BY <1>1, <1>2, ReservedTyped, RowAssumption DEF TypeOK
  <2>2. /\ t.balance.used = old.used /\ t.balance.pending = old.pending + t.row.requestedDays
    BY <1>1 DEF Reserved, Balance
  <2> QED BY <1>1, <2>1, <2>2 DEF UsedOf, PendingOf
<1>5. ASSUME NEW a \in Account
      PROVE  Surplus(n, a)' = Surplus(t, a) /\ Excess(n, a)' = Excess(t, a)
  <2>1. /\ ApprovedDays(a)' = ApprovedDays(a) /\ PendingDays(a)' = PendingDays(a)
        /\ Granted(n, a)' = Granted(n, a) /\ Answered(n, a)' = Answered(n, a)
        /\ Asked(n, a)' = Asked(n, a)
    BY <1>2, ChargedStays
  <2>2. /\ Granted(t, a) = 0 /\ Answered(t, a) = 0 /\ Asked(t, a) = 0
        /\ Granted(n, a) = 0 /\ Answered(n, a) = 0
        /\ Asked(n, a) = IF a = account THEN t.row.requestedDays ELSE 0
    BY <1>1, <1>2 DEF Granted, Answered, Asked, Concerns, Requires
  <2>3. a # account => UsedOf(a)' = UsedOf(a) /\ PendingOf(a)' = PendingOf(a)
    BY <1>2 DEF UsedOf, PendingOf, TypeOK
  <2>4. UsedOf(a) \in Nat /\ PendingOf(a) \in Nat /\ ApprovedDays(a) \in Nat
        /\ PendingDays(a) \in Nat
    BY <1>1, AmountsTyped
  <2> QED BY <1>1, <1>4, <2>1, <2>2, <2>3, <2>4 DEF Surplus, Excess
<1> QED BY <1>2, <1>3, <1>5 DEF Orderly, KeepsUsed, KeepsPending

\* Approving a request books its days, and deciding it releases them: all of them, if at least
\* as many are reserved.
LEMMA ReviewSaveBalanceOrderly ==
    ASSUME TypeOK, GroundInv, NEW h \in Handlers, NEW t, t = task[h], NEW n, n = task'[h],
           Current(t), ReviewSaveBalance(h)
    PROVE  /\ Orderly(h, t, n)
           /\ t.row.requestedDays <= PendingOf(AccountOf(t.row)) => KeepsPending(t, n)
<1> PICK account : account = AccountOf(t.row)
  OBVIOUS
<1> PICK old : old = balances[account]
  OBVIOUS
<1>1. /\ t \in Task /\ t.at = "review_save_balance" /\ t.row \in LeaveRequest
      /\ account \in Account /\ old # None /\ old \in Balance /\ Requires(t.row)
      /\ t.balance = Released(old, t.row) /\ t.row.requestedDays \in Nat
      /\ requests[t.request].status = "pending"
  <2>1. t \in Task /\ t.at = "review_save_balance"
    BY DEF TypeOK, ReviewSaveBalance, At
  <2>2. t.row \in LeaveRequest
    BY <2>1, TaskFields
  <2>3. account \in Account
    BY <2>2, AccountTyped
  <2> QED BY <2>1, <2>2, <2>3 DEF Current, TypeOK, LeaveRequest, Reviews
<1>2. /\ UNCHANGED <<types, requests>> /\ Others(h)
      /\ balances' = [balances EXCEPT ![account] = t.balance]
      /\ n = [at |-> "review_save", request |-> t.request, row |-> t.row]
  BY Moves DEF ReviewSaveBalance
<1>3. Current(n)'
  BY <1>1, <1>2 DEF Current, Reviews
<1> DEFINE granted == IF t.row.status = "approved" THEN t.row.requestedDays ELSE 0
<1>4. /\ UsedOf(account)' = UsedOf(account) + granted
      /\ t.row.requestedDays <= PendingOf(account) =>
             PendingOf(account)' = PendingOf(account) - t.row.requestedDays
  <2>1. balances'[account] = t.balance /\ t.balance # None
    BY <1>1, <1>2, ReleasedTyped, RowAssumption DEF TypeOK
  <2>2. /\ t.balance.used = old.used + granted
        /\ t.row.requestedDays <= old.pending =>
               t.balance.pending = old.pending - t.row.requestedDays
    BY <1>1 DEF Released, Balance
  <2> HIDE DEF granted
  <2> QED BY <1>1, <2>1, <2>2 DEF UsedOf, PendingOf
<1>5. ASSUME NEW a \in Account
      PROVE  /\ Surplus(n, a)' = Surplus(t, a)
             /\ t.row.requestedDays <= PendingOf(account) => Excess(n, a)' = Excess(t, a)
  <2>1. /\ ApprovedDays(a)' = ApprovedDays(a) /\ PendingDays(a)' = PendingDays(a)
        /\ Granted(n, a)' = Granted(n, a) /\ Answered(n, a)' = Answered(n, a)
        /\ Asked(n, a)' = Asked(n, a)
    BY <1>2, ChargedStays
  <2>2. /\ Granted(t, a) = 0 /\ Answered(t, a) = 0 /\ Asked(t, a) = 0
        /\ Granted(n, a) = IF a = account THEN granted ELSE 0
        /\ Answered(n, a) = IF a = account THEN t.row.requestedDays ELSE 0
        /\ Asked(n, a) = 0
    BY <1>1, <1>2 DEF Granted, Answered, Asked, Concerns, Requires
  <2>3. a # account => UsedOf(a)' = UsedOf(a) /\ PendingOf(a)' = PendingOf(a)
    BY <1>2 DEF UsedOf, PendingOf, TypeOK
  <2>4. UsedOf(a) \in Nat /\ PendingOf(a) \in Nat /\ ApprovedDays(a) \in Nat
        /\ PendingDays(a) \in Nat /\ granted \in Nat
    BY <1>1, AmountsTyped
  <2> HIDE DEF granted
  <2> QED BY <1>1, <1>4, <2>1, <2>2, <2>3, <2>4 DEF Surplus, Excess
<1> QED BY <1>2, <1>3, <1>5 DEF Orderly, KeepsUsed, KeepsPending

LEMMA SetSaveOrderly ==
    ASSUME TypeOK, GroundInv, NEW h \in Handlers, NEW t, t = task[h], NEW n, n = task'[h],
           Current(t), SetSave(h)
    PROVE  /\ Orderly(h, t, n)
           /\ t.balance.pending = PendingOf(t.account) => KeepsPending(t, n)
<1> PICK account : account = t.account
  OBVIOUS
<1>1. /\ t \in Task /\ t.at = "set_save" /\ account \in Account /\ t.balance \in Balance
      /\ t.fresh <=> balances[account] = None
      /\ t.balance.used = UsedOf(account)
  BY TaskFields DEF TypeOK, SetSave, At, Current
<1>2. /\ UNCHANGED <<types, requests>> /\ Others(h) /\ n = Idle
      /\ balances' = [balances EXCEPT ![account] = t.balance]
  BY <1>1, Rests DEF SetSave
<1>3. Silent(t) /\ Silent(n)
  BY <1>1, <1>2, IdleCurrent DEF Silent
<1>4. ASSUME NEW a \in Account
      PROVE  /\ Surplus(n, a)' = Surplus(t, a)
             /\ t.balance.pending = PendingOf(account) => Excess(n, a)' = Excess(t, a)
  <2>1. /\ ApprovedDays(a)' = ApprovedDays(a) /\ PendingDays(a)' = PendingDays(a)
        /\ Granted(n, a)' = Granted(n, a) /\ Answered(n, a)' = Answered(n, a)
        /\ Asked(n, a)' = Asked(n, a)
    BY <1>2, ChargedStays
  <2>2. t.balance # None
    BY <1>1, RowAssumption
  <2>3. UsedOf(a)' = UsedOf(a)
    BY <1>1, <1>2, <2>2 DEF UsedOf, TypeOK
  <2>4. t.balance.pending = PendingOf(account) => PendingOf(a)' = PendingOf(a)
    BY <1>1, <1>2, <2>2 DEF PendingOf, TypeOK
  <2> QED BY <1>3, <2>1, <2>3, <2>4, SilentAmounts DEF Surplus, Excess
<1> QED BY <1>2, <1>4, IdleCurrent DEF Orderly, KeepsUsed, KeepsPending

LEMMA TypeSaveOrderly ==
    ASSUME TypeOK, NEW h \in Handlers, NEW t, t = task[h], NEW n, n = task'[h], Current(t),
           TypeSave(h)
    PROVE  Orderly(h, t, n) /\ KeepsPending(t, n) /\ UNCHANGED tables
<1>1. t.at = "type_save" /\ t.row = types[t.leaveType]
  BY DEF TypeSave, At, Current
<1>2. UNCHANGED tables /\ Others(h) /\ n = Idle
  BY <1>1, Rests DEF TypeSave, tables, TypeOK
<1>3. Silent(t)
  BY <1>1 DEF Silent
<1> QED BY <1>2, <1>3, IdleCurrent, QuietBooks DEF Orderly

\* The share of request r in a status, where row is what is stored of it.
LEMMA ShareOfRow ==
    ASSUME TypeOK, NEW r \in RequestIds, NEW a, NEW status,
           NEW row \in LeaveRequest, requests[r] = row
    PROVE  Share(r, a, status) =
               IF Concerns([row |-> row], a) /\ row.status = status
               THEN row.requestedDays ELSE 0
<1>1. row # None
  BY RowAssumption
<1>2. AccountOf(row) = a => a[2] = row.leaveType
  BY DEF AccountOf
<1> QED BY <1>1, <1>2 DEF Share, Charged, Concerns, Requires

\* What is stored of a request by the last save of either kind, and what was.
LEMMA SharesMove ==
    ASSUME TypeOK, UNCHANGED types, NEW r \in RequestIds, NEW row \in LeaveRequest,
           requests' = [requests EXCEPT ![r] = row], NEW a, NEW status
    PROVE  /\ Share(r, a, status)' = IF Concerns([row |-> row], a) /\ row.status = status
                                     THEN row.requestedDays ELSE 0
           /\ requests[r] = None => Share(r, a, status) = 0
<1>1. row # None /\ requests'[r] = row
  BY RowAssumption DEF TypeOK
<1>2. AccountOf(row) = a => a[2] = row.leaveType
  BY DEF AccountOf
<1>3. requests[r] = None => Share(r, a, status) = 0
  BY DEF Share, Charged
<1> QED BY <1>1, <1>2, <1>3 DEF Share, Charged, Concerns, Requires

LEMMA CreateSaveOrderly ==
    ASSUME TypeOK, TypeOK', GroundInv, GroundInv', NEW h \in Handlers,
           NEW t, t = task[h], NEW n, n = task'[h], CreateSave(h)
    PROVE  Orderly(h, t, n) /\ KeepsPending(t, n)
<1>1. /\ t \in Task /\ t.at = "create_save" /\ t.row \in LeaveRequest
      /\ t.row.status = "pending" /\ t.row.requestedDays \in Nat
  <2>1. t \in Task /\ t.at = "create_save"
    BY DEF TypeOK, CreateSave, At
  <2>2. t.row \in LeaveRequest /\ t.row.status = "pending"
    BY <2>1, TaskFields DEF GroundInv, Grounded, Creating
  <2> QED BY <2>1, <2>2 DEF LeaveRequest
<1>2. PICK r \in RequestIds : requests[r] = None /\ requests' = [requests EXCEPT ![r] = t.row]
  BY DEF CreateSave
<1>3. UNCHANGED <<types, balances>> /\ Others(h) /\ n = Idle
  BY Rests DEF CreateSave
<1>4. ASSUME NEW a \in Account
      PROVE  Surplus(n, a)' = Surplus(t, a) /\ Excess(n, a)' = Excess(t, a)
  <2>1. \A q \in RequestIds : q # r => requests'[q] = requests[q]
    BY <1>2 DEF TypeOK
  <2>2. /\ Share(r, a, "approved") = 0 /\ Share(r, a, "approved")' = 0
        /\ Share(r, a, "pending") = 0 /\ Share(r, a, "pending")' = Asked(t, a)
    <3>1. Concerns([row |-> t.row], a) <=> Concerns(t, a)
      BY DEF Concerns
    <3> PICK row : row = t.row
      OBVIOUS
    <3>2. row \in LeaveRequest /\ requests' = [requests EXCEPT ![r] = row] /\ UNCHANGED types
      BY <1>1, <1>2, <1>3
    <3>3. /\ Share(r, a, "approved") = 0 /\ Share(r, a, "pending") = 0
          /\ Share(r, a, "approved")' = IF Concerns(t, a) /\ t.row.status = "approved"
                                        THEN t.row.requestedDays ELSE 0
          /\ Share(r, a, "pending")' = IF Concerns(t, a) /\ t.row.status = "pending"
                                       THEN t.row.requestedDays ELSE 0
      BY <1>2, <3>1, <3>2, SharesMove
    <3> QED BY <1>1, <3>3 DEF Asked
  <2>3. /\ ApprovedDays(a)' = ApprovedDays(a) /\ ApprovedDays(a) \in Nat
        /\ PendingDays(a)' = PendingDays(a) + Asked(t, a)
        /\ PendingDays(a) \in Nat /\ PendingDays(a)' \in Nat /\ Asked(t, a) \in Nat
    <3>1. /\ ApprovedDays(a)' - Share(r, a, "approved")' =
                ApprovedDays(a) - Share(r, a, "approved")
          /\ ApprovedDays(a) \in Nat /\ ApprovedDays(a)' \in Nat
      BY <1>3, <2>1, ChargedMoves DEF ApprovedDays
    <3>2. /\ PendingDays(a)' - Share(r, a, "pending")' = PendingDays(a) - Share(r, a, "pending")
          /\ PendingDays(a) \in Nat /\ PendingDays(a)' \in Nat
          /\ Share(r, a, "pending")' \in Nat
      BY <1>3, <2>1, ChargedMoves DEF PendingDays
    <3> QED BY <2>2, <3>1, <3>2
  <2>4. UsedOf(a)' = UsedOf(a) /\ PendingOf(a)' = PendingOf(a)
    BY <1>3 DEF UsedOf, PendingOf
  <2>5. /\ Granted(t, a) = 0 /\ Answered(t, a) = 0
        /\ Granted(n, a)' = 0 /\ Answered(n, a)' = 0 /\ Asked(n, a)' = 0
    BY <1>1, <1>3 DEF Granted, Answered, Asked, Idle
  <2>6. UsedOf(a) \in Nat /\ PendingOf(a) \in Nat
    BY <1>1, AmountsTyped
  <2> QED BY <2>3, <2>4, <2>5, <2>6 DEF Surplus, Excess
<1> QED BY <1>3, <1>4, IdleCurrent DEF Orderly, KeepsUsed, KeepsPending

\* The decision is stored: the request moves from the pending days to the approved ones, or
\* to neither.
LEMMA ReviewSaveOrderly ==
    ASSUME IInv, TypeOK, TypeOK', GroundInv, GroundInv', NEW h \in Handlers,
           NEW t, t = task[h], NEW n, n = task'[h], Current(t), ReviewSave(h)
    PROVE  Orderly(h, t, n) /\ KeepsPending(t, n)
<1> PICK r : r = t.request
  OBVIOUS
<1> PICK old : old = requests[r]
  OBVIOUS
<1>1. /\ t \in Task /\ t.at = "review_save" /\ t.row \in LeaveRequest /\ r \in RequestIds
      /\ old \in LeaveRequest /\ SameTerms(t.row, old) /\ t.row.status # "pending"
      /\ old.status = "pending"
      /\ requests' = [requests EXCEPT ![r] = t.row]
  <2>1. t.at = "review_save"
    BY DEF ReviewSave, At
  <2>2. old.status = "pending"
    BY <2>1 DEF Current, Reviews
  <2> QED BY <2>1, <2>2, ReviewEnds DEF TypeOK
<1>2. /\ t.row.employee = old.employee /\ t.row.leaveType = old.leaveType
      /\ t.row.startDate = old.startDate /\ t.row.requestedDays = old.requestedDays
      /\ t.row.requestedDays \in Nat /\ t.row.status \in {"approved", "rejected"}
  BY <1>1 DEF SameTerms, LeaveRequest
<1>3. UNCHANGED <<types, balances>> /\ Others(h) /\ n = Idle
  BY Rests DEF ReviewSave
<1>4. ASSUME NEW a \in Account
      PROVE  Surplus(n, a)' = Surplus(t, a) /\ Excess(n, a)' = Excess(t, a)
  <2>1. \A q \in RequestIds : q # r => requests'[q] = requests[q]
    BY <1>1 DEF TypeOK
  <2>2. /\ Share(r, a, "approved") = 0 /\ Share(r, a, "approved")' = Granted(t, a)
        /\ Share(r, a, "pending") = Answered(t, a) /\ Share(r, a, "pending")' = 0
    <3>1. /\ Concerns([row |-> t.row], a) <=> Concerns(t, a)
          /\ Concerns([row |-> old], a) <=> Concerns(t, a)
      BY <1>2 DEF Concerns, AccountOf, Requires
    <3> PICK row : row = t.row
      OBVIOUS
    <3>2. /\ r \in RequestIds /\ row \in LeaveRequest
          /\ requests' = [requests EXCEPT ![r] = row] /\ UNCHANGED types
      BY <1>1, <1>3
    <3>3. /\ Share(r, a, "approved")' = IF Concerns(t, a) /\ t.row.status = "approved"
                                        THEN t.row.requestedDays ELSE 0
          /\ Share(r, a, "pending")' = IF Concerns(t, a) /\ t.row.status = "pending"
                                       THEN t.row.requestedDays ELSE 0
      <4>1. UNCHANGED types
        BY <1>3
      <4>2. ASSUME NEW q \in RequestIds, NEW p \in LeaveRequest, NEW status,
                   requests' = [requests EXCEPT ![q] = p]
            PROVE  Share(q, a, status)' = IF Concerns([row |-> p], a) /\ p.status = status
                                          THEN p.requestedDays ELSE 0
        BY <4>1, <4>2, SharesMove
      <4>3. \A status : Share(r, a, status)' =
                             IF Concerns([row |-> row], a) /\ row.status = status
                             THEN row.requestedDays ELSE 0
        BY <3>2, <4>2, Zenon
      <4> QED BY <3>1, <4>3
    <3>4. /\ Share(r, a, "approved") = IF Concerns(t, a) /\ old.status = "approved"
                                       THEN old.requestedDays ELSE 0
          /\ Share(r, a, "pending") = IF Concerns(t, a) /\ old.status = "pending"
                                      THEN old.requestedDays ELSE 0
      BY <1>1, <3>1, ShareOfRow
    <3> QED BY <1>1, <1>2, <3>3, <3>4 DEF Granted, Answered
  <2>3. /\ ApprovedDays(a)' = ApprovedDays(a) + Granted(t, a)
        /\ PendingDays(a)' = PendingDays(a) - Answered(t, a)
    <3>1. /\ ApprovedDays(a)' - Share(r, a, "approved")' =
                ApprovedDays(a) - Share(r, a, "approved")
          /\ ApprovedDays(a) \in Nat /\ ApprovedDays(a)' \in Nat
          /\ Share(r, a, "approved")' \in Nat
      BY <1>1, <1>3, <2>1, ChargedMoves DEF ApprovedDays
    <3>2. /\ PendingDays(a)' - Share(r, a, "pending")' = PendingDays(a) - Share(r, a, "pending")
          /\ PendingDays(a) \in Nat /\ PendingDays(a)' \in Nat
          /\ Share(r, a, "pending") \in Nat
      BY <1>1, <1>3, <2>1, ChargedMoves DEF PendingDays
    <3> QED BY <2>2, <3>1, <3>2
  <2>4. UsedOf(a)' = UsedOf(a) /\ PendingOf(a)' = PendingOf(a)
    BY <1>3 DEF UsedOf, PendingOf
  <2>5. /\ Asked(t, a) = 0
        /\ Granted(n, a)' = 0 /\ Answered(n, a)' = 0 /\ Asked(n, a)' = 0
    BY <1>1, <1>3 DEF Granted, Answered, Asked, Idle
  <2>6. /\ UsedOf(a) \in Nat /\ PendingOf(a) \in Nat
        /\ ApprovedDays(a) \in Nat /\ PendingDays(a) \in Nat
        /\ Granted(t, a) \in Nat /\ Answered(t, a) \in Nat
    BY <1>1, AmountsTyped
  <2> QED BY <2>3, <2>4, <2>5, <2>6 DEF Surplus, Excess
<1> QED BY <1>3, <1>4, IdleCurrent DEF Orderly, KeepsUsed, KeepsPending

\* A handler that dies leaves the columns ahead of the requests or in step with them.
LEMMA FailOrderly ==
    ASSUME TypeOK, GroundInv, NEW h \in Handlers, NEW t, t = task[h], NEW n, n = task'[h],
           Fail(h)
    PROVE  Others(h) /\ Current(n)' /\ (InOrder(t) => InOrder(n)')
<1>1. Others(h) /\ n = Idle /\ UNCHANGED tables
  BY Rests DEF Fail
<1>2. ASSUME NEW a \in Account, Surplus(t, a) >= 0 PROVE Surplus(n, a)' >= 0
  <2>1. UsedOf(a)' = UsedOf(a) /\ ApprovedDays(a)' = ApprovedDays(a)
    BY <1>1, ChargedStays DEF tables, UsedOf
  <2>2. Granted(n, a)' = 0
    BY <1>1 DEF Granted, Idle
  <2>3. UsedOf(a) \in Nat /\ ApprovedDays(a) \in Nat /\ Granted(t, a) \in Nat
    BY AmountsTyped DEF TypeOK
  <2> QED BY <1>2, <2>1, <2>2, <2>3 DEF Surplus
<1> QED BY <1>1, <1>2, IdleCurrent DEF InOrder

\* No request is charged to a leave type that is yet to come, and nobody is working on it.
LEMMA NewTypeOrderly ==
    ASSUME TypeOK, GroundInv, NEW u \in LeaveTypes, NEW flag \in BOOLEAN,
           CreateLeaveType(u, flag), NEW t \in Task, Grounded(t)
    PROVE  /\ Current(t) => Current(t)'
           /\ KeepsUsed(t, t) /\ KeepsPending(t, t)
<1>1. /\ types[u] = None /\ UNCHANGED <<balances, requests>>
      /\ \A v \in LeaveTypes : v # u => types'[v] = types[v]
  BY DEF CreateLeaveType, TypeOK
<1>2. /\ t.at \in Creating \cup Reviews => t.row.leaveType \in LeaveTypes
      /\ t.at = "type_save" => t.leaveType \in LeaveTypes
  BY TaskFields DEF Creating, Reviews, LeaveRequest
<1>3. /\ t.at \in Creating \cup Reviews => Requires(t.row)' = Requires(t.row)
      /\ t.at = "type_save" => types'[t.leaveType] = types[t.leaveType]
  BY <1>1, <1>2 DEF Grounded, Requires
<1>4. Current(t) => Current(t)'
  BY <1>1, <1>3 DEF Current, Creating, Reviews, UsedOf
<1>5. ASSUME NEW a \in Account
      PROVE  Surplus(t, a)' = Surplus(t, a) /\ Excess(t, a)' = Excess(t, a)
  <2>1. UsedOf(a)' = UsedOf(a) /\ PendingOf(a)' = PendingOf(a)
    BY <1>1 DEF UsedOf, PendingOf
  <2>2. /\ Granted(t, a)' = Granted(t, a) /\ Answered(t, a)' = Answered(t, a)
        /\ Asked(t, a)' = Asked(t, a)
    BY <1>3 DEF Granted, Answered, Asked, Concerns, Creating, Reviews
  <2>3. ASSUME NEW status PROVE Charged(a, status)' = Charged(a, status)
    <3>1. ASSUME NEW r \in RequestIds, requests[r] # None, AccountOf(requests[r]) = a
          PROVE  types'[a[2]] = types[a[2]]
      BY <1>1, <3>1 DEF GroundInv, AccountOf, TypeOK, LeaveRequest
    <3> QED BY <1>1, <3>1 DEF Charged
  <2>4. ApprovedDays(a)' = ApprovedDays(a) /\ PendingDays(a)' = PendingDays(a)
    <3>1. \A S : DaysOf(S)' = DaysOf(S)
      BY <1>1, DaysTotal
    <3>2. PICK S : S = Charged(a, "approved")
      OBVIOUS
    <3>3. PICK T : T = Charged(a, "pending")
      OBVIOUS
    <3>4. ApprovedDays(a)' = DaysOf(S)' /\ PendingDays(a)' = DaysOf(T)'
      BY <2>3, <3>2, <3>3 DEF ApprovedDays, PendingDays
    <3> QED BY <3>1, <3>2, <3>3, <3>4 DEF ApprovedDays, PendingDays
  <2> QED BY <2>1, <2>2, <2>4 DEF Surplus, Excess
<1> QED BY <1>4, <1>5 DEF KeepsUsed, KeepsPending

-----------------------------------------------------------------------------
(***************************************************************************)
(* CalmLeaveIsBooked                                                       *)
(***************************************************************************)

\* In the calm, whoever takes a step is alone.
LEMMA Alone ==
    ASSUME TypeOK, Lone, NEW h \in Handlers, Quiescent \/ ~At(h, "idle")
    PROVE  AtWork(task[h]) /\ \A g \in Handlers : g # h => task[g] = Idle
<1>1. \A g \in Handlers : At(g, "idle") => task[g] = Idle
  BY IdleTask DEF TypeOK, At
<1> QED BY <1>1 DEF Lone, Quiescent, AtWork, At

LEMMA Handover ==
    ASSUME TypeOK', NEW h \in Handlers, Others(h), \A g \in Handlers : g # h => task[g] = Idle,
           NEW n, n = task'[h]
    PROVE  Lone' /\ \A m \in Task : AtWork(m)' => m = n
<1>1. \A g \in Handlers : g # h => task'[g] = Idle
  BY DEF Others
<1>2. Lone'
  BY <1>1 DEF Lone, At, Idle
<1>3. ASSUME NEW m \in Task, AtWork(m)' PROVE m = n
  <2>1. n.at = "idle" => n = Idle
    BY IdleTask DEF TypeOK
  <2> QED BY <1>1, <1>3, <2>1 DEF AtWork, Quiescent, At, Idle
<1> QED BY <1>2, <1>3

\* How a calm step of h goes, whatever it is.
LEMMA CalmStep ==
    ASSUME IInv, TypeOK', GroundInv, GroundInv', CalmInv, calm, NEW h \in Handlers,
           calm', Begin(h) \/ Proceed(h) \/ Fail(h), NEW t, t = task[h], NEW n, n = task'[h]
    PROVE  /\ AtWork(t) /\ Others(h) /\ \A g \in Handlers : g # h => task[g] = Idle
           /\ Current(n)' /\ InOrder(n)'
<1>1. TypeOK /\ Lone /\ \A m \in Task : AtWork(m) => Current(m) /\ InOrder(m)
  BY DEF IInv, CalmInv
<1>2. t \in Task
  BY <1>1 DEF TypeOK
<1>3. Begin(h) => Arrives(h) /\ Quiescent /\ t = Idle
  BY <1>1, <1>2, Arrivals, IdleTask DEF Arrives, At
<1>4. Proceed(h) \/ Fail(h) => ~At(h, "idle")
  BY DEF Proceed, Fail, At, CreateReadBalance, CreateSaveBalance, CreateSave,
         ReviewReadBalance, ReviewSaveBalance, ReviewSave, SetReadBalance, SetSave, TypeSave
<1>5. AtWork(t) /\ Current(t) /\ InOrder(t) /\ \A g \in Handlers : g # h => task[g] = Idle
  BY <1>1, <1>2, <1>3, <1>4, Alone
<1>6. CASE Fail(h)
  BY <1>1, <1>5, <1>6, FailOrderly
<1>7. CASE Begin(h) \/ Proceed(h)
  <2>1. Orderly(h, t, n)
    <3>1. CASE Begin(h)
      BY <1>1, <1>3, <3>1, ArrivesOrderly
    <3>2. CASE CreateReadBalance(h) \/ ReviewReadBalance(h) \/ SetReadBalance(h)
      BY <1>1, <1>5, <3>2, ReadOrderly
    <3>3. CASE CreateSaveBalance(h)
      BY <1>1, <1>5, <3>3, CreateSaveBalanceOrderly
    <3>4. CASE ReviewSaveBalance(h)
      BY <1>1, <1>5, <3>4, ReviewSaveBalanceOrderly
    <3>5. CASE CreateSave(h)
      BY <1>1, <1>5, <3>5, CreateSaveOrderly
    <3>6. CASE ReviewSave(h)
      BY <1>1, <1>5, <3>6, ReviewSaveOrderly
    <3>7. CASE SetSave(h)
      BY <1>1, <1>5, <3>7, SetSaveOrderly
    <3>8. CASE TypeSave(h)
      BY <1>1, <1>5, <3>8, TypeSaveOrderly
    <3> QED BY <1>7, <3>1, <3>2, <3>3, <3>4, <3>5, <3>6, <3>7, <3>8 DEF Proceed
  <2> QED BY <1>5, <2>1 DEF Orderly, KeepsUsed, InOrder
<1> QED BY <1>6, <1>7

LEMMA CalmInit == Init => CalmInv
<1> SUFFICES ASSUME Init PROVE CalmInv
  OBVIOUS
<1>1. Lone /\ Quiescent
  BY DEF Init, Lone, Quiescent, At, Idle
<1>2. ASSUME NEW a \in Account PROVE Surplus(Idle, a) = 0
  <2>1. UsedOf(a) = 0 /\ Granted(Idle, a) = 0
    BY DEF Init, UsedOf, Granted, Idle
  <2>2. Charged(a, "approved") = {}
    BY DEF Init, Charged
  <2>3. ApprovedDays(a) = 0
    BY <2>2, DaysTotal, TotalEmpty DEF ApprovedDays
  <2> QED BY <2>1, <2>3 DEF Surplus
<1> QED BY <1>1, <1>2, IdleCurrent DEF CalmInv, AtWork, InOrder

LEMMA CalmNext ==
    ASSUME IInv, TypeOK', GroundInv, GroundInv', CalmInv, [Next]_vars
    PROVE  CalmInv'
<1> SUFFICES ASSUME calm' PROVE CalmInv'
  BY DEF CalmInv
<1> USE DEF IInv
<1>1. ASSUME NEW h \in Handlers, Begin(h) \/ Proceed(h) \/ Fail(h) PROVE calm
  <2>1. Begin(h) => calm
    BY Arrivals DEF Arrives
  <2>2. Proceed(h) \/ Fail(h) => calm
    BY DEF Proceed, Fail, CreateReadBalance, CreateSaveBalance, CreateSave,
           ReviewReadBalance, ReviewSaveBalance, ReviewSave, SetReadBalance, SetSave, TypeSave
  <2> QED BY <1>1, <2>1, <2>2
<1>2. ASSUME NEW h \in Handlers, Begin(h) \/ Proceed(h) \/ Fail(h) PROVE CalmInv'
  <2> PICK t : t = task[h]
    OBVIOUS
  <2> PICK n : n = task'[h]
    OBVIOUS
  <2>1. /\ AtWork(t) /\ Others(h) /\ \A g \in Handlers : g # h => task[g] = Idle
        /\ Current(n)' /\ InOrder(n)'
    BY <1>1, <1>2, CalmStep
  <2>2. Lone' /\ \A m \in Task : AtWork(m)' => m = n
    BY <2>1, Handover
  <2> QED BY <2>1, <2>2, Zenon DEF CalmInv
<1>3. ASSUME NEW u \in LeaveTypes, NEW flag \in BOOLEAN, CreateLeaveType(u, flag)
      PROVE  CalmInv'
  <2>1. calm /\ (Lone => Lone') /\ \A m \in Task : AtWork(m)' => AtWork(m)
    BY <1>3 DEF CreateLeaveType, Lone, AtWork, Quiescent, At
  <2>2. ASSUME NEW m \in Task, AtWork(m) PROVE Grounded(m)
    BY <2>2 DEF GroundInv, AtWork, Grounded, Idle, Creating, Reviews
  <2>3. ASSUME NEW m \in Task, AtWork(m), Current(m), InOrder(m)
        PROVE  Current(m)' /\ InOrder(m)'
    BY <1>3, <2>2, <2>3, NewTypeOrderly DEF InOrder, KeepsUsed
  <2> QED BY <2>1, <2>3 DEF CalmInv
<1>4. CASE UNCHANGED vars
  <2>1. calm /\ (Lone => Lone') /\ \A m \in Task : AtWork(m)' => AtWork(m)
    <3>1. calm
      BY <1>4, Zenon DEF vars
    <3> QED BY <1>4, <3>1 DEF vars, Lone, AtWork, Quiescent, At
  <2>2. ASSUME NEW m \in Task, Current(m), InOrder(m) PROVE Current(m)' /\ InOrder(m)'
    <3>1. UNCHANGED tables
      BY <1>4 DEF vars, tables
    <3>2. ASSUME NEW a \in Account PROVE Surplus(m, a)' = Surplus(m, a)
      <4>1. UsedOf(a)' = UsedOf(a) /\ ApprovedDays(a)' = ApprovedDays(a)
            /\ Granted(m, a)' = Granted(m, a)
        BY <3>1, ChargedStays DEF tables, UsedOf
      <4> QED BY <4>1 DEF Surplus
    <3> QED BY <2>2, <3>1, <3>2, CurrentStays DEF InOrder
  <2> QED BY <2>1, <2>2 DEF CalmInv
<1> QED BY <1>2, <1>3, <1>4 DEF Next

LEMMA CalmBooks ==
    ASSUME TypeOK, GroundInv, CalmInv
    PROVE  CalmLeaveIsBooked
<1> SUFFICES ASSUME calm, NEW a \in Account, balances[a] # None
             PROVE  balances[a].used >= ApprovedDays(a)
  BY DEF CalmLeaveIsBooked, ApprovedDays
<1>1. PICK t \in Task : AtWork(t)
  <2>1. Idle \in Task
    BY DEF Task
  <2>2. \A h \in Handlers : task[h] \in Task
    BY DEF TypeOK
  <2> QED BY <2>1, <2>2 DEF AtWork, Quiescent, At
<1>2. Surplus(t, a) >= 0
  BY <1>1 DEF CalmInv, InOrder
<1>3. UsedOf(a) \in Nat /\ ApprovedDays(a) \in Nat /\ Granted(t, a) \in Nat
  BY AmountsTyped
<1> QED BY <1>2, <1>3 DEF Surplus, UsedOf

\* The two invariants behind the books, over every behaviour.
LEMMA BooksInvariance == Spec => [](IInv /\ GroundInv /\ CalmInv)
<1>1. Init => IInv /\ GroundInv /\ CalmInv
  BY TypeInit, HeldInit, GroundInit, CalmInit DEF IInv
<1>2. IInv /\ GroundInv /\ CalmInv /\ [Next]_vars => (IInv /\ GroundInv /\ CalmInv)'
  <2> SUFFICES ASSUME IInv, GroundInv, CalmInv, [Next]_vars
               PROVE  IInv' /\ GroundInv' /\ CalmInv'
    OBVIOUS
  <2>1. TypeOK /\ TypeOK' /\ IInv'
    BY TypeNext, HeldNext DEF IInv
  <2>2. GroundInv'
    BY <2>1, GroundNext
  <2> QED BY <2>1, <2>2, CalmNext
<1> QED BY <1>1, <1>2, PTL DEF Spec

\* LeaveService: as long as no two requests have overlapped and nobody has corrected a used
\* column or a leave type's requirement, no leave is granted without being booked, for any
\* number of employees, leave types and requests, and wherever handlers die.
THEOREM CalmBooked == Spec => []CalmLeaveIsBooked
<1>1. IInv /\ GroundInv /\ CalmInv => CalmLeaveIsBooked
  BY CalmBooks DEF IInv
<1> QED BY <1>1, BooksInvariance, PTL


-----------------------------------------------------------------------------
(***************************************************************************)
(* Reconciled.  Requests that come one after the other, none of which is   *)
(* cut short or corrects a column by hand, keep both columns exactly in    *)
(* step with the requests.                                                 *)
(***************************************************************************)
Undisturbed ==
    /\ calm
    /\ failures = 0
    /\ \A h \in Handlers : At(h, "set_read") => task[h].dto.pending = None

\* An administrator's change saves the pending column it read, ...
Kept(t) == t.at = "set_save" => t.balance.pending = PendingOf(t.account)

\* ... and days are reserved only where they are free.
Covered(t) ==
    /\ t.at = "create_save_balance" =>
           Available(balances[AccountOf(t.row)]) >= t.row.requestedDays
    /\ t.at = "create_save" /\ Requires(t.row) =>
           balances[AccountOf(t.row)] # None /\ Available(balances[AccountOf(t.row)]) >= 0

Even(t) == \A a \in Account : Surplus(t, a) = 0 /\ Excess(t, a) = 0

ExactInv == \A t \in Task : AtWork(t) => Even(t) /\ Kept(t) /\ Covered(t)

LEMMA IdleCovered == Kept(Idle)' /\ Covered(Idle)' /\ Kept(Idle) /\ Covered(Idle)
BY DEF Kept, Covered, Idle

LEMMA AvailableTyped ==
    ASSUME NEW balance \in Balance
    PROVE  Available(balance) \in Int
BY DEF Balance, Available, Entitlement

\* Reserving days takes them from the available ones.
LEMMA ReservedAvailable ==
    ASSUME NEW balance \in Balance, NEW row \in LeaveRequest
    PROVE  Available(Reserved(balance, row)) = Available(balance) - row.requestedDays
BY DEF Balance, Available, Entitlement, Reserved, LeaveRequest

LEMMA ArrivesCovered ==
    ASSUME TypeOK, NEW h \in Handlers, Arrives(h), calm', NEW n, n = task'[h]
    PROVE  Kept(n)' /\ Covered(n)'
<1>1. UNCHANGED tables /\ Arrival(n, TRUE)
  BY DEF Arrives, Arrival, SetsBalance, SetsType
<1>2. Requires(n.row)' <=> Requires(n.row)
  BY <1>1 DEF tables, Requires
<1>3. /\ n.at \notin {"set_save", "create_save_balance"}
      /\ n.at = "create_save" => ~Requires(n.row)
  BY <1>1 DEF Arrival, AsksForLeave, StartsReview, SetsBalance, SetsType
<1> QED BY <1>2, <1>3 DEF Kept, Covered

LEMMA CreateReadCovered ==
    ASSUME TypeOK, NEW h \in Handlers, NEW n, n = task'[h], CreateReadBalance(h)
    PROVE  Kept(n)' /\ Covered(n)'
<1> PICK t : t = task[h]
  OBVIOUS
<1> PICK balance : balance = balances[AccountOf(t.row)]
  OBVIOUS
<1> DEFINE m == [at |-> "create_save_balance", row |-> t.row,
                 balance |-> Reserved(balance, t.row)]
<1>1. /\ UNCHANGED tables /\ t \in Task /\ t.at = "create_balance"
      /\ \/ Finish(h)
         \/ balance # None /\ ~(Available(balance) < t.row.requestedDays) /\ Continue(h, m)
  BY DEF CreateReadBalance, TypeOK, At
<1>2. t.row.requestedDays \in Nat /\ AccountOf(t.row) \in Account
  BY <1>1, TaskFields, AccountTyped DEF LeaveRequest
<1>3. balance # None => Available(balance) \in Int
  BY <1>2, AvailableTyped DEF TypeOK
<1>4. CASE Finish(h)
  BY <1>4, Rests, IdleCovered
<1>5. CASE /\ balance # None /\ ~(Available(balance) < t.row.requestedDays)
           /\ Continue(h, m)
  <2>1. n = m
    BY <1>5, Moves
  <2>2. Available(balance) >= t.row.requestedDays
    BY <1>2, <1>3, <1>5
  <2>3. balances'[AccountOf(t.row)] = balance
    BY <1>1 DEF tables
  <2> QED BY <2>1, <2>2, <2>3 DEF Kept, Covered
<1> QED BY <1>1, <1>4, <1>5

LEMMA SetReadCovered ==
    ASSUME TypeOK, NEW h \in Handlers, NEW n, n = task'[h], SetReadBalance(h),
           task[h].dto.pending = None
    PROVE  Kept(n)' /\ Covered(n)'
<1> PICK t : t = task[h]
  OBVIOUS
<1> DEFINE found == balances[t.account]
           base == IF found = None THEN NewBalance ELSE found
           m == [at |-> "set_save", account |-> t.account,
                 balance |-> SetColumns(t.dto, base), fresh |-> found = None]
<1>1. UNCHANGED tables /\ Continue(h, m)
  BY DEF SetReadBalance
<1>2. n = m
  <2> HIDE DEF m
  <2> QED BY <1>1, Moves
<1>3. m.balance.pending = base.pending
  BY DEF SetColumns, OrElse
<1>4. base.pending = PendingOf(t.account)'
  BY <1>1 DEF PendingOf, NewBalance, tables
<1> QED BY <1>2, <1>3, <1>4 DEF Kept, Covered

LEMMA CreateSaveBalanceCovered ==
    ASSUME TypeOK, NEW h \in Handlers, NEW t, t = task[h], NEW n, n = task'[h],
           Current(t), Covered(t), CreateSaveBalance(h)
    PROVE  Kept(n)' /\ Covered(n)'
<1> PICK account : account = AccountOf(t.row)
  OBVIOUS
<1> PICK old : old = balances[account]
  OBVIOUS
<1>1. t \in Task /\ t.at = "create_save_balance"
  BY DEF TypeOK, CreateSaveBalance, At
<1>2. t.row \in LeaveRequest /\ t.row.requestedDays \in Nat
  BY <1>1, TaskFields DEF LeaveRequest
<1>3. account \in Account
  BY <1>2, AccountTyped
<1>4. /\ old \in Balance /\ t.balance = Reserved(old, t.row)
      /\ Available(old) >= t.row.requestedDays
  BY <1>1, <1>3 DEF Current, Covered, TypeOK
<1>5. t.balance \in Balance /\ t.balance # None /\ Available(t.balance) >= 0
  <2>1. Available(t.balance) = Available(old) - t.row.requestedDays
    BY <1>2, <1>4, ReservedAvailable
  <2>2. Available(old) \in Int
    BY <1>4, AvailableTyped
  <2> QED BY <1>2, <1>4, <2>1, <2>2, ReservedTyped, RowAssumption
<1>6. balances'[account] = t.balance
  BY <1>3 DEF CreateSaveBalance, TypeOK
<1>7. n = [at |-> "create_save", row |-> t.row]
  BY Moves DEF CreateSaveBalance
<1> QED BY <1>5, <1>6, <1>7 DEF Kept, Covered

LEMMA ProceedCovered ==
    ASSUME TypeOK, NEW h \in Handlers, NEW t, t = task[h], NEW n, n = task'[h],
           Current(t), Covered(t), t.at = "set_read" => t.dto.pending = None, Proceed(h)
    PROVE  Kept(n)' /\ Covered(n)'
<1>1. CASE Finish(h)
  BY <1>1, Rests, IdleCovered
<1>2. CASE CreateReadBalance(h)
  BY <1>2, CreateReadCovered
<1>3. CASE SetReadBalance(h)
  BY <1>3, SetReadCovered DEF SetReadBalance, At
<1>4. CASE CreateSaveBalance(h)
  BY <1>4, CreateSaveBalanceCovered
<1>5. CASE ReviewReadBalance(h) \/ ReviewSaveBalance(h)
  <2> SUFFICES ASSUME ~Finish(h) PROVE n.at \in {"review_save_balance", "review_save"}
    BY <1>1 DEF Kept, Covered
  <2>1. \E m : Continue(h, m) /\ m.at \in {"review_save_balance", "review_save"}
    BY <1>5 DEF ReviewReadBalance, ReviewSaveBalance
  <2> QED BY <2>1, Moves
<1> QED BY <1>1, <1>2, <1>3, <1>4, <1>5 DEF Proceed, CreateSave, ReviewSave, SetSave, TypeSave

\* The days a review releases are reserved: they are among the pending ones.
LEMMA ReleasesWhatIsPending ==
    ASSUME IInv, GroundInv, NEW h \in Handlers, NEW t, t = task[h], Current(t), Even(t),
           t.at = "review_save_balance"
    PROVE  t.row.requestedDays <= PendingOf(AccountOf(t.row))
<1> PICK r : r = t.request
  OBVIOUS
<1> PICK a : a = AccountOf(t.row)
  OBVIOUS
<1> PICK old : old = requests[r]
  OBVIOUS
<1>1. TypeOK /\ t \in Task
  BY DEF IInv, TypeOK
<1>2. t.row \in LeaveRequest /\ r \in RequestIds /\ a \in Account
  BY <1>1, TaskFields, AccountTyped
<1>3. old \in LeaveRequest /\ SameTerms(t.row, old) /\ old.status = "pending" /\ Requires(t.row)
  BY <1>1, <1>2 DEF IInv, TypeOK, ReviewsHoldTheirRequest, Reviewing, Current, Reviews
<1>4. /\ t.row.leaveType = old.leaveType /\ AccountOf(old) = a
      /\ t.row.requestedDays = old.requestedDays /\ old.requestedDays \in Nat
  BY <1>2, <1>3 DEF SameTerms, LeaveRequest, AccountOf
<1> PICK S : S = Charged(a, "pending")
  OBVIOUS
<1>5. r \in S
  BY <1>2, <1>3, <1>4, RowAssumption DEF Charged, Requires, AccountOf
<1>6. PendingDays(a) = Total(requests, S \ {r}) + old.requestedDays
      /\ Total(requests, S \ {r}) \in Nat
  <2>1. IsFiniteSet(S) /\ \A q \in S : requests[q].requestedDays \in Nat
    BY <1>1, ChargedTyped DEF GroundInv
  <2>2. PendingDays(a) = Total(requests, S)
    BY DaysTotal DEF PendingDays
  <2>3. /\ Total(requests, S) = Total(requests, S \ {r}) + Part(requests, S, r)
        /\ Total(requests, S \ {r}) \in Nat
    BY <2>1, TotalSplits
  <2> QED BY <1>5, <2>2, <2>3 DEF Part
<1>7. Answered(t, a) = 0 /\ Asked(t, a) = 0 /\ Excess(t, a) = 0
  BY <1>2 DEF Answered, Asked, Even
<1>8. PendingOf(a) \in Nat
  BY <1>1, <1>2, AmountsTyped
<1> QED BY <1>4, <1>6, <1>7, <1>8 DEF Excess


\* An undisturbed step of h keeps the books even.
LEMMA EvenStep ==
    ASSUME IInv, TypeOK', GroundInv, GroundInv', CalmInv, Undisturbed, calm', failures' = 0,
           ExactInv, NEW h \in Handlers, Begin(h) \/ Proceed(h) \/ Fail(h),
           NEW t, t = task[h], NEW n, n = task'[h]
    PROVE  /\ Begin(h) \/ Proceed(h)
           /\ AtWork(t) /\ Others(h) /\ \A g \in Handlers : g # h => task[g] = Idle
           /\ Even(t) /\ Even(n)' /\ Kept(n)' /\ Covered(n)'
<1>1. TypeOK /\ Lone /\ calm /\ \A m \in Task : AtWork(m) => Current(m)
  BY DEF IInv, CalmInv, Undisturbed
<1>2. t \in Task /\ ~Fail(h)
  BY <1>1 DEF TypeOK, Fail, Undisturbed
<1>3. /\ AtWork(t) /\ Others(h) /\ \A g \in Handlers : g # h => task[g] = Idle
  BY <1>1, CalmStep
<1>4. Current(t) /\ Even(t) /\ Kept(t) /\ Covered(t)
  BY <1>1, <1>2, <1>3 DEF ExactInv
<1>5. Begin(h) => Arrives(h) /\ t = Idle
  BY <1>1, <1>2, Arrivals, IdleTask DEF Arrives, At
<1>6. Kept(n)' /\ Covered(n)'
  <2>1. t.at = "set_read" => t.dto.pending = None
    BY DEF Undisturbed, At
  <2>2. Begin(h) => Kept(n)' /\ Covered(n)'
    BY <1>1, <1>5, ArrivesCovered
  <2>3. Proceed(h) => Kept(n)' /\ Covered(n)'
    BY <1>1, <1>4, <2>1, ProceedCovered
  <2> QED BY <1>2, <2>2, <2>3
<1>7. KeepsUsed(t, n) /\ KeepsPending(t, n)
  <2> SUFFICES Orderly(h, t, n) /\ KeepsPending(t, n)
    BY DEF Orderly
  <2>1. CASE Begin(h)
    BY <1>1, <1>5, <2>1, ArrivesOrderly
  <2>2. CASE CreateReadBalance(h) \/ ReviewReadBalance(h) \/ SetReadBalance(h)
    BY <1>1, <1>4, <2>2, ReadOrderly
  <2>3. CASE CreateSaveBalance(h)
    BY <1>1, <1>4, <2>3, CreateSaveBalanceOrderly
  <2>4. CASE ReviewSaveBalance(h)
    <3>1. t.at = "review_save_balance"
      BY <2>4 DEF ReviewSaveBalance, At
    <3>2. t.row.requestedDays <= PendingOf(AccountOf(t.row))
      BY <1>4, <3>1, ReleasesWhatIsPending
    <3> QED BY <1>1, <1>4, <2>4, <3>2, ReviewSaveBalanceOrderly
  <2>5. CASE CreateSave(h)
    BY <1>1, <1>4, <2>5, CreateSaveOrderly
  <2>6. CASE ReviewSave(h)
    BY <1>1, <1>4, <2>6, ReviewSaveOrderly
  <2>7. CASE SetSave(h)
    <3>1. t.balance.pending = PendingOf(t.account)
      BY <1>4, <2>7 DEF Kept, SetSave, At
    <3> QED BY <1>1, <1>4, <2>7, <3>1, SetSaveOrderly
  <2>8. CASE TypeSave(h)
    BY <1>1, <1>4, <2>8, TypeSaveOrderly
  <2> QED BY <1>2, <2>1, <2>2, <2>3, <2>4, <2>5, <2>6, <2>7, <2>8 DEF Proceed
<1> QED BY <1>2, <1>3, <1>4, <1>6, <1>7 DEF Even, KeepsUsed, KeepsPending

LEMMA ExactInit == Init => ExactInv
<1> SUFFICES ASSUME Init PROVE ExactInv
  OBVIOUS
<1>1. Quiescent
  BY DEF Init, Quiescent, At, Idle
<1>2. ASSUME NEW a \in Account PROVE Surplus(Idle, a) = 0 /\ Excess(Idle, a) = 0
  <2>1. /\ UsedOf(a) = 0 /\ PendingOf(a) = 0
        /\ Granted(Idle, a) = 0 /\ Answered(Idle, a) = 0 /\ Asked(Idle, a) = 0
    BY DEF Init, UsedOf, PendingOf, Granted, Answered, Asked, Idle
  <2>2. Charged(a, "approved") = {} /\ Charged(a, "pending") = {}
    BY DEF Init, Charged
  <2>3. ApprovedDays(a) = 0 /\ PendingDays(a) = 0
    BY <2>2, DaysTotal, TotalEmpty DEF ApprovedDays, PendingDays
  <2> QED BY <2>1, <2>3 DEF Surplus, Excess
<1> QED BY <1>1, <1>2, IdleCovered DEF ExactInv, AtWork, Even

LEMMA ExactNext ==
    ASSUME IInv, TypeOK', GroundInv, GroundInv', CalmInv, Undisturbed, Undisturbed', ExactInv,
           [Next]_vars
    PROVE  ExactInv'
<1>1. calm' /\ failures' = 0
  BY DEF Undisturbed
<1>2. ASSUME NEW h \in Handlers, Begin(h) \/ Proceed(h) \/ Fail(h) PROVE ExactInv'
  <2> PICK t : t = task[h]
    OBVIOUS
  <2> PICK n : n = task'[h]
    OBVIOUS
  <2>1. /\ Others(h) /\ \A g \in Handlers : g # h => task[g] = Idle
        /\ Even(n)' /\ Kept(n)' /\ Covered(n)'
    BY <1>1, <1>2, EvenStep
  <2>2. \A m \in Task : AtWork(m)' => m = n
    BY <2>1, Handover
  <2> QED BY <2>1, <2>2, Zenon DEF ExactInv
<1>3. ASSUME NEW u \in LeaveTypes, NEW flag \in BOOLEAN, CreateLeaveType(u, flag)
      PROVE  ExactInv'
  <2>1. \A m \in Task : AtWork(m)' => AtWork(m)
    BY <1>3 DEF CreateLeaveType, AtWork, Quiescent, At
  <2>2. ASSUME NEW m \in Task, AtWork(m), Even(m), Kept(m), Covered(m)
        PROVE  Even(m)' /\ Kept(m)' /\ Covered(m)'
    <3>1. Grounded(m)
      BY <2>2 DEF GroundInv, AtWork, Grounded, Idle, Creating, Reviews
    <3>2. KeepsUsed(m, m) /\ KeepsPending(m, m)
      BY <1>3, <3>1, NewTypeOrderly DEF IInv
    <3>3. UNCHANGED balances
      BY <1>3 DEF CreateLeaveType
    <3>4. m.at = "create_save" => Requires(m.row)' = Requires(m.row)
      <4>1. m.at = "create_save" => m.row.leaveType \in LeaveTypes /\ types[m.row.leaveType] # None
        BY <3>1, TaskFields DEF Grounded, Creating, LeaveRequest
      <4> QED BY <1>3, <4>1 DEF CreateLeaveType, Requires, IInv, TypeOK
    <3> QED BY <2>2, <3>2, <3>3, <3>4 DEF Even, KeepsUsed, KeepsPending, Kept, Covered, PendingOf
  <2> QED BY <2>1, <2>2 DEF ExactInv
<1>4. CASE UNCHANGED vars
  <2>1. \A m \in Task : AtWork(m)' => AtWork(m)
    BY <1>4 DEF vars, AtWork, Quiescent, At
  <2>2. UNCHANGED tables
    BY <1>4 DEF vars, tables
  <2>3. ASSUME NEW m \in Task, Even(m), Kept(m), Covered(m)
        PROVE  Even(m)' /\ Kept(m)' /\ Covered(m)'
    <3>1. ASSUME NEW a \in Account
          PROVE  Surplus(m, a)' = Surplus(m, a) /\ Excess(m, a)' = Excess(m, a)
      <4>1. /\ UsedOf(a)' = UsedOf(a) /\ PendingOf(a)' = PendingOf(a)
            /\ ApprovedDays(a)' = ApprovedDays(a) /\ PendingDays(a)' = PendingDays(a)
            /\ Granted(m, a)' = Granted(m, a) /\ Answered(m, a)' = Answered(m, a)
            /\ Asked(m, a)' = Asked(m, a)
        BY <2>2, ChargedStays DEF tables, UsedOf, PendingOf
      <4> QED BY <4>1 DEF Surplus, Excess
    <3>2. Kept(m)' /\ Covered(m)'
      BY <2>2, <2>3 DEF tables, Kept, Covered, PendingOf, Requires
    <3> QED BY <2>3, <3>1, <3>2 DEF Even
  <2> QED BY <2>1, <2>3 DEF ExactInv
<1> QED BY <1>2, <1>3, <1>4 DEF Next

LEMMA ExactBooks ==
    ASSUME TypeOK, GroundInv, ExactInv
    PROVE  Reconciled
<1> SUFFICES ASSUME Quiescent, NEW a \in Account, balances[a] # None
             PROVE  balances[a].used = ApprovedDays(a) /\ balances[a].pending = PendingDays(a)
  BY DEF Reconciled, ApprovedDays, PendingDays
<1> PICK t : t = Idle
  OBVIOUS
<1>1. Surplus(t, a) = 0 /\ Excess(t, a) = 0
  BY DEF ExactInv, AtWork, Even, Task
<1>2. Granted(t, a) = 0 /\ Answered(t, a) = 0 /\ Asked(t, a) = 0
  BY DEF Granted, Answered, Asked, Idle
<1>3. /\ UsedOf(a) \in Nat /\ PendingOf(a) \in Nat
      /\ ApprovedDays(a) \in Nat /\ PendingDays(a) \in Nat
  BY AmountsTyped DEF Task
<1>4. /\ UsedOf(a) - ApprovedDays(a) - 0 = 0
      /\ PendingOf(a) + 0 - PendingDays(a) - 0 = 0
  BY <1>1, <1>2 DEF Surplus, Excess
<1>5. UsedOf(a) = ApprovedDays(a) /\ PendingOf(a) = PendingDays(a)
  <2>1. \A x, y \in Nat : (x - y - 0 = 0 => x = y) /\ (x + 0 - y - 0 = 0 => x = y)
    OBVIOUS
  <2> QED BY <1>3, <1>4, <2>1
<1> QED BY <1>5 DEF UsedOf, PendingOf

LEMMA ExactInvariance == Spec /\ []Undisturbed => []ExactInv
<1>1. Init => ExactInv
  BY ExactInit
<1>2. /\ IInv /\ GroundInv /\ CalmInv /\ ExactInv /\ Undisturbed /\ [Next]_vars
      /\ IInv' /\ GroundInv' /\ Undisturbed'
      => ExactInv'
  BY ExactNext DEF IInv
<1> QED BY <1>1, <1>2, BooksInvariance, PTL DEF Spec

\* LeaveService: as long as requests come one after the other, none is cut short, no leave
\* type changes its requirement and nobody corrects the used or pending column by hand, the
\* two columns of every balance are exactly the days of the approved and of the pending
\* requests.  The condition is one on the behaviour: the code enforces none of it.
THEOREM BooksAgree == Spec /\ []Undisturbed => []Reconciled
<1>1. IInv /\ GroundInv /\ ExactInv => Reconciled
  BY ExactBooks DEF IInv
<1> QED BY <1>1, BooksInvariance, ExactInvariance, PTL

\* Where one handler serves all requests, does not die, and nobody may correct a column or
\* change a requirement, every behaviour is undisturbed.
SerialService ==
    /\ \A g \in Handlers, h \in Handlers : g = h
    /\ MaxFailures = 0
    /\ Corrections = {}
    /\ RequirementEdits = {}

LEMMA SerialUndisturbed == SerialService => (Spec => []Undisturbed)
<1> SUFFICES ASSUME SerialService PROVE Spec => []Undisturbed
  OBVIOUS
<1>1. Init => calm
  BY DEF Init
<1>2. TypeOK /\ calm /\ [Next]_vars => calm'
  <2> SUFFICES ASSUME TypeOK, calm, [Next]_vars PROVE calm'
    OBVIOUS
  <2>1. ASSUME NEW h \in Handlers, At(h, "idle") PROVE Quiescent
    BY <2>1 DEF SerialService, Quiescent, At
  <2>2. ASSUME NEW h \in Handlers, Begin(h) PROVE calm'
    <3>1. \A dto \in BalanceDto : dto.used = None
      BY DEF BalanceDto, SerialService
    <3>2. \A flag \in RequirementEdits \cup {None} : flag = None
      BY DEF SerialService
    <3> QED BY <2>1, <2>2, <3>1, <3>2
            DEF Begin, CreateRequest, ReviewLeaveRequest, SetLeaveBalance, UpdateLeaveType
  <2>3. ASSUME NEW h \in Handlers, Proceed(h) \/ Fail(h) PROVE calm'
    BY <2>3, Zenon DEF Proceed, Fail, CreateReadBalance, CreateSaveBalance, CreateSave,
                ReviewReadBalance, ReviewSaveBalance, ReviewSave, SetReadBalance, SetSave,
                TypeSave
  <2>4. ASSUME NEW u \in LeaveTypes, NEW flag \in BOOLEAN, CreateLeaveType(u, flag) PROVE calm'
    BY <2>4, Zenon DEF CreateLeaveType
  <2>5. CASE UNCHANGED vars
    BY <2>5, Zenon DEF vars
  <2> QED BY <2>2, <2>3, <2>4, <2>5 DEF Next
<1>3. TypeOK /\ calm => Undisturbed
  <2> SUFFICES ASSUME TypeOK, calm PROVE Undisturbed
    OBVIOUS
  <2>1. failures = 0
    BY DEF TypeOK, SerialService
  <2>2. ASSUME NEW h \in Handlers, At(h, "set_read") PROVE task[h].dto.pending = None
    <3>1. task[h].dto \in BalanceDto
      BY <2>2, TaskFields DEF TypeOK, At
    <3> QED BY <3>1 DEF BalanceDto, SerialService
  <2> QED BY <2>1, <2>2 DEF Undisturbed
<1> QED BY <1>1, <1>2, <1>3, TypeCorrect, PTL DEF Spec

\* LeaveService: so it is in every behaviour of a service that takes one request at a time,
\* with any number of employees, leave types, requests and days.
THEOREM SerialBooksAgree == SerialService => (Spec => []Reconciled)
BY SerialUndisturbed, BooksAgree, PTL


-----------------------------------------------------------------------------
(***************************************************************************)
(* LedgerSpec.  Undisturbed requests never grant or promise more days than *)
(* the entitlement, decide once, and change nothing else: with or without  *)
(* the columns, leave is the ledger of LeaveLedger.                        *)
(***************************************************************************)
\* What the ledger sees of the tables.
Allotted ==
    [a \in Account |-> IF balances[a] = None THEN None ELSE Entitlement(balances[a])]

Limited == {a \in Account : types[a[2]] # None /\ types[a[2]].requiresBalance}

Entries ==
    [r \in RequestIds |->
        IF requests[r] = None THEN None
        ELSE [account |-> AccountOf(requests[r]),
              days    |-> requests[r].requestedDays,
              status  |-> requests[r].status]]

EntryDays(q, S) == MapThenSumSet(LAMBDA r : q[r].days, S)

Open(a) ==
    {r \in RequestIds : /\ Entries[r] # None
                        /\ Entries[r].account = a
                        /\ Entries[r].status # "rejected"}

LEMMA LedgerInit ==
    /\ Allotted = [a \in Account |-> None]
    /\ Limited = {}
    /\ Entries = [r \in RequestIds |-> None]
    => Ledger!Init
BY Zenon DEF Ledger!Init, Entries, Limited, Allotted

LEMMA LedgerAllocate ==
    ASSUME NEW a,
           /\ Allotted'[a] \in Nat
           /\ Allotted' = [Allotted EXCEPT ![a] = Allotted'[a]]
           /\ UNCHANGED <<Limited, Entries>>
    PROVE  Ledger!Allocate(a)
BY Zenon DEF Ledger!Allocate, Entries, Limited, Allotted

LEMMA LedgerOpenType ==
    ASSUME /\ Limited \subseteq Limited'
           /\ \A r \in RequestIds :
                  Entries[r] # None => Entries[r].account \notin Limited' \ Limited
           /\ UNCHANGED <<Allotted, Entries>>
    PROVE  Ledger!OpenType
BY Zenon DEF Ledger!OpenType, Entries, Limited, Allotted

LEMMA LedgerAsk ==
    ASSUME NEW r, NEW new,
           /\ Entries'[r] = new
           /\ Entries[r] = None
           /\ new # None
           /\ new.status = "pending"
           /\ new.days > 0
           /\ new.account \in Limited =>
                  /\ Allotted[new.account] # None
                  /\ Ledger!Booked(new.account) + new.days <= Allotted[new.account]
           /\ Entries' = [Entries EXCEPT ![r] = new]
           /\ UNCHANGED <<Allotted, Limited>>
    PROVE  Ledger!Ask(r)
BY Zenon DEF Ledger!Ask, Entries, Limited, Allotted

LEMMA LedgerDecide ==
    ASSUME NEW r,
           /\ Entries[r] # None
           /\ Entries[r].status = "pending"
           /\ \E decision \in {"approved", "rejected"} :
                  Entries' = [Entries EXCEPT ![r].status = decision]
           /\ UNCHANGED <<Allotted, Limited>>
    PROVE  Ledger!Decide(r)
BY Zenon DEF Ledger!Decide, Entries, Limited, Allotted

LEMMA LedgerUnchanged == UNCHANGED <<Allotted, Limited, Entries>> => UNCHANGED Ledger!vars
BY Zenon DEF Ledger!vars, Entries, Limited, Allotted

LEMMA LedgerBooked == \A a : Ledger!Booked(a) = EntryDays(Entries, Open(a))
BY DEF Ledger!Booked, EntryDays, Open, Entries, MapThenSumSet, Ledger!MapThenSumSet,
       MapThenFoldSet, Ledger!MapThenFoldSet

LEMMA EntryDaysIsSum ==
    ASSUME NEW q, NEW S, IsFiniteSet(S)
    PROVE  EntryDays(q, S) = Sum([r \in S |-> q[r].days], S)
<1> DEFINE F == [r \in S |-> q[r].days]
           Iterates(g) == g = [s \in SUBSET S |->
                                  IF s = {} THEN 0 ELSE q[Pick(s)].days + g[s \ {Pick(s)}]]
<1>1. \A g : Iterates(g) <=> Summing(F, g, S)
  <2> SUFFICES ASSUME NEW g PROVE Iterates(g) <=> Summing(F, g, S)
    OBVIOUS
  <2>1. \A s \in SUBSET S : s # {} => q[Pick(s)].days = F[Pick(s)]
    BY PickFrom
  <2> HIDE DEF F
  <2>2. [s \in SUBSET S |-> IF s = {} THEN 0 ELSE q[Pick(s)].days + g[s \ {Pick(s)}]]
          = [s \in SUBSET S |-> IF s = {} THEN 0 ELSE F[Pick(s)] + g[s \ {Pick(s)}]]
    BY <2>1
  <2> QED BY <2>2 DEF Summing
<1>2. EntryDays(q, S) = (CHOOSE g : Iterates(g))[S]
  BY DEF EntryDays, MapThenSumSet, MapThenFoldSet, Pick
<1>3. Iterates(CHOOSE g : Iterates(g))
  <2>1. \E g : Iterates(g)
    <3> HIDE DEF Iterates, F
    <3> QED BY <1>1, SummingExists
  <2> HIDE DEF Iterates
  <2> QED BY <2>1, Zenon
<1> DEFINE f == CHOOSE g : Iterates(g)
<1> HIDE DEF f, Iterates, F
<1>4. Summing(F, f, S)
  BY <1>1, <1>3 DEF f
<1> QED BY <1>2, <1>4, SumIs DEF f, F

\* The sum over two sets that have nothing in common.
LEMMA SumJoins ==
    ASSUME NEW F, NEW A, NEW B, IsFiniteSet(A), IsFiniteSet(B), A \cap B = {},
           \A x \in A \cup B : F[x] \in Nat
    PROVE  Sum(F, A \cup B) = Sum(F, A) + Sum(F, B)
<1> DEFINE T == {C \in SUBSET B : Sum(F, A \cup C) # Sum(F, A) + Sum(F, C)}
<1> SUFFICES ASSUME T # {} PROVE FALSE
  OBVIOUS
<1>1. PICK C \in T : \A D \in T : D \subseteq C => D = C
  <2> HIDE DEF T
  <2> T \subseteq SUBSET B
    BY DEF T
  <2> QED BY SmallestSet
<1>2. C \in SUBSET B /\ Sum(F, A \cup C) # Sum(F, A) + Sum(F, C)
  OBVIOUS
<1>3. Sum(F, A) \in Nat
  BY SumTyped
<1>4. C # {}
  <2>1. Sum(F, {}) = 0
    BY FS_EmptySet, SumUnfolds
  <2> HIDE DEF T
  <2>2. A \cup {} = A
    OBVIOUS
  <2> QED BY <1>2, <1>3, <2>1, <2>2
<1>5. PICK y : y \in C
  BY <1>4
<1> DEFINE D == C \ {y}
<1>6. D \in SUBSET B /\ D # C /\ D \subseteq C /\ y \notin D /\ y \notin A \cup D
  BY <1>2, <1>5
<1>7. D \cup {y} = C /\ (A \cup D) \cup {y} = A \cup C
  BY <1>5
<1>8. IsFiniteSet(D) /\ IsFiniteSet(A \cup D)
  BY <1>6, FS_Subset, FS_Union
<1>9. Sum(F, A \cup D) = Sum(F, A) + Sum(F, D)
  BY <1>1, <1>6
<1>10. /\ \A x \in D \cup {y} : F[x] \in Nat
       /\ \A x \in (A \cup D) \cup {y} : F[x] \in Nat
       /\ F[y] \in Nat
  BY <1>2, <1>5
<1> HIDE DEF D, T
<1>11. Sum(F, D \cup {y}) = Sum(F, D) + F[y] /\ Sum(F, D) \in Nat
  BY <1>6, <1>8, <1>10, SumAdds, SumTyped
<1>12. Sum(F, (A \cup D) \cup {y}) = Sum(F, A \cup D) + F[y]
  BY <1>6, <1>8, <1>10, SumAdds
<1>13. Sum(F, C) = Sum(F, D) + F[y] /\ Sum(F, A \cup C) = Sum(F, A \cup D) + F[y]
  BY <1>7, <1>11, <1>12
<1> QED BY <1>2, <1>3, <1>9, <1>10, <1>11, <1>13

\* The entry of a stored request.
Entry(row) ==
    [account |-> AccountOf(row), days |-> row.requestedDays, status |-> row.status]

LEMMA EntryTyped ==
    ASSUME NEW row \in LeaveRequest
    PROVE  Entry(row) # None
<1>1. AccountOf(row) \in Account
  BY AccountTyped
<1>2. Entry(row) \in [account : Account, days : Nat \ {0},
                      status : {"pending", "approved", "rejected"}]
  BY <1>1 DEF Entry, LeaveRequest
<1> QED BY <1>2, EntryAssumption

LEMMA EntriesAre ==
    ASSUME TypeOK, NEW r \in RequestIds
    PROVE  /\ requests[r] = None => Entries[r] = None
           /\ requests[r] # None => /\ requests[r] \in LeaveRequest
                                    /\ Entries[r] = Entry(requests[r])
                                    /\ Entries[r] # None
                                    /\ Entries[r].account = AccountOf(requests[r])
                                    /\ Entries[r].days = requests[r].requestedDays
                                    /\ Entries[r].status = requests[r].status
<1>1. requests[r] # None => requests[r] \in LeaveRequest /\ Entries[r] = Entry(requests[r])
  BY DEF Entries, Entry, TypeOK
<1>2. requests[r] # None => Entries[r] # None
  BY <1>1, EntryTyped
<1>3. requests[r] = None => Entries[r] = None
  BY DEF Entries
<1> QED BY <1>1, <1>2, <1>3 DEF Entry

\* What is asked for or granted on an account is what its two columns account for.
LEMMA BookedIs ==
    ASSUME TypeOK, GroundInv, NEW a \in Limited
    PROVE  Ledger!Booked(a) = ApprovedDays(a) + PendingDays(a)
<1> PICK A : A = Charged(a, "approved")
  OBVIOUS
<1> PICK B : B = Charged(a, "pending")
  OBVIOUS
<1> PICK S : S = Open(a)
  OBVIOUS
<1>1. S = A \cup B /\ A \cap B = {}
  <2>1. ASSUME NEW r \in RequestIds PROVE r \in S <=> r \in A \cup B
    BY EntriesAre DEF Open, Charged, Limited, LeaveRequest
  <2>2. S \subseteq RequestIds /\ A \subseteq RequestIds /\ B \subseteq RequestIds
    BY DEF Open, Charged
  <2>3. A \cap B = {}
    BY DEF Charged
  <2> QED BY <2>1, <2>2, <2>3
<1>2. /\ IsFiniteSet(A) /\ \A r \in A : requests[r].requestedDays \in Nat
      /\ IsFiniteSet(B) /\ \A r \in B : requests[r].requestedDays \in Nat
  BY ChargedTyped DEF GroundInv
<1>3. IsFiniteSet(S)
  <2>1. IsFiniteSet(A \cup B)
    BY <1>2, FS_Union
  <2> QED BY <1>1, <2>1
<1>4. \A r \in S : Entries[r].days = requests[r].requestedDays
  BY EntriesAre DEF Open
<1> DEFINE F == [r \in S |-> Entries[r].days]
<1>5. Ledger!Booked(a) = Sum(F, S)
  <2>1. EntryDays(Entries, S) = Sum(F, S)
    BY <1>3, EntryDaysIsSum
  <2> HIDE DEF F
  <2> QED BY <2>1, LedgerBooked
<1>6. ASSUME NEW C, C \subseteq S, IsFiniteSet(C)
      PROVE  Sum(F, C) = Total(requests, C)
  <2> DEFINE G == [r \in C |-> requests[r].requestedDays]
  <2>1. \A r \in C : F[r] = G[r]
    BY <1>4, <1>6
  <2>2. Total(requests, C) = Sum(G, C)
    BY <1>6, TotalIsSum
  <2> HIDE DEF F, G
  <2> QED BY <1>6, <2>1, <2>2, SumSame
<1>7. \A r \in A \cup B : F[r] \in Nat
  BY <1>1, <1>2, <1>4
<1> HIDE DEF F
<1>8. Sum(F, A \cup B) = Sum(F, A) + Sum(F, B)
  BY <1>1, <1>2, <1>7, SumJoins
<1>9. Sum(F, A) = Total(requests, A) /\ Sum(F, B) = Total(requests, B)
  BY <1>1, <1>2, <1>6
<1>10. ApprovedDays(a) = Total(requests, A) /\ PendingDays(a) = Total(requests, B)
  BY DaysTotal DEF ApprovedDays, PendingDays
<1> QED BY <1>1, <1>5, <1>8, <1>9, <1>10


LEMMA LedgerStarts == Init => Ledger!Init
<1> SUFFICES ASSUME Init
             PROVE  /\ Allotted = [a \in Account |-> None]
                    /\ Limited = {}
                    /\ Entries = [r \in RequestIds |-> None]
  BY LedgerInit
<1>1. Allotted = [a \in Account |-> None] /\ Entries = [r \in RequestIds |-> None]
  BY DEF Init, Allotted, Entries
<1>2. Limited = {}
  BY DEF Init, Limited, Account
<1> QED BY <1>1, <1>2

LEMMA LedgerStutters == UNCHANGED tables => UNCHANGED Ledger!vars
<1> SUFFICES ASSUME UNCHANGED tables PROVE UNCHANGED <<Allotted, Limited, Entries>>
  BY LedgerUnchanged
<1> QED BY DEF tables, Allotted, Limited, Entries

\* Reserving and releasing days leaves the entitlement alone.
LEMMA LedgerBookkeeping ==
    ASSUME TypeOK, NEW h \in Handlers, NEW t, t = task[h], Current(t),
           CreateSaveBalance(h) \/ ReviewSaveBalance(h)
    PROVE  UNCHANGED Ledger!vars
<1> PICK account : account = AccountOf(t.row)
  OBVIOUS
<1> PICK old : old = balances[account]
  OBVIOUS
<1>1. t \in Task /\ t.at \in {"create_save_balance", "review_save_balance"}
  BY DEF TypeOK, CreateSaveBalance, ReviewSaveBalance, At
<1>2. t.row \in LeaveRequest /\ t.balance \in Balance /\ account \in Account
  BY <1>1, TaskFields, AccountTyped
<1>3. old \in Balance /\ (t.balance = Reserved(old, t.row) \/ t.balance = Released(old, t.row))
  BY <1>1, <1>2 DEF Current, TypeOK
<1>4. Entitlement(t.balance) = Entitlement(old)
  BY <1>3 DEF Reserved, Released, Entitlement, Balance
<1>5. /\ UNCHANGED <<types, requests>>
      /\ balances' = [balances EXCEPT ![account] = t.balance]
  BY DEF CreateSaveBalance, ReviewSaveBalance
<1>6. t.balance # None /\ old # None
  BY <1>2, <1>3, RowAssumption
<1>7. UNCHANGED Allotted
  <2>1. ASSUME NEW a \in Account PROVE Allotted'[a] = Allotted[a]
    BY <1>2, <1>4, <1>5, <1>6 DEF Allotted, TypeOK
  <2> QED BY <2>1 DEF Allotted
<1>8. UNCHANGED <<Limited, Entries>>
  BY <1>5 DEF Limited, Entries
<1> QED BY <1>7, <1>8, LedgerUnchanged

LEMMA LedgerSetSave ==
    ASSUME TypeOK, NEW h \in Handlers, SetSave(h)
    PROVE  \/ \E a \in Account : Ledger!Allocate(a)
           \/ UNCHANGED Ledger!vars
<1> PICK t : t = task[h]
  OBVIOUS
<1> PICK account : account = t.account
  OBVIOUS
<1>1. account \in Account /\ t.balance \in Balance /\ t.balance # None
  BY TaskFields, RowAssumption DEF TypeOK, SetSave, At
<1>2. UNCHANGED <<types, requests>>
  BY DEF SetSave
<1>3. CASE UNCHANGED balances
  BY <1>2, <1>3, LedgerStutters DEF tables
<1>4. CASE balances' = [balances EXCEPT ![account] = t.balance]
  <2>1. Allotted'[account] \in Nat
    <3>1. Entitlement(t.balance) \in Nat
      BY <1>1 DEF Entitlement, Balance
    <3> QED BY <1>1, <1>4, <3>1 DEF Allotted, TypeOK
  <2>2. Allotted' = [Allotted EXCEPT ![account] = Allotted'[account]]
    <3>1. ASSUME NEW a \in Account, a # account PROVE Allotted'[a] = Allotted[a]
      BY <1>1, <1>4, <3>1 DEF Allotted, TypeOK
    <3> QED BY <1>1, <3>1 DEF Allotted
  <2>3. UNCHANGED <<Limited, Entries>>
    BY <1>2 DEF Limited, Entries
  <2> QED BY <1>1, <2>1, <2>2, <2>3, LedgerAllocate
<1> QED BY <1>3, <1>4 DEF SetSave

\* The days of a request are added to what is booked only within the entitlement.
LEMMA LedgerCreateSave ==
    ASSUME TypeOK, GroundInv, NEW h \in Handlers, NEW t, t = task[h], Even(t), Covered(t),
           CreateSave(h)
    PROVE  \E r \in RequestIds : Ledger!Ask(r)
<1>1. PICK r \in RequestIds : requests[r] = None /\ requests' = [requests EXCEPT ![r] = t.row]
  BY DEF CreateSave
<1> PICK row : row = t.row
  OBVIOUS
<1>2. t \in Task /\ t.at = "create_save" /\ UNCHANGED <<types, balances>>
  BY DEF TypeOK, CreateSave, At
<1>3. /\ row \in LeaveRequest /\ row.status = "pending" /\ types[row.leaveType] # None
      /\ row.requestedDays \in Nat /\ row.requestedDays > 0
  <2>1. row \in LeaveRequest /\ row.status = "pending" /\ types[row.leaveType] # None
    BY <1>2, TaskFields DEF GroundInv, Grounded, Creating
  <2> QED BY <2>1 DEF LeaveRequest
<1> PICK a : a = AccountOf(row)
  OBVIOUS
<1> PICK new : new = Entry(row)
  OBVIOUS
<1>4. a \in Account /\ a[2] = row.leaveType
  BY <1>3, AccountTyped DEF AccountOf
<1>5. /\ Entries[r] = None /\ new # None
      /\ new.account = a /\ new.days = row.requestedDays /\ new.status = "pending"
  BY <1>1, <1>3, EntriesAre, EntryTyped DEF Entry
<1>6. Entries' = [Entries EXCEPT ![r] = new] /\ Entries'[r] = new
  <2>1. row # None
    BY <1>3, RowAssumption
  <2>2. ASSUME NEW q \in RequestIds
        PROVE  Entries'[q] = IF q = r THEN new ELSE Entries[q]
    BY <1>1, <2>1 DEF Entries, Entry, AccountOf, TypeOK
  <2> QED BY <2>2 DEF Entries
<1>7. UNCHANGED <<Allotted, Limited>>
  BY <1>2 DEF Allotted, Limited
<1>8. ASSUME a \in Limited
      PROVE  Allotted[a] # None /\ Ledger!Booked(a) + new.days <= Allotted[a]
  <2> PICK balance : balance = balances[a]
    OBVIOUS
  <2>1. Requires(row)
    BY <1>4, <1>8 DEF Limited, Requires
  <2>2. balance # None /\ Available(balance) >= 0
    BY <1>2, <2>1 DEF Covered
  <2>3. balance \in Balance
    BY <1>4, <2>2 DEF TypeOK
  <2>4. /\ Allotted[a] = Entitlement(balance) /\ Entitlement(balance) \in Nat
        /\ Available(balance) = Entitlement(balance) - balance.used - balance.pending
        /\ balance.used \in Nat /\ balance.pending \in Nat
    BY <1>4, <2>2, <2>3 DEF Allotted, Available, Entitlement, Balance
  <2>5. Entitlement(balance) # None
    BY <2>4, LeaveAssumption
  <2>6. balance.used = ApprovedDays(a) /\ balance.pending = PendingDays(a) + row.requestedDays
        /\ ApprovedDays(a) \in Nat /\ PendingDays(a) \in Nat
    <3>1. /\ Granted(t, a) = 0 /\ Answered(t, a) = 0 /\ Asked(t, a) = row.requestedDays
      BY <1>2, <2>1 DEF Granted, Answered, Asked, Concerns
    <3>2. UsedOf(a) = balance.used /\ PendingOf(a) = balance.pending
      BY <2>2 DEF UsedOf, PendingOf
    <3>3. Surplus(t, a) = 0 /\ Excess(t, a) = 0
      BY <1>4 DEF Even
    <3>4. /\ balance.used - ApprovedDays(a) - 0 = 0
          /\ balance.pending + 0 - PendingDays(a) - row.requestedDays = 0
      BY <3>1, <3>2, <3>3 DEF Surplus, Excess
    <3>5. ApprovedDays(a) \in Nat /\ PendingDays(a) \in Nat
      BY <1>2, <1>4, AmountsTyped
    <3>6. \A x, y, z \in Nat : /\ x - y - 0 = 0 => x = y
                               /\ x + 0 - y - z = 0 => x = y + z
      OBVIOUS
    <3> QED BY <1>3, <2>4, <3>4, <3>5, <3>6
  <2>7. Ledger!Booked(a) = ApprovedDays(a) + PendingDays(a)
    BY <1>8, BookedIs
  <2> QED BY <1>3, <1>5, <2>2, <2>4, <2>5, <2>6, <2>7
<1>9. Ledger!Ask(r)
  <2>1. new.days > 0
    BY <1>3, <1>5
  <2> QED BY <1>5, <1>6, <1>7, <1>8, <2>1, LedgerAsk
<1> QED BY <1>9

\* A pending request is decided, once.
LEMMA LedgerReviewSave ==
    ASSUME IInv, NEW h \in Handlers, NEW t, t = task[h], Current(t), ReviewSave(h)
    PROVE  \E r \in RequestIds : Ledger!Decide(r)
<1> PICK r : r = t.request
  OBVIOUS
<1> PICK row : row = t.row
  OBVIOUS
<1>1. /\ TypeOK /\ r \in RequestIds /\ row \in LeaveRequest /\ requests[r] \in LeaveRequest
      /\ SameTerms(row, requests[r]) /\ row.status # "pending"
      /\ requests[r].status = "pending"
      /\ requests' = [requests EXCEPT ![r] = row]
  <2>1. requests[r].status = "pending"
    BY DEF Current, Reviews, ReviewSave, At
  <2> QED BY <2>1, ReviewEnds DEF IInv
<1>2. UNCHANGED <<types, balances>>
  BY DEF ReviewSave
<1>3. /\ row.status \in {"approved", "rejected"} /\ AccountOf(row) = AccountOf(requests[r])
      /\ row.requestedDays = requests[r].requestedDays
  BY <1>1 DEF SameTerms, LeaveRequest, AccountOf
<1>4. requests[r] # None /\ row # None
  BY <1>1, RowAssumption
<1>5. /\ Entries[r] # None /\ Entries[r].status = "pending"
      /\ Entries[r] = Entry(requests[r])
  BY <1>1, <1>4, EntriesAre
<1>6. Entries' = [Entries EXCEPT ![r].status = row.status]
  <2>1. Entry(row) = [Entry(requests[r]) EXCEPT !.status = row.status]
    BY <1>3 DEF Entry
  <2>2. ASSUME NEW q \in RequestIds
        PROVE  Entries'[q] = IF q = r THEN Entry(row) ELSE Entries[q]
    BY <1>1, <1>4 DEF Entries, Entry, AccountOf, TypeOK
  <2>3. PICK old : old = Entries
    OBVIOUS
  <2>4. PICK new : new = Entries'
    OBVIOUS
  <2>5. old = [q \in RequestIds |-> old[q]] /\ new = [q \in RequestIds |-> new[q]]
    BY <2>3, <2>4 DEF Entries
  <2>6. \A q \in RequestIds : new[q] = IF q = r THEN [old[r] EXCEPT !.status = row.status]
                                                 ELSE old[q]
    BY <1>5, <2>1, <2>2, <2>3, <2>4
  <2>7. new = [old EXCEPT ![r].status = row.status]
    BY <1>1, <2>5, <2>6
  <2> QED BY <2>3, <2>4, <2>7
<1>7. UNCHANGED <<Allotted, Limited>>
  BY <1>2 DEF Allotted, Limited
<1>8. Ledger!Decide(r)
  BY <1>3, <1>5, <1>6, <1>7, LedgerDecide
<1> QED BY <1>1, <1>8

LEMMA LedgerNewType ==
    ASSUME TypeOK, GroundInv, NEW u \in LeaveTypes, NEW flag \in BOOLEAN,
           CreateLeaveType(u, flag)
    PROVE  Ledger!OpenType
<1>1. /\ types[u] = None /\ UNCHANGED <<balances, requests>>
      /\ \A v \in LeaveTypes : v # u => types'[v] = types[v]
  BY DEF CreateLeaveType, TypeOK
<1>2. \A a \in Account : a[2] \in LeaveTypes
  BY DEF Account
<1>3. UNCHANGED <<Allotted, Entries>>
  BY <1>1 DEF Allotted, Entries
<1>4. Limited \subseteq Limited'
  BY <1>1, <1>2 DEF Limited
<1>5. ASSUME NEW r \in RequestIds, Entries[r] # None
      PROVE  Entries[r].account \notin Limited' \ Limited
  <2>1. /\ requests[r] # None /\ requests[r] \in LeaveRequest
        /\ Entries[r].account = AccountOf(requests[r])
    BY <1>5, EntriesAre
  <2>2. /\ Entries[r].account[2] = requests[r].leaveType
        /\ types[requests[r].leaveType] # None /\ requests[r].leaveType \in LeaveTypes
    BY <2>1 DEF AccountOf, GroundInv, LeaveRequest
  <2>3. types'[requests[r].leaveType] = types[requests[r].leaveType]
    BY <1>1, <2>2
  <2> QED BY <2>2, <2>3 DEF Limited
<1> QED BY <1>3, <1>4, <1>5, LedgerOpenType


LEMMA LedgerStep ==
    ASSUME IInv, TypeOK', GroundInv, GroundInv', CalmInv, Undisturbed, Undisturbed', ExactInv,
           [Next]_vars
    PROVE  [Ledger!Next]_(Ledger!vars)
<1> USE DEF Ledger!Next
<1>1. TypeOK /\ calm' /\ failures' = 0
  BY DEF IInv, Undisturbed
<1>2. ASSUME NEW h \in Handlers, Begin(h) \/ Proceed(h) \/ Fail(h)
      PROVE  [Ledger!Next]_(Ledger!vars)
  <2> PICK t : t = task[h]
    OBVIOUS
  <2>1. (Begin(h) \/ Proceed(h)) /\ AtWork(t)
    BY <1>1, <1>2, EvenStep
  <2>2. t \in Task
    BY <1>1 DEF TypeOK
  <2>3. Current(t) /\ Even(t) /\ Covered(t)
    BY <2>1, <2>2 DEF CalmInv, ExactInv, Undisturbed
  <2>4. CASE Begin(h)
    BY <1>1, <2>4, Arrivals, LedgerStutters DEF Arrives
  <2>5. CASE CreateReadBalance(h) \/ ReviewReadBalance(h) \/ SetReadBalance(h)
    BY <2>5, LedgerStutters DEF CreateReadBalance, ReviewReadBalance, SetReadBalance
  <2>6. CASE CreateSaveBalance(h) \/ ReviewSaveBalance(h)
    BY <1>1, <2>3, <2>6, LedgerBookkeeping
  <2>7. CASE CreateSave(h)
    BY <1>1, <2>3, <2>7, LedgerCreateSave
  <2>8. CASE ReviewSave(h)
    BY <2>3, <2>8, LedgerReviewSave
  <2>9. CASE SetSave(h)
    BY <1>1, <2>9, LedgerSetSave
  <2>10. CASE TypeSave(h)
    BY <1>1, <2>3, <2>10, TypeSaveOrderly, LedgerStutters
  <2> QED BY <2>1, <2>4, <2>5, <2>6, <2>7, <2>8, <2>9, <2>10 DEF Proceed
<1>3. ASSUME NEW u \in LeaveTypes, NEW flag \in BOOLEAN, CreateLeaveType(u, flag)
      PROVE  [Ledger!Next]_(Ledger!vars)
  BY <1>1, <1>3, LedgerNewType
<1>4. CASE UNCHANGED vars
  BY <1>4, LedgerStutters DEF vars, tables
<1> QED BY <1>2, <1>3, <1>4 DEF Next

\* LeaveService: under the same condition leave is the ledger it promises, whatever is read of
\* or kept in the used and pending columns: days are asked for only within the entitlement of
\* a balance that exists, a pending request is decided once, and nothing else changes.
THEOREM LedgerKept == Spec /\ []Undisturbed => LedgerSpec
<1>1. Init => Ledger!Init
  BY LedgerStarts
<1>2. /\ IInv /\ GroundInv /\ CalmInv /\ ExactInv /\ Undisturbed /\ [Next]_vars
      /\ IInv' /\ GroundInv' /\ Undisturbed'
      => [Ledger!Next]_(Ledger!vars)
  BY LedgerStep DEF IInv
<1> QED BY <1>1, <1>2, BooksInvariance, ExactInvariance, PTL DEF Spec, LedgerSpec, Ledger!Spec

\* LeaveService: and so it is of a service that takes one request at a time.
THEOREM SerialLedgerKept == SerialService => (Spec => LedgerSpec)
BY SerialUndisturbed, LedgerKept, PTL

=============================================================================

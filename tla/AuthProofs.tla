----------------------------- MODULE AuthProofs -----------------------------
(***************************************************************************)
(* What holds of accounts and sessions for any number of users, devices,   *)
(* sessions and handlers, with handlers that overlap in any way and die    *)
(* anywhere; what holds of requests that take turns; and by how much the   *)
(* limits can be exceeded.                                                 *)
(***************************************************************************)
EXTENDS Auth, FiniteSetTheorems, TLAPS

-----------------------------------------------------------------------------
(***************************************************************************)
(* The inductive invariant: what is said of a row is said of every copy of *)
(* it that a handler may still save                                        *)
(***************************************************************************)
Registered(u) == users[u] # None

\* A row of a session, or a copy of one in a handler.
SessionJustified(row) ==
    /\ Registered(row.user)
    /\ row.isActive <=> row.hashed

\* A row of user u, or a copy of one in a handler.
UserJustified(u, row) == PastLockOut(row) => u \in readmitted

RowsJustified ==
    /\ \A s \in SessionIds : sessions[s] # None => SessionJustified(sessions[s])
    /\ \A u \in Users : users[u] # None => UserJustified(u, users[u])
    /\ \A l \in LinkIds : links[l] # None => Registered(links[l].user)

\* The stops at which a handler holds a copy of a session, ...
HoldsSession == {"session_mismatch", "session_replace", "session_save", "validate_save"}

\* ... of a user, ...
HoldsUser == {"login_failed", "login_lock", "login_save", "change_count", "change_save"}

\* ... and at which its user is known to be registered.
HasUser == {"session_find", "session_count", "session_oldest", "change_find", "change_record",
            "change_revoke", "change_count", "change_save", "forgot_count", "forgot_save",
            "reset_revoke"}

TaskJustified(t) ==
    /\ t.at \in HasUser => Registered(t.user)
    /\ t.at \in HoldsSession => SessionJustified(t.row)
    /\ t.at \in HoldsUser => UserJustified(t.user, t.row)
    /\ t.at = "reset_save" => links[t.link] # None /\ ~PastLockOut(t.row)
    /\ t.at = "change_find" => t.sequel.op = "change"
    /\ t.at \in {"session_mismatch", "session_replace"} => ~t.row.isActive

IInv ==
    /\ TypeOK
    /\ RowsJustified
    /\ \A h \in Handlers : TaskJustified(task[h])

-----------------------------------------------------------------------------
(***************************************************************************)
(* Types                                                                   *)
(***************************************************************************)
\* What a handler holds at each of its stops.
LEMMA TaskFields ==
    ASSUME NEW t \in Task
    PROVE  /\ t.at \in {"login_limited", "login_unknown", "forgot_count", "forgot_save",
                        "reset_revoke", "login_find", "login_failed", "login_lock",
                        "access_save", "login_save", "session_find", "session_count",
                        "session_oldest", "refresh_find", "validate_find", "change_find",
                        "change_count", "change_save", "change_record", "change_revoke"} =>
                t.user \in Users
           /\ t.at \in {"login_find", "login_save", "session_find", "session_count",
                        "session_oldest", "session_mismatch", "session_replace",
                        "refresh_find"} =>
                t.device \in Devices
           /\ t.at \in {"login_find", "login_save", "session_find"} => t.bearer \in Bearer
           /\ t.at \in {"login_failed", "login_lock", "access_save", "login_save",
                        "change_count", "change_save", "reset_save"} => t.row \in User
           /\ t.at \in HoldsSession => t.row \in AuthSession
           /\ t.at \in {"session_mismatch", "session_replace", "refresh_find",
                        "validate_find", "validate_save", "change_find", "change_count",
                        "change_save", "change_record", "change_revoke"} =>
                t.session \in SessionIds
           /\ t.at = "session_save" => t.session \in SessionIds \cup {None}
           /\ t.at \in {"validate_find", "validate_save", "change_find"} => t.sequel \in Sequel
           /\ t.at = "login_find" => t.password \in Passwords
           /\ t.at = "reset_save" => t.link \in LinkIds
BY DEF Task, Idle, HoldsSession

\* The records that are tasks, by what they hold.
LEMMA TaskForms ==
    /\ Idle \in Task
    /\ \A at \in {"login_limited", "login_unknown", "forgot_count", "forgot_save",
                  "reset_revoke"}, u \in Users :
           [at |-> at, user |-> u] \in Task
    /\ \A u \in Users, password \in Passwords, device \in Devices, bearer \in Bearer :
           [at |-> "login_find", user |-> u, password |-> password, device |-> device,
            bearer |-> bearer] \in Task
    /\ \A at \in {"login_failed", "login_lock", "access_save"}, u \in Users, row \in User :
           [at |-> at, user |-> u, row |-> row] \in Task
    /\ \A u \in Users, row \in User, device \in Devices, bearer \in Bearer :
           [at |-> "login_save", user |-> u, device |-> device, bearer |-> bearer,
            row |-> row] \in Task
    /\ \A u \in Users, device \in Devices, bearer \in Bearer :
           [at |-> "session_find", user |-> u, device |-> device, bearer |-> bearer] \in Task
    /\ \A at \in {"session_count", "session_oldest"}, u \in Users, device \in Devices :
           [at |-> at, user |-> u, device |-> device] \in Task
    /\ \A at \in {"session_mismatch", "session_replace"}, device \in Devices,
          s \in SessionIds, row \in AuthSession :
           [at |-> at, session |-> s, row |-> row, device |-> device] \in Task
    /\ \A s \in SessionIds \cup {None}, row \in AuthSession :
           [at |-> "session_save", session |-> s, row |-> row] \in Task
    /\ \A u \in Users, s \in SessionIds, device \in Devices :
           [at |-> "refresh_find", user |-> u, session |-> s, device |-> device] \in Task
    /\ \A at \in {"validate_find", "change_find"}, u \in Users, s \in SessionIds,
          sequel \in Sequel :
           [at |-> at, user |-> u, session |-> s, sequel |-> sequel] \in Task
    /\ \A s \in SessionIds, row \in AuthSession, sequel \in Sequel :
           [at |-> "validate_save", session |-> s, sequel |-> sequel, row |-> row] \in Task
    /\ \A at \in {"change_count", "change_save"}, u \in Users, s \in SessionIds, row \in User :
           [at |-> at, user |-> u, session |-> s, row |-> row] \in Task
    /\ \A at \in {"change_record", "change_revoke"}, u \in Users, s \in SessionIds :
           [at |-> at, user |-> u, session |-> s] \in Task
    /\ \A l \in LinkIds, row \in User : [at |-> "reset_save", link |-> l, row |-> row] \in Task
BY DEF Task

\* What the handlers compute from a user is a user, and what it lets pass is accounted for.
LEMMA AccessTyped ==
    ASSUME NEW user \in User, NEW dto \in AccessDtos
    PROVE  WithAccess(user, dto) \in User
<1> DEFINE role == IF dto.role = None THEN user.role ELSE dto.role
<1>1. dto \in UpdateUserAccessDto
  BY RowAssumption
<1>2. role \in Roles
  BY <1>1 DEF UpdateUserAccessDto, User
<1>3. ResolvedPermissions(dto, role) \in SUBSET Permissions
  BY <1>1, <1>2, RowAssumption DEF UpdateUserAccessDto, ResolvedPermissions, Given
<1>4. (IF dto.isActive = None THEN user.isActive ELSE dto.isActive) \in BOOLEAN
  BY <1>1 DEF UpdateUserAccessDto, User
<1> HIDE DEF role
<1>5. \A resolve \in BOOLEAN :
        (IF resolve THEN ResolvedPermissions(dto, role) ELSE user.permissions)
            \in SUBSET Permissions
  BY <1>3 DEF User
<1> QED BY <1>2, <1>4, <1>5 DEF WithAccess, User, role

LEMMA FailureTyped ==
    ASSUME NEW user \in User
    PROVE  WithFailure(user) \in User /\ ~PastLockOut(WithFailure(user))
<1> DEFINE failed == user.failedLoginAttempts + 1
           open == user.isActive /\ failed <= MaxFailedLoginAttempts
<1>1. failed \in Nat /\ MaxFailedLoginAttempts \in Nat
  BY AuthAssumption DEF User
<1>2. open \in BOOLEAN /\ ~(open /\ failed > MaxFailedLoginAttempts)
  BY <1>1
<1>3. WithFailure(user) = [user EXCEPT !.failedLoginAttempts = failed, !.isActive = open]
  BY DEF WithFailure
<1> HIDE DEF failed, open
<1> QED BY <1>1, <1>2, <1>3 DEF User, PastLockOut

LEMMA ResetTyped ==
    ASSUME NEW user \in User, NEW password \in Passwords
    PROVE  WithReset(user, password) \in User /\ ~PastLockOut(WithReset(user, password))
<1>1. /\ WithReset(user, password) \in User
      /\ WithReset(user, password).failedLoginAttempts = 0
  BY DEF WithReset, User
<1> QED BY <1>1, AuthAssumption DEF PastLockOut

\* A new password, or a login that succeeds, does not open an account that was closed.
LEMMA UserEdits ==
    ASSUME NEW user \in User, NEW password \in Passwords
    PROVE  /\ [user EXCEPT !.password = password] \in User
           /\ PastLockOut([user EXCEPT !.password = password]) => PastLockOut(user)
           /\ [user EXCEPT !.failedLoginAttempts = 0] \in User
           /\ ~PastLockOut([user EXCEPT !.failedLoginAttempts = 0])
BY AuthAssumption DEF User, PastLockOut

\* What they compute from a session has hashes just when it is active.
LEMMA SessionEdits ==
    ASSUME NEW session \in AuthSession, NEW device \in Devices
    PROVE  /\ Revoked(session) \in AuthSession
           /\ Issued(session, device) \in AuthSession
           /\ Registered(session.user) => SessionJustified(Revoked(session))
           /\ Registered(session.user) => SessionJustified(Issued(session, device))
           /\ ~Revoked(session).isActive
BY DEF AuthSession, Revoked, Issued, SessionJustified

LEMMA NewSessionTyped ==
    ASSUME NEW u \in Users, NEW device \in Devices
    PROVE  /\ NewSession(u, device) \in AuthSession
           /\ Registered(u) => SessionJustified(NewSession(u, device))
BY DEF AuthSession, NewSession, SessionJustified

-----------------------------------------------------------------------------
(***************************************************************************)
(* Steps                                                                   *)
(***************************************************************************)
CountersTyped ==
    /\ failures \in 0 .. MaxFailures
    /\ overlaps \in Nat
    /\ requests \in 0 .. MaxRequests

TablesTyped ==
    /\ users \in [Users -> User \cup {None}]
    /\ sessions \in [SessionIds -> AuthSession \cup {None}]
    /\ links \in [LinkIds -> PasswordResetRequest \cup {None}]
    /\ recent \in [Users -> Recent]

HistoryTyped ==
    /\ issued \in [Users -> SUBSET (SessionIds \cup {None})]
    /\ uses \in [LinkIds -> Nat]
    /\ opened \in [SessionIds -> Passwords \cup {None}]
    /\ readmitted \in SUBSET Users

LEMMA TypeParts ==
    TypeOK <=> TablesTyped /\ HistoryTyped /\ CountersTyped /\ task \in [Handlers -> Task]
BY DEF TypeOK, TablesTyped, HistoryTyped, CountersTyped

\* No user and no link ever goes, and who was let in stays let in.
Grows ==
    /\ \A u \in Users : Registered(u) => Registered(u)'
    /\ readmitted \subseteq readmitted'
    /\ \A l \in LinkIds : links[l] # None => links'[l] # None

LEMMA ContinueTask ==
    ASSUME task \in [Handlers -> Task], NEW h \in Handlers, NEW next, Continue(h, next)
    PROVE  /\ task'[h] = next
           /\ \A g \in Handlers : g # h => task'[g] = task[g]
           /\ next \in Task => task' \in [Handlers -> Task]
BY DEF Continue

\* What a copy claims stays true of it while the tables grow.
LEMMA ClaimsEndure ==
    ASSUME NEW t \in Task, TaskJustified(t), Grows
    PROVE  TaskJustified(t)'
<1>1. t.at \in HasUser => t.user \in Users
  BY TaskFields DEF HasUser
<1>2. t.at \in HoldsSession => t.row.user \in Users
  BY TaskFields DEF HoldsSession, AuthSession
<1>3. t.at = "reset_save" => t.link \in LinkIds
  BY TaskFields
<1> QED BY <1>1, <1>2, <1>3 DEF TaskJustified, Grows, SessionJustified, UserJustified

\* A step of one handler that writes.
LEMMA StoreStep ==
    ASSUME IInv, Grows, NEW h \in Handlers, NEW next \in Task, Continue(h, next),
           TaskJustified(next)', TablesTyped', HistoryTyped', CountersTyped', RowsJustified'
    PROVE  IInv'
<1>1. task \in [Handlers -> Task]
  BY DEF IInv, TypeOK
<1>2. /\ task'[h] = next
      /\ \A g \in Handlers : g # h => task'[g] = task[g]
      /\ task' \in [Handlers -> Task]
  BY <1>1, ContinueTask
<1>3. TypeOK'
  BY <1>2 DEF TypeOK, TablesTyped, HistoryTyped, CountersTyped
<1>4. ASSUME NEW g \in Handlers PROVE TaskJustified(task[g])'
  <2>1. CASE g = h
    BY <1>2, <2>1 DEF TaskJustified, SessionJustified, UserJustified
  <2>2. CASE g # h
    <3>1. task[g] \in Task /\ TaskJustified(task[g]) /\ task'[g] = task[g]
      BY <1>1, <1>2, <2>2 DEF IInv
    <3> QED BY <3>1, ClaimsEndure DEF TaskJustified, SessionJustified, UserJustified
  <2> QED BY <2>1, <2>2
<1> QED BY <1>3, <1>4 DEF IInv

\* A step of one handler that only reads, or in which a request arrives.
LEMMA ReadStep ==
    ASSUME IInv, NEW h \in Handlers, NEW next \in Task, Continue(h, next),
           TaskJustified(next), UNCHANGED <<tables, history>>, CountersTyped'
    PROVE  IInv'
<1>1. Grows
  BY DEF Grows, tables, history, Registered
<1>2. TablesTyped' /\ HistoryTyped'
  BY DEF IInv, TypeOK, TablesTyped, HistoryTyped, tables, history
<1>3. RowsJustified'
  BY DEF IInv, RowsJustified, SessionJustified, UserJustified, Registered, tables, history
<1>4. TaskJustified(next)'
  BY <1>1, ClaimsEndure
<1> QED BY <1>1, <1>2, <1>3, <1>4, StoreStep

\* Requests are counted as they arrive.
LEMMA ArriveStep ==
    ASSUME IInv, NEW h \in Handlers, NEW next, Arrive(h, next)
    PROVE  /\ Continue(h, next)
           /\ CountersTyped'
           /\ overlaps' \in {overlaps, overlaps + 1}
BY AuthAssumption DEF IInv, TypeOK, Arrive, CountersTyped

\* Rows that are there are typed.
LEMMA RowFields ==
    ASSUME IInv
    PROVE  /\ \A u \in Users : users[u] # None => users[u] \in User
           /\ \A s \in SessionIds : sessions[s] # None =>
                  /\ sessions[s] \in AuthSession
                  /\ SessionJustified(sessions[s])
           /\ \A l \in LinkIds : links[l] # None =>
                  /\ links[l] \in PasswordResetRequest
                  /\ Registered(links[l].user) /\ links[l].user \in Users
           /\ \A h \in Handlers : task[h] \in Task /\ TaskJustified(task[h])
BY DEF IInv, TypeOK, RowsJustified, PasswordResetRequest

\* A save of a user, of a session, and the revocation of a user's sessions.
LEMMA UserSaved ==
    ASSUME IInv, NEW u \in Users, NEW row \in User,
           users' = [users EXCEPT ![u] = row],
           PastLockOut(row) => u \in readmitted',
           readmitted \subseteq readmitted',
           UNCHANGED <<sessions, links>>
    PROVE  /\ Grows
           /\ RowsJustified'
           /\ users' \in [Users -> User \cup {None}]
           /\ Registered(u)'
<1>1. row # None
  BY RowAssumption
<1>2. /\ users' \in [Users -> User \cup {None}]
      /\ users'[u] = row
      /\ \A v \in Users : v # u => users'[v] = users[v]
  BY DEF IInv, TypeOK
<1>3. Grows
  BY <1>1, <1>2 DEF Grows, Registered
<1>4. \A s \in SessionIds : sessions[s] # None => sessions[s].user \in Users
  BY RowFields DEF AuthSession
<1> QED BY <1>1, <1>2, <1>3, <1>4, RowFields
        DEF IInv, RowsJustified, SessionJustified, UserJustified, Grows, Registered

LEMMA SessionsSaved ==
    ASSUME IInv, sessions' \in [SessionIds -> AuthSession \cup {None}],
           \A s \in SessionIds : sessions'[s] # None =>
               sessions'[s] = sessions[s] \/ SessionJustified(sessions'[s]),
           UNCHANGED <<users, links, readmitted>>
    PROVE  Grows /\ RowsJustified'
BY DEF IInv, RowsJustified, SessionJustified, UserJustified, Grows, Registered

\* The requests that arrive.
LEMMA ArrivalKeepsIInv ==
    ASSUME IInv, NEW h \in Handlers, Begin(h)
    PROVE  IInv'
<1> USE DEF HasUser, HoldsSession, HoldsUser
<1>1. ASSUME NEW u \in Users, NEW dto \in RegisterUserDto, NEW device \in Devices,
             Register(h, u, dto, device)
      PROVE  IInv'
  <2> DEFINE row == [password |-> dto.password, role |-> dto.role, isActive |-> TRUE,
                     failedLoginAttempts |-> 0,
                     permissions |-> IF dto.permissions = None THEN RoleTemplate[dto.role]
                                                               ELSE dto.permissions]
             next == [at |-> "session_find", user |-> u, device |-> device, bearer |-> None]
  <2>1. row \in User /\ ~PastLockOut(row)
    <3>1. row.permissions \in SUBSET Permissions
      BY RowAssumption DEF RegisterUserDto
    <3>2. row.failedLoginAttempts = 0 /\ MaxFailedLoginAttempts \in Nat
      BY AuthAssumption
    <3>3. row \in User
      BY <3>1 DEF RegisterUserDto, User
    <3> QED BY <3>2, <3>3 DEF PastLockOut
  <2>2. /\ users' = [users EXCEPT ![u] = row]
        /\ Arrive(h, next)
        /\ UNCHANGED <<sessions, links, recent, history>>
    BY <1>1 DEF Register, SaveUser
  <2>3. Continue(h, next) /\ CountersTyped'
    BY <2>2, ArriveStep
  <2> HIDE DEF row
  <2>4. /\ Grows /\ RowsJustified'
        /\ users' \in [Users -> User \cup {None}]
        /\ Registered(u)'
    BY <2>1, <2>2, UserSaved DEF history
  <2>5. TablesTyped' /\ HistoryTyped'
    BY <2>2, <2>4 DEF IInv, TypeOK, TablesTyped, HistoryTyped, history
  <2>6. next \in Task
    BY TaskForms DEF Bearer
  <2>7. TaskJustified(next)'
    BY <2>4 DEF TaskJustified, Registered
  <2> HIDE DEF next
  <2> QED BY <2>3, <2>4, <2>5, <2>6, <2>7, StoreStep
<1>2. ASSUME NEW u \in Users, NEW password \in Passwords, NEW device \in Devices,
             NEW bearer \in Bearer, Login(h, u, password, device, bearer)
      PROVE  IInv'
  <2> DEFINE refused == [at |-> "login_limited", user |-> u]
             find == [at |-> "login_find", user |-> u, password |-> password,
                      device |-> device, bearer |-> bearer]
  <2>1. PICK next \in {refused, find} : Arrive(h, next) /\ UNCHANGED <<tables, history>>
    BY <1>2 DEF Login
  <2>2. Continue(h, next) /\ CountersTyped'
    BY <2>1, ArriveStep
  <2>3. next \in Task
    BY TaskForms
  <2>4. TaskJustified(next)
    BY DEF TaskJustified
  <2> QED BY <2>1, <2>2, <2>3, <2>4, ReadStep
<1>3. ASSUME NEW u \in Users, NEW s \in SessionIds, NEW device \in Devices,
             RefreshToken(h, u, s, device)
      PROVE  IInv'
  <2> DEFINE next == [at |-> "refresh_find", user |-> u, session |-> s, device |-> device]
  <2>1. Arrive(h, next) /\ UNCHANGED <<tables, history>>
    BY <1>3 DEF RefreshToken
  <2>2. Continue(h, next) /\ CountersTyped'
    BY <2>1, ArriveStep
  <2>3. next \in Task /\ TaskJustified(next)
    BY TaskForms DEF TaskJustified
  <2> QED BY <2>1, <2>2, <2>3, ReadStep
<1>4. ASSUME NEW u \in Users, NEW s \in SessionIds, NEW sequel \in Sequel,
             Authenticate(h, u, s, sequel)
      PROVE  IInv'
  <2> DEFINE next == [at |-> "validate_find", user |-> u, session |-> s, sequel |-> sequel]
  <2>1. Arrive(h, next) /\ UNCHANGED <<tables, history>>
    BY <1>4 DEF Authenticate
  <2>2. Continue(h, next) /\ CountersTyped'
    BY <2>1, ArriveStep
  <2>3. next \in Task /\ TaskJustified(next)
    BY TaskForms DEF TaskJustified
  <2> QED BY <2>1, <2>2, <2>3, ReadStep
<1>5. ASSUME NEW u \in Users, NEW dto \in AccessDtos, UpdateUserAccess(h, u, dto)
      PROVE  IInv'
  <2> DEFINE next == [at |-> "access_save", user |-> u, row |-> WithAccess(users[u], dto)]
  <2>1. users[u] # None /\ Arrive(h, next) /\ UNCHANGED <<tables, history>>
    BY <1>5 DEF UpdateUserAccess
  <2>2. Continue(h, next) /\ CountersTyped'
    BY <2>1, ArriveStep
  <2>3. WithAccess(users[u], dto) \in User
    BY <2>1, RowFields, AccessTyped
  <2>4. next \in Task /\ TaskJustified(next)
    BY <2>3, TaskForms DEF TaskJustified
  <2> QED BY <2>1, <2>2, <2>4, ReadStep
<1>6. ASSUME NEW u \in Users, ForgotPassword(h, u)
      PROVE  IInv'
  <2> DEFINE next == [at |-> "forgot_count", user |-> u]
  <2>1. users[u] # None /\ Arrive(h, next) /\ UNCHANGED <<tables, history>>
    BY <1>6 DEF ForgotPassword
  <2>2. Continue(h, next) /\ CountersTyped'
    BY <2>1, ArriveStep
  <2>3. next \in Task /\ TaskJustified(next)
    BY <2>1, TaskForms DEF TaskJustified, Registered
  <2> QED BY <2>1, <2>2, <2>3, ReadStep
<1>7. ASSUME NEW l \in LinkIds, NEW password \in Passwords, ResetPassword(h, l, password)
      PROVE  IInv'
  <2> DEFINE row == WithReset(users[links[l].user], password)
             next == [at |-> "reset_save", link |-> l, row |-> row]
  <2>1. links[l] # None /\ Arrive(h, next) /\ UNCHANGED <<tables, history>>
    BY <1>7 DEF ResetPassword
  <2>2. Continue(h, next) /\ CountersTyped'
    BY <2>1, ArriveStep
  <2>3. users[links[l].user] \in User
    BY <2>1, RowFields DEF Registered
  <2>4. row \in User /\ ~PastLockOut(row)
    BY <2>3, ResetTyped
  <2> HIDE DEF row
  <2>5. next \in Task /\ TaskJustified(next)
    BY <2>1, <2>4, TaskForms DEF TaskJustified
  <2> QED BY <2>1, <2>2, <2>5, ReadStep
<1>8. None \in Bearer
  BY DEF Bearer
<1> QED BY <1>1, <1>2, <1>3, <1>4, <1>5, <1>6, <1>7, <1>8 DEF Begin, BeginLogin, LoginForSwagger

\* A step of a request under way counts nothing.
LEMMA CountersKept ==
    ASSUME IInv, UNCHANGED counters
    PROVE  CountersTyped'
BY DEF IInv, TypeOK, counters, CountersTyped

\* The steps of a login, up to its session.
LEMMA LoginKeepsIInv ==
    ASSUME IInv, NEW h \in Handlers,
           \/ LoginLimited(h) \/ LoginFind(h) \/ LoginFailed(h) \/ LoginLock(h) \/ LoginSave(h)
    PROVE  IInv'
<1> USE DEF HasUser, HoldsSession, HoldsUser
<1>0. PICK t : t = task[h] /\ t \in Task /\ TaskJustified(t)
  BY RowFields
<1>1. CASE LoginLimited(h)
  <2>1. /\ Continue(h, Idle)
        /\ UNCHANGED <<users, sessions, links, history, counters>>
        /\ t.at = "login_limited"
        /\ recent' = [recent EXCEPT ![t.user].limited =
                          [w \in Windows |-> recent[t.user].limited[w] + 1]]
    BY <1>0, <1>1 DEF LoginLimited, At, Finish
  <2>2. t.user \in Users
    BY <1>0, <2>1, TaskFields
  <2>3. recent' \in [Users -> Recent]
    <3>1. recent[t.user] \in Recent
      BY <2>2 DEF IInv, TypeOK
    <3>2. [w \in Windows |-> recent[t.user].limited[w] + 1] \in [Windows -> Nat]
      BY <3>1 DEF Recent
    <3> QED BY <2>1, <2>2, <3>1, <3>2 DEF IInv, TypeOK, Recent
  <2>4. TablesTyped' /\ HistoryTyped' /\ Grows /\ RowsJustified'
    BY <2>1, <2>3
       DEF IInv, TypeOK, TablesTyped, HistoryTyped, history, Grows, RowsJustified,
           SessionJustified, UserJustified, Registered
  <2>5. Idle \in Task /\ TaskJustified(Idle)'
    BY TaskForms DEF TaskJustified, Idle
  <2> QED BY <2>1, <2>4, <2>5, CountersKept, StoreStep
<1>2. CASE LoginFind(h)
  <2> DEFINE user == users[t.user]
  <2>1. /\ t.at = "login_find"
        /\ UNCHANGED <<tables, history>> /\ UNCHANGED counters
    BY <1>0, <1>2 DEF LoginFind, At, ReadOnly
  <2>2. /\ t.user \in Users /\ t.device \in Devices /\ t.bearer \in Bearer
        /\ user # None => user \in User /\ UserJustified(t.user, user)
    BY <1>0, <2>1, TaskFields, RowFields DEF IInv, RowsJustified
  <2>3. PICK next : Continue(h, next) /\
            \/ next = Idle
            \/ next = [at |-> "login_unknown", user |-> t.user]
            \/ user # None /\ next = [at |-> "login_save", user |-> t.user, device |-> t.device,
                                      bearer |-> t.bearer,
                                      row |-> [user EXCEPT !.failedLoginAttempts = 0]]
            \/ user # None /\ next = [at |-> "login_failed", user |-> t.user, row |-> user]
    BY <1>0, <1>2 DEF LoginFind
  <2>4. user # None => /\ [user EXCEPT !.failedLoginAttempts = 0] \in User
                       /\ ~PastLockOut([user EXCEPT !.failedLoginAttempts = 0])
    <3> HIDE DEF user
    <3>1. SUFFICES ASSUME user # None
                   PROVE  /\ [user EXCEPT !.failedLoginAttempts = 0] \in User
                          /\ ~PastLockOut([user EXCEPT !.failedLoginAttempts = 0])
      OBVIOUS
    <3>2. user.password \in Passwords
      BY <2>2, <3>1 DEF User
    <3> QED BY <2>2, <3>1, <3>2, UserEdits
  <2> HIDE DEF user
  <2>5. next \in Task
    BY <2>2, <2>3, <2>4, TaskForms
  <2>6. TaskJustified(next)
    BY <2>2, <2>3, <2>4 DEF TaskJustified, UserJustified, Idle
  <2> QED BY <2>1, <2>3, <2>5, <2>6, CountersKept, ReadStep
<1>3. CASE LoginFailed(h)
  <2>1. /\ t.at \in {"login_unknown", "login_failed"}
        /\ UNCHANGED <<users, sessions, links, history, counters>>
        /\ recent' = [recent EXCEPT ![t.user].tried =
                          [w \in Windows |-> recent[t.user].tried[w] + 1]]
    BY <1>0, <1>3 DEF LoginFailed
  <2>2. t.user \in Users
    BY <1>0, <2>1, TaskFields
  <2>3. recent' \in [Users -> Recent]
    <3>1. recent[t.user] \in Recent
      BY <2>2 DEF IInv, TypeOK
    <3>2. [w \in Windows |-> recent[t.user].tried[w] + 1] \in [Windows -> Nat]
      BY <3>1 DEF Recent
    <3> QED BY <2>1, <2>2, <3>1, <3>2 DEF IInv, TypeOK, Recent
  <2>4. TablesTyped' /\ HistoryTyped' /\ Grows /\ RowsJustified'
    BY <2>1, <2>3
       DEF IInv, TypeOK, TablesTyped, HistoryTyped, history, Grows, RowsJustified,
           SessionJustified, UserJustified, Registered
  <2>5. PICK next : Continue(h, next) /\
            \/ next = Idle
            \/ /\ t.at = "login_failed"
               /\ next = [at |-> "login_lock", user |-> t.user, row |-> WithFailure(t.row)]
    BY <1>0, <1>3 DEF LoginFailed, At
  <2>6. t.at = "login_failed" =>
            WithFailure(t.row) \in User /\ ~PastLockOut(WithFailure(t.row))
    BY <1>0, TaskFields, FailureTyped
  <2>7. next \in Task
    BY <2>2, <2>5, <2>6, TaskForms
  <2>8. TaskJustified(next)'
    BY <2>5, <2>6 DEF TaskJustified, UserJustified, Idle
  <2> QED BY <2>1, <2>4, <2>5, <2>7, <2>8, CountersKept, StoreStep
<1>4. CASE LoginLock(h)
  <2>1. /\ t.at = "login_lock" /\ Continue(h, Idle)
        /\ users' = [users EXCEPT ![t.user] = t.row]
        /\ UNCHANGED <<sessions, links, recent, history>> /\ UNCHANGED counters
    BY <1>0, <1>4 DEF LoginLock, At, Finish, SaveUser
  <2>2. t.user \in Users /\ t.row \in User /\ (PastLockOut(t.row) => t.user \in readmitted)
    BY <1>0, <2>1, TaskFields DEF TaskJustified, UserJustified
  <2>3. Grows /\ RowsJustified' /\ users' \in [Users -> User \cup {None}]
    BY <2>1, <2>2, UserSaved DEF history
  <2>4. TablesTyped' /\ HistoryTyped'
    BY <2>1, <2>3 DEF IInv, TypeOK, TablesTyped, HistoryTyped, history
  <2>5. Idle \in Task /\ TaskJustified(Idle)'
    BY TaskForms DEF TaskJustified, Idle
  <2> QED BY <2>1, <2>3, <2>4, <2>5, CountersKept, StoreStep
<1>5. CASE LoginSave(h)
  <2> DEFINE next == [at |-> "session_find", user |-> t.user, device |-> t.device,
                      bearer |-> t.bearer]
  <2>1. /\ t.at = "login_save" /\ Continue(h, next)
        /\ users' = [users EXCEPT ![t.user] = t.row]
        /\ UNCHANGED <<sessions, links, recent, history>> /\ UNCHANGED counters
    BY <1>0, <1>5 DEF LoginSave, At, SaveUser
  <2>2. /\ t.user \in Users /\ t.row \in User /\ t.device \in Devices /\ t.bearer \in Bearer
        /\ PastLockOut(t.row) => t.user \in readmitted
    BY <1>0, <2>1, TaskFields DEF TaskJustified, UserJustified
  <2>3. Grows /\ RowsJustified' /\ users' \in [Users -> User \cup {None}] /\ Registered(t.user)'
    BY <2>1, <2>2, UserSaved DEF history
  <2>4. TablesTyped' /\ HistoryTyped'
    BY <2>1, <2>3 DEF IInv, TypeOK, TablesTyped, HistoryTyped, history
  <2>5. next \in Task
    BY <2>2, TaskForms
  <2>6. TaskJustified(next)'
    BY <2>1, <2>3 DEF TaskJustified, Registered
  <2> HIDE DEF next
  <2> QED BY <2>1, <2>3, <2>4, <2>5, <2>6, CountersKept, StoreStep
<1> QED BY <1>1, <1>2, <1>3, <1>4, <1>5


\* The steps that find, make or replace a session.
LEMMA SessionKeepsIInv ==
    ASSUME IInv, NEW h \in Handlers,
           \/ SessionFind(h) \/ SessionMismatch(h) \/ SessionCount(h) \/ SessionOldest(h)
           \/ SessionReplace(h) \/ SessionSave(h) \/ RefreshFind(h)
    PROVE  IInv'
<1> USE DEF HasUser, HoldsSession, HoldsUser
<1>0. PICK t : t = task[h] /\ t \in Task /\ TaskJustified(t)
  BY RowFields
<1>1. \A u \in Users : \A s \in ActiveSessions(u) :
          /\ s \in SessionIds /\ sessions[s] \in AuthSession
          /\ SessionJustified(sessions[s]) /\ Registered(sessions[s].user)
  BY RowFields DEF ActiveSessions, SessionsOf, SessionJustified
<1>2. \A s \in SessionIds, row \in AuthSession :
          /\ SessionJustified(row)
          /\ sessions' = [sessions EXCEPT ![s] = row]
          /\ UNCHANGED <<users, links, recent>> /\ HistoryTyped'
          /\ UNCHANGED readmitted
          => Grows /\ RowsJustified' /\ TablesTyped' /\ SessionJustified(row)'
  <2>1. SUFFICES ASSUME NEW s \in SessionIds, NEW row \in AuthSession,
                        SessionJustified(row), sessions' = [sessions EXCEPT ![s] = row],
                        UNCHANGED <<users, links, recent>>, UNCHANGED readmitted
                 PROVE  Grows /\ RowsJustified' /\ TablesTyped' /\ SessionJustified(row)'
    OBVIOUS
  <2>2. sessions' \in [SessionIds -> AuthSession \cup {None}]
    BY <2>1 DEF IInv, TypeOK
  <2>3. \A r \in SessionIds : sessions'[r] # None =>
            sessions'[r] = sessions[r] \/ SessionJustified(sessions'[r])
    BY <2>1 DEF IInv, TypeOK
  <2>4. Grows /\ RowsJustified'
    BY <2>1, <2>2, <2>3, SessionsSaved
  <2> QED BY <2>1, <2>2, <2>4
          DEF IInv, TypeOK, TablesTyped, SessionJustified, Registered
<1>3. CASE SessionFind(h)
  <2>1. /\ t.at = "session_find" /\ UNCHANGED <<tables, history>> /\ UNCHANGED counters
    BY <1>0, <1>3 DEF SessionFind, At, ReadOnly
  <2>2. t.user \in Users /\ t.device \in Devices /\ Registered(t.user)
    BY <1>0, <2>1, TaskFields DEF TaskJustified
  <2>3. PICK next : Continue(h, next) /\
            \/ next = [at |-> "session_count", user |-> t.user, device |-> t.device]
            \/ \E s \in ActiveSessions(t.user) :
                   \/ next = [at |-> "session_save", session |-> s,
                              row |-> Issued(sessions[s], t.device)]
                   \/ next = [at |-> "session_mismatch", session |-> s,
                              row |-> Revoked(sessions[s]), device |-> t.device]
    BY <1>0, <1>3 DEF SessionFind
  <2>4. next \in Task /\ TaskJustified(next)
    <3>1. CASE next = [at |-> "session_count", user |-> t.user, device |-> t.device]
      BY <2>2, <3>1, TaskForms DEF TaskJustified
    <3>2. ASSUME NEW s \in ActiveSessions(t.user),
                 \/ next = [at |-> "session_save", session |-> s,
                            row |-> Issued(sessions[s], t.device)]
                 \/ next = [at |-> "session_mismatch", session |-> s,
                            row |-> Revoked(sessions[s]), device |-> t.device]
          PROVE  next \in Task /\ TaskJustified(next)
      <4>1. /\ s \in SessionIds
            /\ Issued(sessions[s], t.device) \in AuthSession
            /\ SessionJustified(Issued(sessions[s], t.device))
            /\ Revoked(sessions[s]) \in AuthSession
            /\ SessionJustified(Revoked(sessions[s])) /\ ~Revoked(sessions[s]).isActive
        BY <1>1, <2>2, SessionEdits
      <4> QED BY <2>2, <3>2, <4>1, TaskForms DEF TaskJustified
    <3> QED BY <2>3, <3>1, <3>2
  <2> QED BY <2>1, <2>3, <2>4, CountersKept, ReadStep
<1>4. CASE SessionMismatch(h)
  <2>1. PICK next :
            /\ t.at = "session_mismatch" /\ Continue(h, next)
            /\ next = [at |-> "session_count", user |-> t.row.user, device |-> t.device]
            /\ sessions' = [sessions EXCEPT ![t.session] = t.row]
            /\ UNCHANGED <<users, links, recent, history>> /\ UNCHANGED counters
    BY <1>0, <1>4 DEF SessionMismatch, At, SaveSession
  <2>2. /\ t.session \in SessionIds /\ t.device \in Devices
        /\ t.row \in AuthSession /\ SessionJustified(t.row) /\ t.row.user \in Users
    BY <1>0, <2>1, TaskFields DEF TaskJustified, AuthSession
  <2>3. HistoryTyped'
    BY <2>1 DEF IInv, TypeOK, HistoryTyped, history
  <2>4. Grows /\ RowsJustified' /\ TablesTyped' /\ SessionJustified(t.row)'
    BY <1>2, <2>1, <2>2, <2>3 DEF history
  <2>5. next \in Task /\ TaskJustified(next)'
    BY <2>1, <2>2, <2>4, TaskForms DEF TaskJustified, SessionJustified
  <2> QED BY <2>1, <2>3, <2>4, <2>5, CountersKept, StoreStep
<1>5. CASE SessionCount(h)
  <2>1. /\ t.at = "session_count" /\ UNCHANGED <<tables, history>> /\ UNCHANGED counters
    BY <1>0, <1>5 DEF SessionCount, At, ReadOnly
  <2>2. t.user \in Users /\ t.device \in Devices /\ Registered(t.user)
    BY <1>0, <2>1, TaskFields DEF TaskJustified
  <2>3. PICK next : Continue(h, next) /\
            \/ next = [at |-> "session_oldest", user |-> t.user, device |-> t.device]
            \/ next = [at |-> "session_save", session |-> None,
                       row |-> NewSession(t.user, t.device)]
    BY <1>0, <1>5 DEF SessionCount
  <2>4. next \in Task /\ TaskJustified(next)
    BY <2>2, <2>3, TaskForms, NewSessionTyped DEF TaskJustified
  <2> QED BY <2>1, <2>3, <2>4, CountersKept, ReadStep
<1>6. CASE SessionOldest(h)
  <2>1. /\ t.at = "session_oldest" /\ UNCHANGED <<tables, history>> /\ UNCHANGED counters
    BY <1>0, <1>6 DEF SessionOldest, At, ReadOnly
  <2>2. t.user \in Users /\ t.device \in Devices /\ Registered(t.user)
    BY <1>0, <2>1, TaskFields DEF TaskJustified
  <2>3. PICK next : Continue(h, next) /\
            \/ next = [at |-> "session_save", session |-> None,
                       row |-> NewSession(t.user, t.device)]
            \/ \E s \in ActiveSessions(t.user) :
                   next = [at |-> "session_replace", session |-> s,
                           row |-> Revoked(sessions[s]), device |-> t.device]
    BY <1>0, <1>6 DEF SessionOldest
  <2>4. \A s \in ActiveSessions(t.user) :
            /\ s \in SessionIds /\ Revoked(sessions[s]) \in AuthSession
            /\ SessionJustified(Revoked(sessions[s])) /\ ~Revoked(sessions[s]).isActive
    BY <1>1, <2>2, SessionEdits
  <2>5. next \in Task /\ TaskJustified(next)
    BY <2>2, <2>3, <2>4, TaskForms, NewSessionTyped DEF TaskJustified
  <2> QED BY <2>1, <2>3, <2>5, CountersKept, ReadStep
<1>7. CASE SessionReplace(h)
  <2>1. PICK next :
            /\ t.at = "session_replace" /\ Continue(h, next)
            /\ next = [at |-> "session_save", session |-> None,
                       row |-> NewSession(t.row.user, t.device)]
            /\ sessions' = [sessions EXCEPT ![t.session] = t.row]
            /\ UNCHANGED <<users, links, recent, history>> /\ UNCHANGED counters
    BY <1>0, <1>7 DEF SessionReplace, At, SaveSession
  <2>2. /\ t.session \in SessionIds /\ t.device \in Devices
        /\ t.row \in AuthSession /\ SessionJustified(t.row) /\ t.row.user \in Users
    BY <1>0, <2>1, TaskFields DEF TaskJustified, AuthSession
  <2>3. HistoryTyped'
    BY <2>1 DEF IInv, TypeOK, HistoryTyped, history
  <2>4. Grows /\ RowsJustified' /\ TablesTyped' /\ SessionJustified(t.row)'
    BY <1>2, <2>1, <2>2, <2>3 DEF history
  <2>5. next \in Task /\ TaskJustified(next)'
    BY <2>1, <2>2, <2>4, TaskForms, NewSessionTyped DEF TaskJustified, SessionJustified, NewSession
  <2> QED BY <2>1, <2>3, <2>4, <2>5, CountersKept, StoreStep
<1>8. CASE SessionSave(h)
  <2>1. PICK s :
            /\ t.at = "session_save" /\ Continue(h, Idle)
            /\ s = IF t.session = None THEN NewId(sessions) ELSE t.session
            /\ t.session = None => \E r \in SessionIds : sessions[r] = None
            /\ sessions' = [sessions EXCEPT ![s] = t.row]
            /\ opened' = [opened EXCEPT ![s] = users[t.row.user].password]
            /\ issued' = [issued EXCEPT ![t.row.user] = issued[t.row.user] \cup {t.session}]
            /\ UNCHANGED <<users, links, recent, uses, readmitted>> /\ UNCHANGED counters
    BY <1>0, <1>8 DEF SessionSave, At, SaveSession, Finish
  <2>2. /\ t.session \in SessionIds \cup {None} /\ t.row \in AuthSession
        /\ SessionJustified(t.row) /\ t.row.user \in Users
    BY <1>0, <2>1, TaskFields DEF TaskJustified, AuthSession
  <2>3. s \in SessionIds
    <3>1. DOMAIN sessions = SessionIds
      BY DEF IInv, TypeOK
    <3>2. (\E r \in SessionIds : sessions[r] = None) => NewId(sessions) \in SessionIds
      BY <3>1 DEF NewId
    <3> QED BY <2>1, <2>2, <3>2
  <2>4. users[t.row.user] \in User
    BY <2>2, RowFields DEF SessionJustified, Registered
  <2>5. HistoryTyped'
    BY <2>1, <2>2, <2>3, <2>4 DEF IInv, TypeOK, HistoryTyped, User
  <2>6. Grows /\ RowsJustified' /\ TablesTyped'
    BY <1>2, <2>1, <2>2, <2>3, <2>5
  <2>7. Idle \in Task /\ TaskJustified(Idle)'
    BY TaskForms DEF TaskJustified, Idle
  <2> QED BY <2>1, <2>5, <2>6, <2>7, CountersKept, StoreStep
<1>9. CASE RefreshFind(h)
  <2>1. /\ t.at = "refresh_find" /\ UNCHANGED <<tables, history>> /\ UNCHANGED counters
    BY <1>0, <1>9 DEF RefreshFind, At, ReadOnly
  <2>2. t.user \in Users /\ t.session \in SessionIds /\ t.device \in Devices
    BY <1>0, <2>1, TaskFields
  <2>3. PICK next : Continue(h, next) /\
            \/ next = Idle
            \/ /\ t.session \in ActiveSessions(t.user)
               /\ next = [at |-> "session_save", session |-> t.session,
                          row |-> Issued(sessions[t.session], t.device)]
    BY <1>0, <1>9 DEF RefreshFind
  <2>4. t.session \in ActiveSessions(t.user) =>
            /\ Issued(sessions[t.session], t.device) \in AuthSession
            /\ SessionJustified(Issued(sessions[t.session], t.device))
    BY <1>1, <2>2, SessionEdits
  <2>5. next \in Task /\ TaskJustified(next)
    BY <2>2, <2>3, <2>4, TaskForms DEF TaskJustified, Idle
  <2> QED BY <2>1, <2>3, <2>5, CountersKept, ReadStep
<1> QED BY <1>3, <1>4, <1>5, <1>6, <1>7, <1>8, <1>9


\* A user's sessions are revoked in one update.
LEMMA RevokeStep ==
    ASSUME IInv, NEW u, NEW kept, RevokeAll(u, kept), UNCHANGED <<users, links, readmitted>>
    PROVE  /\ Grows /\ RowsJustified'
           /\ sessions' \in [SessionIds -> AuthSession \cup {None}]
<1>1. ASSUME NEW s \in SessionIds
      PROVE  /\ sessions'[s] \in AuthSession \cup {None}
             /\ sessions'[s] # None =>
                    sessions'[s] = sessions[s] \/ SessionJustified(sessions'[s])
  <2>1. CASE s \in SessionsOf(u) \ {kept}
    <3>1. sessions'[s] = Revoked(sessions[s])
      BY <2>1 DEF RevokeAll
    <3>2. sessions[s] \in AuthSession /\ SessionJustified(sessions[s])
      BY <2>1, RowFields DEF SessionsOf
    <3>3. Revoked(sessions[s]) \in AuthSession /\ SessionJustified(Revoked(sessions[s]))
      BY <3>2 DEF AuthSession, Revoked, SessionJustified
    <3> QED BY <3>1, <3>3
  <2>2. CASE s \notin SessionsOf(u) \ {kept}
    <3>1. sessions'[s] = sessions[s]
      BY <2>2 DEF RevokeAll
    <3> QED BY <3>1 DEF IInv, TypeOK
  <2> QED BY <2>1, <2>2
<1>2. sessions' \in [SessionIds -> AuthSession \cup {None}]
  BY <1>1 DEF RevokeAll
<1> QED BY <1>1, <1>2, SessionsSaved

\* The check of a bearer token, and a change of password.
LEMMA ChangeKeepsIInv ==
    ASSUME IInv, NEW h \in Handlers,
           \/ ValidateFind(h) \/ ValidateSave(h) \/ ChangeFind(h) \/ ChangeCount(h)
           \/ ChangeSave(h) \/ ChangeRecord(h) \/ ChangeRevoke(h)
    PROVE  IInv'
<1> USE DEF HasUser, HoldsSession, HoldsUser
<1>0. PICK t : t = task[h] /\ t \in Task /\ TaskJustified(t)
  BY RowFields
<1>1. CASE ValidateFind(h)
  <2>1. /\ t.at = "validate_find" /\ UNCHANGED <<tables, history>> /\ UNCHANGED counters
    BY <1>0, <1>1 DEF ValidateFind, At, ReadOnly
  <2>2. t.user \in Users /\ t.session \in SessionIds /\ t.sequel \in Sequel
    BY <1>0, <2>1, TaskFields
  <2>3. PICK next : Continue(h, next) /\
            \/ next = Idle
            \/ /\ t.session \in ActiveSessions(t.user)
               /\ next = [at |-> "validate_save", session |-> t.session,
                          row |-> sessions[t.session], sequel |-> t.sequel]
    BY <1>0, <1>1 DEF ValidateFind
  <2>4. t.session \in ActiveSessions(t.user) =>
            sessions[t.session] \in AuthSession /\ SessionJustified(sessions[t.session])
    BY RowFields DEF ActiveSessions, SessionsOf
  <2>5. next \in Task /\ TaskJustified(next)
    BY <2>2, <2>3, <2>4, TaskForms DEF TaskJustified, Idle
  <2> QED BY <2>1, <2>3, <2>5, CountersKept, ReadStep
<1>2. CASE ValidateSave(h)
  <2>1. PICK next :
            /\ t.at = "validate_save" /\ Continue(h, next)
            /\ \/ next = Idle
               \/ /\ t.sequel.op # "none"
                  /\ next = [at |-> "change_find", user |-> t.row.user, session |-> t.session,
                             sequel |-> t.sequel]
            /\ sessions' = [sessions EXCEPT ![t.session] = t.row]
            /\ UNCHANGED <<users, links, recent, history>> /\ UNCHANGED counters
    BY <1>0, <1>2 DEF ValidateSave, At, SaveSession
  <2>2. /\ t.session \in SessionIds /\ t.sequel \in Sequel
        /\ t.row \in AuthSession /\ SessionJustified(t.row) /\ t.row.user \in Users
    BY <1>0, <2>1, TaskFields DEF TaskJustified, AuthSession
  <2>3. /\ sessions' \in [SessionIds -> AuthSession \cup {None}]
        /\ \A s \in SessionIds : s # t.session => sessions'[s] = sessions[s]
        /\ sessions'[t.session] = t.row
    BY <2>1, <2>2 DEF IInv, TypeOK
  <2>4. Grows /\ RowsJustified'
    BY <2>1, <2>2, <2>3, SessionsSaved DEF history
  <2>5. TablesTyped' /\ HistoryTyped'
    BY <2>1, <2>3 DEF IInv, TypeOK, TablesTyped, HistoryTyped, history
  <2>6. t.sequel.op # "none" => t.sequel.op = "change"
    BY <2>2 DEF Sequel
  <2>7. next \in Task
    BY <2>1, <2>2, TaskForms
  <2>8. TaskJustified(next)'
    BY <2>1, <2>2, <2>4, <2>6 DEF TaskJustified, SessionJustified, Idle, Grows
  <2> QED BY <2>1, <2>4, <2>5, <2>7, <2>8, CountersKept, StoreStep
<1>3. CASE ChangeFind(h)
  <2>1. /\ t.at = "change_find" /\ UNCHANGED <<tables, history>> /\ UNCHANGED counters
    BY <1>0, <1>3 DEF ChangeFind, At, ReadOnly
  <2>2. /\ t.user \in Users /\ t.session \in SessionIds /\ t.sequel.new \in Passwords
        /\ users[t.user] \in User /\ UserJustified(t.user, users[t.user])
        /\ Registered(t.user)
    BY <1>0, <2>1, TaskFields, RowFields
       DEF TaskJustified, Sequel, Registered, IInv, RowsJustified
  <2>3. PICK next : Continue(h, next) /\
            \/ next = Idle
            \/ next = [at |-> "change_count", user |-> t.user, session |-> t.session,
                       row |-> [users[t.user] EXCEPT !.password = t.sequel.new]]
    BY <1>0, <1>3 DEF ChangeFind
  <2>4. PICK row : /\ row = [users[t.user] EXCEPT !.password = t.sequel.new]
                   /\ row \in User /\ UserJustified(t.user, row)
    BY <2>2, UserEdits DEF UserJustified
  <2>5. next \in Task
    BY <2>2, <2>3, <2>4, TaskForms
  <2>6. TaskJustified(next)
    BY <2>2, <2>3, <2>4 DEF TaskJustified, Idle
  <2> QED BY <2>1, <2>3, <2>5, <2>6, CountersKept, ReadStep
<1>4. CASE ChangeCount(h)
  <2>1. /\ t.at = "change_count" /\ UNCHANGED <<tables, history>> /\ UNCHANGED counters
    BY <1>0, <1>4 DEF ChangeCount, At, ReadOnly
  <2>2. PICK next : Continue(h, next) /\ next \in {Idle, [t EXCEPT !.at = "change_save"]}
    BY <1>0, <1>4 DEF ChangeCount
  <2>3. t \in [at : {"change_count", "change_save"}, user : Users, session : SessionIds,
               row : User]
    BY <1>0, <2>1 DEF Task, Idle
  <2>4. next \in Task /\ TaskJustified(next)
    BY <1>0, <2>1, <2>2, <2>3, TaskForms DEF TaskJustified, Idle, Task
  <2> QED BY <2>1, <2>2, <2>4, CountersKept, ReadStep
<1>5. CASE ChangeSave(h)
  <2>1. PICK next :
            /\ t.at = "change_save" /\ Continue(h, next)
            /\ next = [at |-> "change_record", user |-> t.user, session |-> t.session]
            /\ users' = [users EXCEPT ![t.user] = t.row]
            /\ UNCHANGED <<sessions, links, recent, history>> /\ UNCHANGED counters
    BY <1>0, <1>5 DEF ChangeSave, At, SaveUser
  <2>2. /\ t.user \in Users /\ t.row \in User /\ t.session \in SessionIds
        /\ PastLockOut(t.row) => t.user \in readmitted
    BY <1>0, <2>1, TaskFields DEF TaskJustified, UserJustified
  <2>3. Grows /\ RowsJustified' /\ users' \in [Users -> User \cup {None}] /\ Registered(t.user)'
    BY <2>1, <2>2, UserSaved DEF history
  <2>4. TablesTyped' /\ HistoryTyped'
    BY <2>1, <2>3 DEF IInv, TypeOK, TablesTyped, HistoryTyped, history
  <2>5. next \in Task /\ TaskJustified(next)'
    BY <2>1, <2>2, <2>3, TaskForms DEF TaskJustified, Registered
  <2> QED BY <2>1, <2>3, <2>4, <2>5, CountersKept, StoreStep
<1>6. CASE ChangeRecord(h)
  <2>1. PICK next :
            /\ t.at = "change_record" /\ Continue(h, next)
            /\ next = [t EXCEPT !.at = "change_revoke"]
            /\ recent' = [recent EXCEPT ![t.user].changes = recent[t.user].changes + 1]
            /\ UNCHANGED <<users, sessions, links, history>> /\ UNCHANGED counters
    BY <1>0, <1>6 DEF ChangeRecord, At
  <2>2. t.user \in Users
    BY <1>0, <2>1, TaskFields
  <2>3. recent' \in [Users -> Recent]
    <3>1. recent[t.user] \in Recent
      BY <2>2 DEF IInv, TypeOK
    <3>2. recent[t.user].changes + 1 \in Nat
      BY <3>1 DEF Recent
    <3> QED BY <2>1, <2>2, <3>1, <3>2 DEF IInv, TypeOK, Recent
  <2>4. TablesTyped' /\ HistoryTyped' /\ Grows /\ RowsJustified'
    BY <2>1, <2>3
       DEF IInv, TypeOK, TablesTyped, HistoryTyped, history, Grows, RowsJustified,
           SessionJustified, UserJustified, Registered
  <2>5. t \in [at : {"change_record", "change_revoke"}, user : Users, session : SessionIds]
    BY <1>0, <2>1 DEF Task, Idle
  <2>6. next \in Task /\ TaskJustified(next)'
    BY <1>0, <2>1, <2>5, TaskForms DEF TaskJustified, Registered
  <2> QED BY <2>1, <2>4, <2>6, CountersKept, StoreStep
<1>7. CASE ChangeRevoke(h)
  <2>1. /\ t.at = "change_revoke" /\ Continue(h, Idle)
        /\ RevokeAll(t.user, t.session)
        /\ opened' = [opened EXCEPT ![t.session] = users[t.user].password]
        /\ UNCHANGED <<users, links, recent, issued, uses, readmitted>> /\ UNCHANGED counters
    BY <1>0, <1>7 DEF ChangeRevoke, At, Finish
  <2>2. users[t.user] \in User
    BY <1>0, <2>1, TaskFields, RowFields DEF TaskJustified, Registered
  <2>3. Grows /\ RowsJustified' /\ sessions' \in [SessionIds -> AuthSession \cup {None}]
    BY <2>1, RevokeStep
  <2>4. TablesTyped' /\ HistoryTyped'
    BY <2>1, <2>2, <2>3 DEF IInv, TypeOK, TablesTyped, HistoryTyped, User
  <2>5. Idle \in Task /\ TaskJustified(Idle)'
    BY TaskForms DEF TaskJustified, Idle
  <2> QED BY <2>1, <2>3, <2>4, <2>5, CountersKept, StoreStep
<1> QED BY <1>1, <1>2, <1>3, <1>4, <1>5, <1>6, <1>7

\* An administrator's update, and password links.
LEMMA LinkKeepsIInv ==
    ASSUME IInv, NEW h \in Handlers,
           AccessSave(h) \/ ForgotCount(h) \/ ForgotSave(h) \/ ResetSave(h) \/ ResetRevoke(h)
    PROVE  IInv'
<1> USE DEF HasUser, HoldsSession, HoldsUser
<1>0. PICK t : t = task[h] /\ t \in Task /\ TaskJustified(t)
  BY RowFields
<1>1. CASE AccessSave(h)
  <2>1. /\ t.at = "access_save" /\ Continue(h, Idle)
        /\ users' = [users EXCEPT ![t.user] = t.row]
        /\ readmitted' = IF PastLockOut(t.row) THEN readmitted \cup {t.user} ELSE readmitted
        /\ UNCHANGED <<sessions, links, recent, issued, uses, opened>> /\ UNCHANGED counters
    BY <1>0, <1>1 DEF AccessSave, At, Finish, SaveUser
  <2>2. t.user \in Users /\ t.row \in User
    BY <1>0, <2>1, TaskFields
  <2>3. Grows /\ RowsJustified' /\ users' \in [Users -> User \cup {None}]
    BY <2>1, <2>2, UserSaved
  <2>4. TablesTyped' /\ HistoryTyped'
    BY <2>1, <2>2, <2>3 DEF IInv, TypeOK, TablesTyped, HistoryTyped
  <2>5. Idle \in Task /\ TaskJustified(Idle)'
    BY TaskForms DEF TaskJustified, Idle
  <2> QED BY <2>1, <2>3, <2>4, <2>5, CountersKept, StoreStep
<1>2. CASE ForgotCount(h)
  <2>1. /\ t.at = "forgot_count" /\ UNCHANGED <<tables, history>> /\ UNCHANGED counters
    BY <1>0, <1>2 DEF ForgotCount, At, ReadOnly
  <2>2. PICK next : Continue(h, next) /\ next \in {Idle, [t EXCEPT !.at = "forgot_save"]}
    BY <1>0, <1>2 DEF ForgotCount
  <2>3. t \in [at : {"login_limited", "login_unknown", "forgot_count", "forgot_save",
                     "reset_revoke"}, user : Users]
    BY <1>0, <2>1 DEF Task, Idle
  <2>4. next \in Task /\ TaskJustified(next)
    BY <1>0, <2>1, <2>2, <2>3, TaskForms DEF TaskJustified, Idle
  <2> QED BY <2>1, <2>2, <2>4, CountersKept, ReadStep
<1>3. CASE ForgotSave(h)
  <2>1. PICK l :
            /\ t.at = "forgot_save" /\ Continue(h, Idle)
            /\ l = NewId(links) /\ \E k \in LinkIds : links[k] = None
            /\ links' = [links EXCEPT ![l] = [user |-> t.user, isUsed |-> FALSE]]
            /\ recent' = [recent EXCEPT ![t.user].requests = recent[t.user].requests + 1]
            /\ UNCHANGED <<users, sessions, history>> /\ UNCHANGED counters
    BY <1>0, <1>3 DEF ForgotSave, At, Finish
  <2>2. t.user \in Users /\ Registered(t.user)
    BY <1>0, <2>1, TaskFields DEF TaskJustified
  <2>3. PICK row : row = [user |-> t.user, isUsed |-> FALSE]
    OBVIOUS
  <2>31. row \in PasswordResetRequest /\ row.user = t.user
    BY <2>2, <2>3 DEF PasswordResetRequest
  <2>4. row # None
    BY <2>31, RowAssumption
  <2>5. /\ links' \in [LinkIds -> PasswordResetRequest \cup {None}]
        /\ \A k \in LinkIds : links'[k] = links[k] \/ links'[k] = row
    BY <2>1, <2>3, <2>31 DEF IInv, TypeOK
  <2>6. recent' \in [Users -> Recent]
    <3>1. recent[t.user] \in Recent
      BY <2>2 DEF IInv, TypeOK
    <3>2. recent[t.user].requests + 1 \in Nat
      BY <3>1 DEF Recent
    <3> QED BY <2>1, <2>2, <3>1, <3>2 DEF IInv, TypeOK, Recent
  <2>7. Grows
    BY <2>1, <2>4, <2>5 DEF Grows, Registered, history
  <2>8. RowsJustified'
    BY <2>1, <2>2, <2>31, <2>5
       DEF IInv, RowsJustified, SessionJustified, UserJustified, Registered, history
  <2>9. TablesTyped' /\ HistoryTyped'
    BY <2>1, <2>5, <2>6 DEF IInv, TypeOK, TablesTyped, HistoryTyped, history
  <2>10. Idle \in Task /\ TaskJustified(Idle)'
    BY TaskForms DEF TaskJustified, Idle
  <2> QED BY <2>1, <2>7, <2>8, <2>9, <2>10, CountersKept, StoreStep
<1>4. CASE ResetSave(h)
  <2>1. PICK u, next :
            /\ t.at = "reset_save" /\ Continue(h, next)
            /\ u = links[t.link].user /\ next = [at |-> "reset_revoke", user |-> u]
            /\ users' = [users EXCEPT ![u] = t.row]
            /\ links' = [links EXCEPT ![t.link].isUsed = TRUE]
            /\ uses' = [uses EXCEPT ![t.link] = uses[t.link] + 1]
            /\ UNCHANGED <<sessions, recent, issued, opened, readmitted>> /\ UNCHANGED counters
    BY <1>0, <1>4 DEF ResetSave, At
  <2>2. /\ t.link \in LinkIds /\ t.row \in User /\ ~PastLockOut(t.row)
        /\ links[t.link] \in PasswordResetRequest /\ u \in Users /\ Registered(u)
    BY <1>0, <2>1, TaskFields, RowFields DEF TaskJustified
  <2>3. PICK row : row = [links[t.link] EXCEPT !.isUsed = TRUE]
    OBVIOUS
  <2>31. row \in PasswordResetRequest /\ row.user = u
    BY <2>1, <2>2, <2>3 DEF PasswordResetRequest
  <2>4. row # None /\ t.row # None
    BY <2>2, <2>31, RowAssumption
  <2>5. /\ links' \in [LinkIds -> PasswordResetRequest \cup {None}]
        /\ \A k \in LinkIds : k # t.link => links'[k] = links[k]
        /\ links'[t.link] = row
    BY <2>1, <2>2, <2>3, <2>31 DEF IInv, TypeOK
  <2>6. /\ users' \in [Users -> User \cup {None}]
        /\ \A v \in Users : v # u => users'[v] = users[v]
        /\ users'[u] = t.row
    BY <2>1, <2>2 DEF IInv, TypeOK
  <2>7. Grows
    BY <2>1, <2>4, <2>5, <2>6 DEF Grows, Registered
  <2>8. RowsJustified'
    <3>1. \A s \in SessionIds : sessions[s] # None => sessions[s].user \in Users
      BY RowFields DEF AuthSession
    <3>2. \A k \in LinkIds : links'[k] # None => Registered(links[k].user)'
      <4>1. SUFFICES ASSUME NEW k \in LinkIds, links'[k] # None
                     PROVE  Registered(links[k].user)'
        OBVIOUS
      <4>2. CASE k = t.link
        BY <2>2, <2>31, <2>5, <2>7, <4>2 DEF Grows, Registered
      <4>3. CASE k # t.link
        BY <2>5, <2>7, <4>1, <4>3, RowFields DEF Grows, Registered
      <4> QED BY <4>2, <4>3
    <3> QED BY <2>1, <2>2, <2>6, <2>7, <3>1, <3>2, RowFields
            DEF IInv, RowsJustified, SessionJustified, UserJustified, Grows
  <2>9. TablesTyped' /\ HistoryTyped'
    BY <2>1, <2>2, <2>5, <2>6 DEF IInv, TypeOK, TablesTyped, HistoryTyped
  <2>10. next \in Task /\ TaskJustified(next)'
    BY <2>1, <2>2, <2>7, TaskForms DEF TaskJustified, Grows
  <2> QED BY <2>1, <2>7, <2>8, <2>9, <2>10, CountersKept, StoreStep
<1>5. CASE ResetRevoke(h)
  <2>1. /\ t.at = "reset_revoke" /\ Continue(h, Idle)
        /\ RevokeAll(t.user, None)
        /\ UNCHANGED <<users, links, recent, history>> /\ UNCHANGED counters
    BY <1>0, <1>5 DEF ResetRevoke, At, Finish
  <2>2. Grows /\ RowsJustified' /\ sessions' \in [SessionIds -> AuthSession \cup {None}]
    BY <2>1, RevokeStep DEF history
  <2>3. TablesTyped' /\ HistoryTyped'
    BY <2>1, <2>2 DEF IInv, TypeOK, TablesTyped, HistoryTyped, history
  <2>4. Idle \in Task /\ TaskJustified(Idle)'
    BY TaskForms DEF TaskJustified, Idle
  <2> QED BY <2>1, <2>2, <2>3, <2>4, CountersKept, StoreStep
<1> QED BY <1>1, <1>2, <1>3, <1>4, <1>5


\* Time, and requests that are cut short.
LEMMA ElapseKeepsIInv == IInv /\ Elapse => IInv'
<1> SUFFICES ASSUME IInv, Elapse PROVE IInv'
  OBVIOUS
<1>1. UNCHANGED <<users, sessions, links, task, history, counters>>
  BY DEF Elapse
<1>2. recent' \in [Users -> Recent]
  <2>1. ASSUME NEW u \in Users, NEW w \in Windows, NEW kind \in {"tried", "limited"},
               recent[u][kind][w] > 0,
               recent' = [recent EXCEPT ![u][kind][w] = recent[u][kind][w] - 1]
        PROVE  recent' \in [Users -> Recent]
    <3>1. recent[u] \in Recent
      BY DEF IInv, TypeOK
    <3>2. recent[u][kind][w] - 1 \in Nat
      BY <2>1, <3>1 DEF Recent
    <3>3. [recent[u][kind] EXCEPT ![w] = recent[u][kind][w] - 1] \in [Windows -> Nat]
      BY <3>1, <3>2 DEF Recent
    <3> QED BY <2>1, <3>1, <3>3 DEF IInv, TypeOK, Recent
  <2>2. ASSUME NEW u \in Users, NEW kind \in {"changes", "requests"},
               recent[u][kind] > 0,
               recent' = [recent EXCEPT ![u][kind] = recent[u][kind] - 1]
        PROVE  recent' \in [Users -> Recent]
    <3>1. recent[u] \in Recent
      BY DEF IInv, TypeOK
    <3>2. recent[u][kind] - 1 \in Nat
      BY <2>2, <3>1 DEF Recent
    <3> QED BY <2>2, <3>1, <3>2 DEF IInv, TypeOK, Recent
  <2> QED BY <2>1, <2>2 DEF Elapse
<1> QED BY <1>1, <1>2
        DEF IInv, TypeOK, RowsJustified, TaskJustified, SessionJustified, UserJustified,
            Registered, history, counters

LEMMA FailKeepsIInv ==
    ASSUME IInv, NEW h \in Handlers, Fail(h)
    PROVE  IInv'
<1>1. /\ Continue(h, Idle) /\ failures < MaxFailures /\ failures' = failures + 1
      /\ UNCHANGED <<tables, history>> /\ UNCHANGED <<overlaps, requests>>
  BY DEF Fail, Finish
<1>2. CountersTyped'
  BY <1>1, AuthAssumption DEF IInv, TypeOK, CountersTyped
<1>3. Idle \in Task /\ TaskJustified(Idle)
  BY TaskForms DEF TaskJustified, Idle, HasUser, HoldsSession, HoldsUser
<1> QED BY <1>1, <1>2, <1>3, ReadStep

LEMMA InvInit == Init => IInv
<1> SUFFICES ASSUME Init PROVE IInv
  OBVIOUS
<1>1. NothingRecent \in Recent
  BY DEF NothingRecent, Recent
<1>2. TypeOK
  BY <1>1, AuthAssumption, TaskForms DEF Init, TypeOK
<1>3. \A h \in Handlers : TaskJustified(task[h])
  BY DEF Init, TaskJustified, Idle, HasUser, HoldsSession, HoldsUser
<1> QED BY <1>2, <1>3 DEF Init, IInv, RowsJustified

LEMMA Invariance == IInv /\ [Next]_vars => IInv'
<1> SUFFICES ASSUME IInv, [Next]_vars PROVE IInv'
  OBVIOUS
<1>1. ASSUME NEW h \in Handlers, Begin(h) PROVE IInv'
  BY <1>1, ArrivalKeepsIInv
<1>2. ASSUME NEW h \in Handlers, Proceed(h) PROVE IInv'
  BY <1>2, LoginKeepsIInv, SessionKeepsIInv, ChangeKeepsIInv, LinkKeepsIInv DEF Proceed
<1>3. ASSUME NEW h \in Handlers, Fail(h) PROVE IInv'
  BY <1>3, FailKeepsIInv
<1>4. CASE UNCHANGED vars
  BY <1>4
     DEF vars, tables, history, counters, IInv, TypeOK, RowsJustified, TaskJustified,
         SessionJustified, UserJustified, Registered
<1> QED BY <1>1, <1>2, <1>3, <1>4, ElapseKeepsIInv DEF Next

-----------------------------------------------------------------------------
(***************************************************************************)
(* Theorems of every interleaving                                          *)
(***************************************************************************)
LEMMA Invariant == Spec => []IInv
BY InvInit, Invariance, PTL DEF Spec

\* Rows, and the copies of them that requests save later, have the columns and the values of
\* their entities, however logins, refreshes, changes and resets overlap (AuthService).
THEOREM TypeCorrect == Spec => []TypeOK
<1>1. IInv => TypeOK
  BY DEF IInv
<1> QED BY <1>1, Invariant, PTL

\* A session is active just when it has the hashes its tokens are compared with, though every
\* request that touches a session saves the row it has read (AuthService.buildAuthResponse,
\* validateAccessSession, revokeAllUserSessions).
THEOREM TokensMatch == Spec => []TokensGoWithActivity
<1>1. IInv => TokensGoWithActivity
  BY DEF IInv, RowsJustified, SessionJustified, TokensGoWithActivity
<1> QED BY <1>1, Invariant, PTL

\* Only an administrator leaves an account active after more than the allowed wrong passwords:
\* a login, a change or a reset that saves an older copy of the user never does
\* (AuthService.login, changePassword, resetPassword).
THEOREM LockedOut == Spec => []LockOut
<1>1. IInv => LockOut
  BY DEF IInv, RowsJustified, UserJustified, LockOut
<1> QED BY <1>1, Invariant, PTL


-----------------------------------------------------------------------------
(***************************************************************************)
(* Requests that take turns: a second invariant, of what a request that is *)
(* alone knows                                                             *)
(***************************************************************************)
\* The copies it holds are copies of what is stored.
Current(t) ==
    /\ t.at = "session_save" /\ t.session # None =>
           sessions[t.session] # None /\ sessions[t.session].isActive
    /\ t.at = "validate_save" => sessions[t.session] = t.row /\ t.row.isActive
    /\ t.at \in {"login_failed", "login_lock", "login_save", "access_save"} =>
           users[t.user] # None /\ t.row.password = users[t.user].password
    /\ t.at \in {"change_find", "change_count", "change_save", "change_record",
                 "change_revoke"} =>
           sessions[t.session] # None /\ sessions[t.session].user = t.user

\* The stops between the save of a new password and the revocation of the sessions.
Unrevoked == {"change_record", "change_revoke", "reset_revoke"}

Opened(s) == opened[s] = users[sessions[s].user].password

\* The active sessions were opened with the password of their user, or are about to be revoked.
Fresh ==
    \A s \in SessionIds : sessions[s] # None /\ sessions[s].isActive =>
        \/ Opened(s)
        \/ \E h \in Handlers : task[h].at \in Unrevoked /\ task[h].user = sessions[s].user

SerialInv ==
    overlaps = 0 =>
        /\ \A g, h \in Handlers : ~At(g, "idle") /\ ~At(h, "idle") => g = h
        /\ \A h \in Handlers : Current(task[h])
        /\ failures = 0 => Fresh

\* A step of handler h, when no request has overlapped another.
Alone(h) ==
    /\ overlaps = 0 /\ overlaps' = 0
    /\ \A g \in Handlers : g # h => At(g, "idle")
    /\ \A g \in Handlers : Current(task[g])
    /\ failures = 0 => Fresh

LEMMA ArriveAlone ==
    ASSUME IInv, SerialInv, overlaps' = 0, NEW h \in Handlers, NEW next, Arrive(h, next)
    PROVE  Alone(h) /\ At(h, "idle") /\ Continue(h, next)
<1>1. overlaps \in Nat
  BY DEF IInv, TypeOK
<1>2. overlaps = 0 /\ \A g \in Handlers : At(g, "idle")
  BY <1>1 DEF Arrive
<1> QED BY <1>2 DEF Arrive, Alone, SerialInv

LEMMA ProceedAlone ==
    ASSUME IInv, SerialInv, overlaps' = 0, NEW h \in Handlers, ~At(h, "idle"),
           UNCHANGED overlaps
    PROVE  Alone(h)
BY DEF Alone, SerialInv

\* While nothing waits to be revoked, every active session is opened with its password.
LEMMA AloneOpened ==
    ASSUME NEW h \in Handlers, Alone(h), task[h].at \notin Unrevoked, failures = 0,
           NEW s \in SessionIds, sessions[s] # None, sessions[s].isActive
    PROVE  Opened(s)
BY DEF Alone, Fresh, Unrevoked, At

LEMMA AloneStep ==
    ASSUME IInv, NEW h \in Handlers, Alone(h), NEW next, Continue(h, next),
           Current(next)', failures' = 0 => Fresh'
    PROVE  SerialInv'
<1>1. /\ task'[h] = next
      /\ \A g \in Handlers : g # h => task'[g] = task[g] /\ task'[g].at = "idle"
  BY ContinueTask DEF IInv, TypeOK, Alone, At
<1>2. \A g, k \in Handlers : ~At(g, "idle")' /\ ~At(k, "idle")' => g = k
  BY <1>1 DEF At
<1>3. ASSUME NEW g \in Handlers PROVE Current(task[g])'
  <2>1. CASE g = h
    BY <1>1, <2>1 DEF Current
  <2>2. CASE g # h
    BY <1>1, <2>2 DEF Current
  <2> QED BY <2>1, <2>2
<1> QED BY <1>2, <1>3 DEF SerialInv

\* A step that saves no user and no session.
LEMMA AloneRead ==
    ASSUME IInv, NEW h \in Handlers, Alone(h), NEW next, Continue(h, next), Current(next),
           task[h].at \notin Unrevoked, UNCHANGED <<users, sessions, opened, failures>>
    PROVE  SerialInv'
<1>1. Current(next)'
  BY DEF Current
<1>2. failures' = 0 => Fresh'
  BY AloneOpened DEF Fresh, Opened
<1> QED BY <1>1, <1>2, AloneStep

\* A step that saves a user with the password it has, or one that has no session.
LEMMA AloneUser ==
    ASSUME IInv, NEW h \in Handlers, Alone(h), NEW next, Continue(h, next), Current(next)',
           task[h].at \notin Unrevoked,
           NEW u \in Users, NEW row, users' = [users EXCEPT ![u] = row],
           users[u] = None \/ row.password = users[u].password,
           UNCHANGED <<sessions, opened, failures>>
    PROVE  SerialInv'
<1>1. SUFFICES ASSUME failures' = 0, NEW s \in SessionIds,
                      sessions'[s] # None /\ sessions'[s].isActive
               PROVE  Opened(s)'
  BY AloneStep DEF Fresh
<1>2. Opened(s) /\ sessions[s].user \in Users /\ users[sessions[s].user] # None
  BY <1>1, AloneOpened, RowFields DEF AuthSession, SessionJustified, Registered
<1>3. users'[sessions[s].user].password = users[sessions[s].user].password
  BY <1>2 DEF IInv, TypeOK
<1> QED BY <1>2, <1>3 DEF Opened

\* A step after which the password of u is new and its sessions are about to be revoked.
LEMMA AloneChange ==
    ASSUME IInv, NEW h \in Handlers, Alone(h), NEW next, Continue(h, next), Current(next)',
           NEW u \in Users, next.at \in Unrevoked, next.user = u,
           task[h].at \in Unrevoked => task[h].user = u,
           \A v \in Users \ {u} : users'[v] = users[v],
           UNCHANGED <<sessions, opened, failures>>
    PROVE  SerialInv'
<1>1. task'[h] = next
  BY ContinueTask DEF IInv, TypeOK
<1>2. SUFFICES ASSUME failures' = 0, NEW s \in SessionIds,
                      sessions'[s] # None /\ sessions'[s].isActive, sessions[s].user # u
               PROVE  Opened(s)'
  BY <1>1, AloneStep DEF Fresh
<1>3. Opened(s)
  BY <1>2 DEF Alone, Fresh, Unrevoked, At
<1>4. sessions[s].user \in Users
  BY <1>2, RowFields DEF AuthSession
<1> QED BY <1>2, <1>3, <1>4 DEF Opened

\* A step that saves sessions, each of which ends inactive, as it was, or opened now.
LEMMA AloneSession ==
    ASSUME IInv, NEW h \in Handlers, Alone(h), NEW next, Continue(h, next), Current(next)',
           task[h].at \notin Unrevoked, UNCHANGED <<users, failures>>,
           \A s \in SessionIds : sessions'[s] # None /\ sessions'[s].isActive =>
               \/ Opened(s)'
               \/ sessions'[s] = sessions[s] /\ opened'[s] = opened[s]
    PROVE  SerialInv'
<1>1. SUFFICES ASSUME failures' = 0, NEW s \in SessionIds,
                      sessions'[s] # None /\ sessions'[s].isActive,
                      sessions'[s] = sessions[s] /\ opened'[s] = opened[s]
               PROVE  Opened(s)'
  BY AloneStep DEF Fresh
<1> QED BY <1>1, AloneOpened DEF Opened


LEMMA AccessKeepsPassword ==
    ASSUME NEW user \in User, NEW dto
    PROVE  WithAccess(user, dto).password = user.password
BY DEF WithAccess, User

\* The requests that arrive.
LEMMA ArrivalKeepsSerial ==
    ASSUME IInv, SerialInv, overlaps' = 0, NEW h \in Handlers, Begin(h)
    PROVE  SerialInv'
<1> USE DEF Unrevoked, At
<1>1. ASSUME NEW u \in Users, NEW dto \in RegisterUserDto, NEW device \in Devices,
             Register(h, u, dto, device)
      PROVE  SerialInv'
  <2> DEFINE next == [at |-> "session_find", user |-> u, device |-> device, bearer |-> None]
  <2>1. Alone(h) /\ At(h, "idle") /\ Continue(h, next)
    BY <1>1, ArriveAlone DEF Register
  <2>2. PICK row : users' = [users EXCEPT ![u] = row]
    BY <1>1 DEF Register, SaveUser
  <2>3. users[u] = None /\ UNCHANGED <<sessions, opened, failures>>
    BY <1>1 DEF Register, SaveUser, Arrive, history
  <2>4. Current(next)'
    BY DEF Current
  <2> HIDE DEF next
  <2> QED BY <2>1, <2>2, <2>3, <2>4, AloneUser
<1>2. ASSUME NEW next, Arrive(h, next), Current(next), UNCHANGED <<tables, history>>
      PROVE  SerialInv'
  <2>1. Alone(h) /\ At(h, "idle") /\ Continue(h, next) /\ UNCHANGED failures
    BY <1>2, ArriveAlone DEF Arrive
  <2> QED BY <1>2, <2>1, AloneRead DEF tables, history
<1>3. ASSUME NEW u \in Users, NEW password \in Passwords, NEW device \in Devices, NEW bearer,
             Login(h, u, password, device, bearer)
      PROVE  SerialInv'
  <2>1. PICK next : /\ Arrive(h, next) /\ next.at \in {"login_limited", "login_find"}
                    /\ UNCHANGED <<tables, history>>
    BY <1>3 DEF Login
  <2> QED BY <1>2, <2>1 DEF Current
<1>4. ASSUME NEW u \in Users, NEW s \in SessionIds, NEW device \in Devices,
             RefreshToken(h, u, s, device)
      PROVE  SerialInv'
  BY <1>2, <1>4 DEF RefreshToken, Current
<1>5. ASSUME NEW u \in Users, NEW s \in SessionIds, NEW sequel \in Sequel,
             Authenticate(h, u, s, sequel)
      PROVE  SerialInv'
  BY <1>2, <1>5 DEF Authenticate, Current
<1>6. ASSUME NEW u \in Users, NEW dto \in AccessDtos, UpdateUserAccess(h, u, dto)
      PROVE  SerialInv'
  <2> DEFINE next == [at |-> "access_save", user |-> u, row |-> WithAccess(users[u], dto)]
  <2>1. users[u] # None /\ WithAccess(users[u], dto).password = users[u].password
    BY <1>6, RowFields, AccessKeepsPassword DEF UpdateUserAccess
  <2>2. Current(next)
    BY <2>1 DEF Current
  <2> QED BY <1>2, <1>6, <2>2 DEF UpdateUserAccess
<1>7. ASSUME NEW u \in Users, ForgotPassword(h, u) PROVE SerialInv'
  BY <1>2, <1>7 DEF ForgotPassword, Current
<1>8. ASSUME NEW l \in LinkIds, NEW password \in Passwords, ResetPassword(h, l, password)
      PROVE  SerialInv'
  BY <1>2, <1>8 DEF ResetPassword, Current
<1> QED BY <1>1, <1>3, <1>4, <1>5, <1>6, <1>7, <1>8 DEF Begin, BeginLogin, LoginForSwagger


\* The steps of a login, up to its session.
LEMMA LoginKeepsSerial ==
    ASSUME IInv, SerialInv, overlaps' = 0, NEW h \in Handlers,
           \/ LoginLimited(h) \/ LoginFind(h) \/ LoginFailed(h) \/ LoginLock(h) \/ LoginSave(h)
    PROVE  SerialInv'
<1> USE DEF Unrevoked, At
<1>0. PICK t : t = task[h] /\ t \in Task /\ TaskJustified(t)
  BY RowFields
<1>a. Alone(h) /\ Current(t) /\ UNCHANGED <<sessions, opened, failures>>
  <2>1. ~At(h, "idle") /\ UNCHANGED <<sessions, history, counters>>
    BY DEF LoginLimited, LoginFind, LoginFailed, LoginLock, LoginSave, SaveUser, ReadOnly, tables
  <2> QED BY <1>0, <2>1, ProceedAlone DEF Alone, history, counters
<1>1. CASE LoginLimited(h)
  BY <1>a, <1>1, AloneRead DEF LoginLimited, Finish, Idle, Current
<1>2. CASE LoginFind(h)
  <2> DEFINE user == users[t.user]
  <2>1. t.at = "login_find" /\ UNCHANGED users
    BY <1>0, <1>2 DEF LoginFind, ReadOnly, tables
  <2>2. user # None => user \in User
    BY <1>0, <2>1, TaskFields, RowFields
  <2>3. PICK next : Continue(h, next) /\
            \/ next = Idle
            \/ next = [at |-> "login_unknown", user |-> t.user]
            \/ user # None /\ next = [at |-> "login_save", user |-> t.user, device |-> t.device,
                                      bearer |-> t.bearer,
                                      row |-> [user EXCEPT !.failedLoginAttempts = 0]]
            \/ user # None /\ next = [at |-> "login_failed", user |-> t.user, row |-> user]
    BY <1>0, <1>2 DEF LoginFind
  <2>4. user # None => [user EXCEPT !.failedLoginAttempts = 0].password = user.password
    BY <2>2 DEF User
  <2>5. Current(next)
    <3>1. CASE next = Idle
      BY <3>1 DEF Current, Idle
    <3>2. CASE next = [at |-> "login_unknown", user |-> t.user]
      BY <3>2 DEF Current
    <3>3. CASE user # None /\ next = [at |-> "login_save", user |-> t.user,
                                     device |-> t.device, bearer |-> t.bearer,
                                     row |-> [user EXCEPT !.failedLoginAttempts = 0]]
      <4> PICK row : row = [user EXCEPT !.failedLoginAttempts = 0]
        OBVIOUS
      <4>1. next.at = "login_save" /\ next.user = t.user /\ next.row = row
        BY <3>3
      <4> QED BY <2>4, <3>3, <4>1 DEF Current
    <3>4. CASE user # None /\ next = [at |-> "login_failed", user |-> t.user, row |-> user]
      BY <3>4 DEF Current
    <3> QED BY <2>3, <3>1, <3>2, <3>3, <3>4
  <2> QED BY <1>0, <1>a, <2>1, <2>3, <2>5, AloneRead
<1>3. CASE LoginFailed(h)
  <2>1. t.at \in {"login_unknown", "login_failed"} /\ UNCHANGED users
    BY <1>0, <1>3 DEF LoginFailed
  <2>2. PICK next : Continue(h, next) /\
            \/ next = Idle
            \/ /\ t.at = "login_failed"
               /\ next = [at |-> "login_lock", user |-> t.user, row |-> WithFailure(t.row)]
    BY <1>0, <1>3 DEF LoginFailed
  <2>3. t.at = "login_failed" => WithFailure(t.row).password = t.row.password
    BY <1>0, TaskFields DEF WithFailure, User
  <2>4. Current(next)
    BY <1>a, <2>2, <2>3 DEF Current, Idle
  <2> QED BY <1>0, <1>a, <2>1, <2>2, <2>4, AloneRead
<1>4. CASE LoginLock(h)
  <2>1. /\ t.at = "login_lock" /\ Continue(h, Idle)
        /\ users' = [users EXCEPT ![t.user] = t.row]
    BY <1>0, <1>4 DEF LoginLock, Finish, SaveUser
  <2>2. t.user \in Users /\ t.row.password = users[t.user].password
    BY <1>0, <1>a, <2>1, TaskFields DEF Current
  <2>3. Current(Idle)'
    BY DEF Current, Idle
  <2> QED BY <1>0, <1>a, <2>1, <2>2, <2>3, AloneUser
<1>5. CASE LoginSave(h)
  <2> DEFINE next == [at |-> "session_find", user |-> t.user, device |-> t.device,
                      bearer |-> t.bearer]
  <2>1. /\ t.at = "login_save" /\ Continue(h, next)
        /\ users' = [users EXCEPT ![t.user] = t.row]
    BY <1>0, <1>5 DEF LoginSave, SaveUser
  <2>2. t.user \in Users /\ t.row.password = users[t.user].password
    BY <1>0, <1>a, <2>1, TaskFields DEF Current
  <2>3. Current(next)'
    BY DEF Current
  <2> HIDE DEF next
  <2> QED BY <1>0, <1>a, <2>1, <2>2, <2>3, AloneUser
<1> QED BY <1>1, <1>2, <1>3, <1>4, <1>5


\* What the revocation and the issue of a session leave of it.
LEMMA SessionActivity ==
    ASSUME NEW row \in AuthSession, NEW device
    PROVE  /\ ~Revoked(row).isActive /\ Revoked(row).user = row.user
           /\ Issued(row, device).isActive /\ Issued(row, device).user = row.user
BY DEF AuthSession, Revoked, Issued

\* The steps that find a session.
LEMMA FindKeepsSerial ==
    ASSUME IInv, SerialInv, overlaps' = 0, NEW h \in Handlers,
           \/ SessionFind(h) \/ SessionCount(h) \/ SessionOldest(h)
           \/ RefreshFind(h) \/ ValidateFind(h)
    PROVE  SerialInv'
<1> USE DEF Unrevoked, At
<1>0. PICK t : t = task[h] /\ t \in Task /\ TaskJustified(t)
  BY RowFields
<1>a. /\ Alone(h) /\ UNCHANGED <<users, sessions, opened, failures>>
      /\ t.at \in {"session_find", "session_count", "session_oldest", "refresh_find",
                   "validate_find"}
  <2>1. /\ ~At(h, "idle") /\ UNCHANGED <<tables, history, counters>>
        /\ t.at \in {"session_find", "session_count", "session_oldest", "refresh_find",
                     "validate_find"}
    BY <1>0
       DEF SessionFind, SessionCount, SessionOldest, RefreshFind, ValidateFind, ReadOnly
  <2> QED BY <2>1, ProceedAlone DEF tables, history, counters
<1>1. \A s \in ActiveSessions(t.user) :
          /\ s \in SessionIds /\ sessions[s] # None /\ sessions[s] \in AuthSession
          /\ sessions[s].isActive
  BY RowFields DEF ActiveSessions, SessionsOf
<1> DEFINE Found(next) ==
               \/ next.at \in {"idle", "session_count", "session_oldest"}
               \/ next.at = "session_save" /\ next.session = None
               \/ \E s \in ActiveSessions(t.user) :
                      /\ next.session = s
                      /\ \/ next.at = "session_save"
                         \/ /\ next.at \in {"session_mismatch", "session_replace"}
                            /\ next.row = Revoked(sessions[s])
                         \/ next.at = "validate_save" /\ next.row = sessions[s]
<1>2. PICK next : Continue(h, next) /\ Found(next)
  <2>1. CASE SessionFind(h)
    <3>1. PICK next : Continue(h, next) /\
              \/ next = [at |-> "session_count", user |-> t.user, device |-> t.device]
              \/ \E s \in ActiveSessions(t.user) :
                     \/ next = [at |-> "session_save", session |-> s,
                                row |-> Issued(sessions[s], t.device)]
                     \/ next = [at |-> "session_mismatch", session |-> s,
                                row |-> Revoked(sessions[s]), device |-> t.device]
      BY <1>0, <2>1 DEF SessionFind
    <3> QED BY <3>1
  <2>2. CASE SessionCount(h)
    <3>1. PICK next : Continue(h, next) /\
              \/ next = [at |-> "session_oldest", user |-> t.user, device |-> t.device]
              \/ next = [at |-> "session_save", session |-> None,
                         row |-> NewSession(t.user, t.device)]
      BY <1>0, <2>2 DEF SessionCount
    <3> QED BY <3>1
  <2>3. CASE SessionOldest(h)
    <3>1. PICK next : Continue(h, next) /\
              \/ next = [at |-> "session_save", session |-> None,
                         row |-> NewSession(t.user, t.device)]
              \/ \E s \in ActiveSessions(t.user) :
                     next = [at |-> "session_replace", session |-> s,
                             row |-> Revoked(sessions[s]), device |-> t.device]
      BY <1>0, <2>3 DEF SessionOldest
    <3> QED BY <3>1
  <2>4. CASE RefreshFind(h)
    <3>1. PICK next : Continue(h, next) /\
              \/ next = Idle
              \/ /\ t.session \in ActiveSessions(t.user)
                 /\ next = [at |-> "session_save", session |-> t.session,
                            row |-> Issued(sessions[t.session], t.device)]
      BY <1>0, <2>4 DEF RefreshFind
    <3> QED BY <3>1 DEF Idle
  <2>5. CASE ValidateFind(h)
    <3>1. PICK next : Continue(h, next) /\
              \/ next = Idle
              \/ /\ t.session \in ActiveSessions(t.user)
                 /\ next = [at |-> "validate_save", session |-> t.session,
                            row |-> sessions[t.session], sequel |-> t.sequel]
      BY <1>0, <2>5 DEF ValidateFind
    <3> QED BY <3>1 DEF Idle
  <2> QED BY <2>1, <2>2, <2>3, <2>4, <2>5
<1>3. Current(next)
  BY <1>1, <1>2, SessionActivity DEF Current
<1> QED BY <1>0, <1>a, <1>2, <1>3, AloneRead


\* The steps that save a session.
LEMMA SaveKeepsSerial ==
    ASSUME IInv, SerialInv, overlaps' = 0, NEW h \in Handlers,
           \/ SessionMismatch(h) \/ SessionReplace(h) \/ SessionSave(h) \/ ValidateSave(h)
    PROVE  SerialInv'
<1> USE DEF Unrevoked, At
<1>0. PICK t : t = task[h] /\ t \in Task /\ TaskJustified(t)
  BY RowFields
<1>a. /\ Alone(h) /\ Current(t) /\ UNCHANGED <<users, failures>>
      /\ t.at \in HoldsSession /\ t.row \in AuthSession
  <2>1. /\ ~At(h, "idle") /\ UNCHANGED <<users, counters>> /\ t.at \in HoldsSession
    BY <1>0
       DEF SessionMismatch, SessionReplace, SessionSave, ValidateSave, SaveSession, HoldsSession
  <2>2. Alone(h) /\ Current(t)
    BY <1>0, <2>1, ProceedAlone DEF counters, Alone
  <2> QED BY <1>0, <2>1, <2>2, TaskFields DEF counters
<1>1. \A s \in SessionIds : \A row : sessions' = [sessions EXCEPT ![s] = row] =>
          sessions'[s] = row /\ \A r \in SessionIds : r # s => sessions'[r] = sessions[r]
  BY DEF IInv, TypeOK
<1>2. CASE SessionMismatch(h) \/ SessionReplace(h)
  <2>1. PICK next :
            /\ Continue(h, next) /\ next.at \in {"session_count", "session_save"}
            /\ next.at = "session_save" => next.session = None
            /\ t.at \in {"session_mismatch", "session_replace"}
            /\ sessions' = [sessions EXCEPT ![t.session] = t.row] /\ UNCHANGED opened
    <3>1. CASE SessionMismatch(h)
      BY <1>0, <3>1 DEF SessionMismatch, SaveSession, history
    <3>2. CASE SessionReplace(h)
      BY <1>0, <3>2 DEF SessionReplace, SaveSession, history
    <3> QED BY <1>2, <3>1, <3>2
  <2>2. t.session \in SessionIds /\ ~t.row.isActive
    BY <1>0, <2>1, TaskFields DEF TaskJustified
  <2>3. Current(next)'
    BY <2>1 DEF Current
  <2> QED BY <1>0, <1>1, <1>a, <2>1, <2>2, <2>3, AloneSession
<1>3. CASE SessionSave(h)
  <2>1. PICK s :
            /\ t.at = "session_save" /\ Continue(h, Idle)
            /\ s = IF t.session = None THEN NewId(sessions) ELSE t.session
            /\ t.session = None => \E r \in SessionIds : sessions[r] = None
            /\ sessions' = [sessions EXCEPT ![s] = t.row]
            /\ opened' = [opened EXCEPT ![s] = users[t.row.user].password]
    BY <1>0, <1>3 DEF SessionSave, SaveSession, Finish
  <2>2. s \in SessionIds
    <3>1. t.session \in SessionIds \cup {None}
      BY <1>0, <2>1, TaskFields
    <3>2. DOMAIN sessions = SessionIds
      BY DEF IInv, TypeOK
    <3> QED BY <2>1, <3>1, <3>2 DEF NewId
  <2>3. /\ opened'[s] = users[t.row.user].password
        /\ \A r \in SessionIds : r # s => opened'[r] = opened[r]
    BY <2>1, <2>2 DEF IInv, TypeOK
  <2>4. sessions'[s] = t.row /\ \A r \in SessionIds : r # s => sessions'[r] = sessions[r]
    BY <1>1, <2>1, <2>2
  <2>5. Opened(s)'
    BY <1>a, <2>3, <2>4 DEF Opened
  <2>6. Current(Idle)'
    BY DEF Current, Idle
  <2>7. \A r \in SessionIds :
            \/ Opened(r)'
            \/ sessions'[r] = sessions[r] /\ opened'[r] = opened[r]
    BY <2>3, <2>4, <2>5
  <2> QED BY <1>0, <1>a, <2>1, <2>6, <2>7, AloneSession
<1>4. CASE ValidateSave(h)
  <2>1. PICK next :
            /\ t.at = "validate_save" /\ Continue(h, next)
            /\ \/ next = Idle
               \/ next = [at |-> "change_find", user |-> t.row.user, session |-> t.session,
                          sequel |-> t.sequel]
            /\ sessions' = [sessions EXCEPT ![t.session] = t.row] /\ UNCHANGED opened
    BY <1>0, <1>4 DEF ValidateSave, SaveSession, history
  <2>2. t.session \in SessionIds /\ sessions[t.session] = t.row /\ t.row # None
    BY <1>0, <1>a, <2>1, TaskFields, RowAssumption DEF Current
  <2>3. \A r \in SessionIds : sessions'[r] = sessions[r] /\ opened'[r] = opened[r]
    BY <1>1, <2>1, <2>2
  <2>4. Current(next)'
    BY <2>1, <2>2, <2>3 DEF Current, Idle
  <2> QED BY <1>0, <1>a, <2>1, <2>3, <2>4, AloneSession
<1> QED BY <1>2, <1>3, <1>4

\* The steps of a password change.
LEMMA ChangeKeepsSerial ==
    ASSUME IInv, SerialInv, overlaps' = 0, NEW h \in Handlers,
           \/ ChangeFind(h) \/ ChangeCount(h) \/ ChangeSave(h) \/ ChangeRecord(h)
           \/ ChangeRevoke(h)
    PROVE  SerialInv'
<1> USE DEF At
<1>0. PICK t : t = task[h] /\ t \in Task /\ TaskJustified(t)
  BY RowFields
<1> DEFINE Own(v) == sessions[t.session] # None /\ sessions[t.session].user = v
<1>a. /\ Alone(h) /\ UNCHANGED failures
      /\ t.at \in {"change_find", "change_count", "change_save", "change_record",
                   "change_revoke"}
      /\ t.user \in Users /\ t.session \in SessionIds /\ Own(t.user)
  <2>1. /\ ~At(h, "idle") /\ UNCHANGED counters
        /\ t.at \in {"change_find", "change_count", "change_save", "change_record",
                     "change_revoke"}
    BY <1>0 DEF ChangeFind, ChangeCount, ChangeSave, ChangeRecord, ChangeRevoke, ReadOnly
  <2>2. Alone(h) /\ Current(t)
    BY <1>0, <2>1, ProceedAlone DEF counters, Alone
  <2> QED BY <1>0, <2>1, <2>2, TaskFields DEF counters, Current
<1>1. CASE ChangeFind(h) \/ ChangeCount(h)
  <2>1. PICK next :
            /\ Continue(h, next)
            /\ \/ next = Idle
               \/ /\ next.at \in {"change_count", "change_save"}
                  /\ next.user = t.user /\ next.session = t.session
            /\ t.at \in {"change_find", "change_count"}
            /\ UNCHANGED <<users, sessions, opened>>
    <3>1. CASE ChangeFind(h)
      <4>1. PICK next :
                /\ Continue(h, next)
                /\ \/ next = Idle
                   \/ next = [at |-> "change_count", user |-> t.user, session |-> t.session,
                              row |-> [users[t.user] EXCEPT !.password = t.sequel.new]]
                /\ t.at = "change_find" /\ UNCHANGED <<users, sessions, opened>>
        BY <1>0, <3>1 DEF ChangeFind, ReadOnly, tables, history
      <4> QED BY <4>1
    <3>2. CASE ChangeCount(h)
      <4>1. PICK next :
                /\ Continue(h, next)
                /\ next = Idle \/ next = [t EXCEPT !.at = "change_save"]
                /\ t.at = "change_count" /\ UNCHANGED <<users, sessions, opened>>
        BY <1>0, <3>2 DEF ChangeCount, ReadOnly, tables, history
      <4>2. /\ [t EXCEPT !.at = "change_save"].at = "change_save"
            /\ [t EXCEPT !.at = "change_save"].user = t.user
            /\ [t EXCEPT !.at = "change_save"].session = t.session
        BY <1>0, <4>1 DEF Task, Idle
      <4> QED BY <4>1, <4>2
    <3> QED BY <1>1, <3>1, <3>2
  <2>2. Current(next)
    BY <1>a, <2>1 DEF Current, Idle
  <2> QED BY <1>0, <1>a, <2>1, <2>2, AloneRead DEF Unrevoked
<1>2. CASE ChangeSave(h) \/ ChangeRecord(h)
  <2>1. PICK next :
            /\ Continue(h, next) /\ next.at \in {"change_record", "change_revoke"}
            /\ next.user = t.user /\ next.session = t.session
            /\ \A v \in Users \ {t.user} : users'[v] = users[v]
            /\ UNCHANGED <<sessions, opened>>
    <3>1. CASE ChangeSave(h)
      <4>1. /\ Continue(h, [at |-> "change_record", user |-> t.user, session |-> t.session])
            /\ users' = [users EXCEPT ![t.user] = t.row] /\ UNCHANGED <<sessions, opened>>
        BY <1>0, <3>1 DEF ChangeSave, SaveUser, history
      <4>2. \A v \in Users \ {t.user} : users'[v] = users[v]
        BY <4>1 DEF IInv, TypeOK
      <4> QED BY <4>1, <4>2
    <3>2. CASE ChangeRecord(h)
      <4>1. /\ Continue(h, [t EXCEPT !.at = "change_revoke"]) /\ t.at = "change_record"
            /\ UNCHANGED <<users, sessions, opened>>
        BY <1>0, <3>2 DEF ChangeRecord, history
      <4>2. /\ [t EXCEPT !.at = "change_revoke"].at = "change_revoke"
            /\ [t EXCEPT !.at = "change_revoke"].user = t.user
            /\ [t EXCEPT !.at = "change_revoke"].session = t.session
        BY <1>0, <4>1 DEF Task, Idle
      <4> QED BY <4>1, <4>2
    <3> QED BY <1>2, <3>1, <3>2
  <2>2. Current(next)'
    BY <1>a, <2>1 DEF Current
  <2> QED BY <1>0, <1>a, <2>1, <2>2, AloneChange DEF Unrevoked
<1>3. CASE ChangeRevoke(h)
  <2>1. /\ t.at = "change_revoke" /\ Continue(h, Idle) /\ RevokeAll(t.user, t.session)
        /\ opened' = [opened EXCEPT ![t.session] = users[t.user].password]
        /\ UNCHANGED users
    BY <1>0, <1>3 DEF ChangeRevoke, Finish
  <2>2. Current(Idle)'
    BY DEF Current, Idle
  <2>3. SUFFICES ASSUME failures' = 0, NEW s \in SessionIds,
                        sessions'[s] # None /\ sessions'[s].isActive
                 PROVE  Opened(s)'
    BY <1>a, <2>1, <2>2, AloneStep DEF Fresh
  <2>4. CASE s = t.session
    <3>1. sessions'[s] = sessions[s] /\ opened'[s] = users[t.user].password
      BY <1>a, <2>1, <2>4 DEF RevokeAll, IInv, TypeOK
    <3> QED BY <1>a, <2>1, <2>4, <3>1 DEF Opened
  <2>5. CASE s # t.session
    <3>1. s \notin SessionsOf(t.user)
      <4>1. CASE s \in SessionsOf(t.user)
        <5>1. sessions'[s] = Revoked(sessions[s]) /\ sessions[s] \in AuthSession
          BY <2>1, <2>5, <4>1, RowFields DEF RevokeAll, SessionsOf
        <5> QED BY <2>3, <5>1, SessionActivity
      <4> QED BY <4>1
    <3>2. sessions'[s] = sessions[s] /\ opened'[s] = opened[s]
      BY <1>a, <2>1, <2>5, <3>1 DEF RevokeAll, IInv, TypeOK
    <3>3. sessions[s].user # t.user
      BY <2>3, <3>1, <3>2 DEF SessionsOf
    <3>4. Opened(s)
      BY <1>0, <1>a, <2>3, <3>2, <3>3 DEF Alone, Fresh, Unrevoked
    <3> QED BY <2>1, <3>2, <3>4 DEF Opened
  <2> QED BY <2>4, <2>5
<1> QED BY <1>1, <1>2, <1>3


\* The steps of an administrator's update, of a request for a link and of a reset.
LEMMA LinkKeepsSerial ==
    ASSUME IInv, SerialInv, overlaps' = 0, NEW h \in Handlers,
           \/ AccessSave(h) \/ ForgotCount(h) \/ ForgotSave(h) \/ ResetSave(h) \/ ResetRevoke(h)
    PROVE  SerialInv'
<1> USE DEF At
<1>0. PICK t : t = task[h] /\ t \in Task /\ TaskJustified(t)
  BY RowFields
<1>a. /\ Alone(h) /\ Current(t) /\ UNCHANGED <<opened, failures>>
      /\ t.at \in {"access_save", "forgot_count", "forgot_save", "reset_save", "reset_revoke"}
  <2>1. /\ ~At(h, "idle") /\ UNCHANGED counters /\ UNCHANGED opened
        /\ t.at \in {"access_save", "forgot_count", "forgot_save", "reset_save", "reset_revoke"}
    BY <1>0 DEF AccessSave, ForgotCount, ForgotSave, ResetSave, ResetRevoke, ReadOnly, history
  <2> QED BY <1>0, <2>1, ProceedAlone DEF counters, Alone
<1>1. Current(Idle) /\ Current(Idle)'
  BY DEF Current, Idle
<1>2. CASE AccessSave(h)
  <2>1. /\ t.at = "access_save" /\ Continue(h, Idle)
        /\ users' = [users EXCEPT ![t.user] = t.row] /\ UNCHANGED sessions
    BY <1>0, <1>2 DEF AccessSave, Finish, SaveUser
  <2>2. t.user \in Users /\ t.row.password = users[t.user].password
    BY <1>0, <1>a, <2>1, TaskFields DEF Current
  <2> QED BY <1>0, <1>1, <1>a, <2>1, <2>2, AloneUser DEF Unrevoked
<1>3. CASE ForgotCount(h) \/ ForgotSave(h)
  <2>1. PICK next :
            /\ Continue(h, next) /\ Current(next)
            /\ t.at \in {"forgot_count", "forgot_save"} /\ UNCHANGED <<users, sessions>>
    <3>1. CASE ForgotCount(h)
      <4>1. PICK next :
                /\ Continue(h, next)
                /\ next = Idle \/ next = [t EXCEPT !.at = "forgot_save"]
                /\ t.at = "forgot_count" /\ UNCHANGED <<users, sessions>>
        BY <1>0, <3>1 DEF ForgotCount, ReadOnly, tables
      <4>2. [t EXCEPT !.at = "forgot_save"].at = "forgot_save"
        BY <1>0, <4>1 DEF Task, Idle
      <4>3. Current([t EXCEPT !.at = "forgot_save"])
        BY <4>2 DEF Current
      <4> QED BY <1>1, <4>1, <4>3
    <3>2. CASE ForgotSave(h)
      BY <1>0, <1>1, <3>2 DEF ForgotSave, Finish
    <3> QED BY <1>3, <3>1, <3>2
  <2> QED BY <1>0, <1>a, <2>1, AloneRead DEF Unrevoked
<1>4. CASE ResetSave(h)
  <2>1. PICK u :
            /\ u = links[t.link].user /\ t.at = "reset_save"
            /\ Continue(h, [at |-> "reset_revoke", user |-> u])
            /\ users' = [users EXCEPT ![u] = t.row] /\ UNCHANGED sessions
    BY <1>0, <1>4 DEF ResetSave
  <2>2. u \in Users
    BY <1>0, <2>1, TaskFields, RowFields DEF TaskJustified
  <2>3. \A v \in Users \ {u} : users'[v] = users[v]
    BY <2>1 DEF IInv, TypeOK
  <2>4. PICK next : Continue(h, next) /\ next = [at |-> "reset_revoke", user |-> u]
    BY <2>1
  <2>5. Current(next)'
    BY <2>4 DEF Current
  <2> QED BY <1>0, <1>a, <2>1, <2>2, <2>3, <2>4, <2>5, AloneChange DEF Unrevoked
<1>5. CASE ResetRevoke(h)
  <2>1. /\ t.at = "reset_revoke" /\ Continue(h, Idle) /\ RevokeAll(t.user, None)
        /\ UNCHANGED users
    BY <1>0, <1>5 DEF ResetRevoke, Finish
  <2>2. SUFFICES ASSUME failures' = 0, NEW s \in SessionIds,
                        sessions'[s] # None /\ sessions'[s].isActive
                 PROVE  Opened(s)'
    BY <1>1, <1>a, <2>1, AloneStep DEF Fresh
  <2>3. s # None
    BY AuthAssumption
  <2>4. s \notin SessionsOf(t.user)
    <3>1. CASE s \in SessionsOf(t.user)
      <4>1. sessions'[s] = Revoked(sessions[s]) /\ sessions[s] \in AuthSession
        BY <2>1, <2>3, <3>1, RowFields DEF RevokeAll, SessionsOf
      <4> QED BY <2>2, <4>1, SessionActivity
    <3> QED BY <3>1
  <2>5. sessions'[s] = sessions[s]
    BY <2>1, <2>4 DEF RevokeAll
  <2>6. sessions[s].user # t.user
    BY <2>2, <2>4, <2>5 DEF SessionsOf
  <2>7. Opened(s)
    BY <1>0, <1>a, <2>2, <2>5, <2>6 DEF Alone, Fresh, Unrevoked
  <2> QED BY <1>a, <2>1, <2>5, <2>7 DEF Opened
<1> QED BY <1>2, <1>3, <1>4, <1>5

LEMMA FailKeepsSerial ==
    ASSUME IInv, SerialInv, overlaps' = 0, NEW h \in Handlers, Fail(h)
    PROVE  SerialInv'
<1>1. /\ ~At(h, "idle") /\ Continue(h, Idle) /\ UNCHANGED overlaps
      /\ failures' = failures + 1
  BY DEF Fail, Finish
<1>2. failures' # 0
  BY <1>1 DEF IInv, TypeOK
<1>3. Current(Idle)'
  BY DEF Current, Idle
<1> QED BY <1>1, <1>2, <1>3, ProceedAlone, AloneStep

LEMMA SerialInit == Init => SerialInv
BY DEF Init, SerialInv, Current, Fresh, At, Idle

LEMMA SerialStep == IInv /\ SerialInv /\ [Next]_vars => SerialInv'
<1> SUFFICES ASSUME IInv, SerialInv, [Next]_vars, overlaps' = 0 PROVE SerialInv'
  BY DEF SerialInv
<1>1. ASSUME NEW h \in Handlers, Begin(h) PROVE SerialInv'
  BY <1>1, ArrivalKeepsSerial
<1>2. ASSUME NEW h \in Handlers, Proceed(h) PROVE SerialInv'
  BY <1>2, LoginKeepsSerial, FindKeepsSerial, SaveKeepsSerial, ChangeKeepsSerial,
     LinkKeepsSerial
     DEF Proceed
<1>3. ASSUME NEW h \in Handlers, Fail(h) PROVE SerialInv'
  BY <1>3, FailKeepsSerial
<1>4. CASE Elapse \/ UNCHANGED vars
  <2>1. UNCHANGED <<users, sessions, task, opened, failures, overlaps>>
    BY <1>4 DEF Elapse, vars, tables, history, counters
  <2> QED BY <2>1 DEF SerialInv, Current, Fresh, Opened, At
<1> QED BY <1>1, <1>2, <1>3, <1>4 DEF Next

LEMMA SerialInvariant == Spec => []SerialInv
BY SerialInit, SerialStep, Invariant, PTL DEF Spec


-----------------------------------------------------------------------------
(***************************************************************************)
(* Theorems of requests that take turns                                    *)
(***************************************************************************)
LEMMA RevocationStep ==
    ASSUME IInv, SerialInv, [Next]_vars, overlaps' = 0,
           NEW s \in SessionIds, sessions[s] # None, ~sessions[s].isActive
    PROVE  ~sessions'[s].isActive
<1>1. CASE UNCHANGED sessions
  BY <1>1
<1>2. ASSUME NEW h \in Handlers, NEW t, t = task[h], t.at \in HoldsSession,
             sessions' = [sessions EXCEPT ![t.session] = t.row], UNCHANGED overlaps,
             t.at = "session_save" => t.session # None
      PROVE  ~sessions'[s].isActive
  <2>1. Current(t)
    <3>1. ~At(h, "idle")
      BY <1>2 DEF At, HoldsSession
    <3> QED BY <1>2, <3>1, ProceedAlone DEF Alone
  <2>2. s # t.session => sessions'[s] = sessions[s]
    BY <1>2 DEF IInv, TypeOK
  <2>3. s = t.session => sessions'[s] = t.row
    BY <1>2 DEF IInv, TypeOK
  <2>4. s = t.session => ~t.row.isActive
    BY <1>2, <2>1, RowFields DEF Current, TaskJustified, HoldsSession
  <2> QED BY <2>2, <2>3, <2>4
<1>3. ASSUME NEW h \in Handlers, SessionSave(h), task[h].session = None
      PROVE  ~sessions'[s].isActive
  <2>1. /\ \E r \in SessionIds : sessions[r] = None
        /\ sessions' = [sessions EXCEPT ![NewId(sessions)] = task[h].row]
    BY <1>3 DEF SessionSave, SaveSession
  <2>2. DOMAIN sessions = SessionIds
    BY DEF IInv, TypeOK
  <2>3. sessions[NewId(sessions)] = None
    BY <2>1, <2>2 DEF NewId
  <2> QED BY <2>1, <2>2, <2>3
<1>4. ASSUME NEW u, NEW kept, RevokeAll(u, kept) PROVE ~sessions'[s].isActive
  <2>1. sessions'[s] \in {sessions[s], Revoked(sessions[s])} /\ sessions[s] \in AuthSession
    BY <1>4, RowFields DEF RevokeAll
  <2> QED BY <2>1, SessionActivity
<1>5. ASSUME NEW h \in Handlers, Begin(h) PROVE UNCHANGED sessions
  BY <1>5
     DEF Begin, BeginLogin, LoginForSwagger, Login, Register, RefreshToken, Authenticate,
         UpdateUserAccess, ForgotPassword, ResetPassword, SaveUser, tables
<1>6. ASSUME NEW h \in Handlers, Proceed(h) PROVE ~sessions'[s].isActive
  <2>1. CASE SessionMismatch(h)
    BY <1>2, <2>1 DEF SessionMismatch, SaveSession, At, HoldsSession, counters
  <2>2. CASE SessionReplace(h)
    BY <1>2, <2>2 DEF SessionReplace, SaveSession, At, HoldsSession, counters
  <2>3. CASE SessionSave(h)
    <3>1. CASE task[h].session = None
      BY <1>3, <2>3, <3>1
    <3>2. CASE task[h].session # None
      BY <1>2, <2>3, <3>2 DEF SessionSave, SaveSession, At, HoldsSession, counters
    <3> QED BY <3>1, <3>2
  <2>4. CASE ValidateSave(h)
    BY <1>2, <2>4 DEF ValidateSave, SaveSession, At, HoldsSession, counters
  <2>5. CASE ChangeRevoke(h) \/ ResetRevoke(h)
    BY <1>4, <2>5 DEF ChangeRevoke, ResetRevoke
  <2>6. CASE \/ LoginLimited(h) \/ LoginFind(h) \/ LoginFailed(h) \/ LoginLock(h)
             \/ LoginSave(h) \/ SessionFind(h) \/ SessionCount(h) \/ SessionOldest(h)
             \/ RefreshFind(h) \/ ValidateFind(h)
    BY <1>1, <2>6
       DEF LoginLimited, LoginFind, LoginFailed, LoginLock, LoginSave, SessionFind,
           SessionCount, SessionOldest, RefreshFind, ValidateFind, SaveUser, ReadOnly, tables
  <2>7. CASE \/ ChangeFind(h) \/ ChangeCount(h) \/ ChangeSave(h) \/ ChangeRecord(h)
             \/ AccessSave(h) \/ ForgotCount(h) \/ ForgotSave(h) \/ ResetSave(h)
    BY <1>1, <2>7
       DEF ChangeFind, ChangeCount, ChangeSave, ChangeRecord, AccessSave, ForgotCount,
           ForgotSave, ResetSave, SaveUser, ReadOnly, tables
  <2> QED BY <1>6, <2>1, <2>2, <2>3, <2>4, <2>5, <2>6, <2>7 DEF Proceed
<1>7. ASSUME NEW h \in Handlers, Fail(h) PROVE UNCHANGED sessions
  BY <1>7 DEF Fail, tables
<1> QED BY <1>1, <1>5, <1>6, <1>7 DEF Next, Elapse, vars, tables

\* A session that is revoked stays so: no login, refresh or authenticated request saves an
\* active copy of it, even after requests that died halfway
\* (AuthService.validateAccessSession, refreshToken, findOrCreateSession).
THEOREM RevokedForGood == Spec => RevocationIsFinal
<1>1. IInv /\ SerialInv /\ [Next]_vars =>
          [overlaps' = 0 =>
               \A s \in SessionIds : sessions[s] # None /\ ~sessions[s].isActive =>
                   ~sessions'[s].isActive]_vars
  BY RevocationStep
<1> QED BY <1>1, Invariant, SerialInvariant, PTL DEF Spec, RevocationIsFinal

\* A password change or reset that is through signs out every device that logged in under an
\* older password, but the one that made the change
\* (AuthService.changePassword, resetPassword, revokeAllUserSessions).
THEOREM OldPasswordsSignedOut == Spec => []SignedOut
<1>1. SerialInv => SignedOut
  BY DEF SerialInv, SignedOut, Fresh, Opened, Unrevoked, At
<1> QED BY <1>1, SerialInvariant, PTL

-----------------------------------------------------------------------------
(***************************************************************************)
(* The limits on links, failed logins, password changes, requests for a    *)
(* link and devices.  Each is counted before it is used up, so that it can *)
(* be exceeded; these proofs count what the handlers in flight may yet add *)
(* to what is stored.                                                      *)
(***************************************************************************)

-----------------------------------------------------------------------------
(***************************************************************************)
(* Counting handlers                                                       *)
(***************************************************************************)
Tally(h, S) == IF h \in S THEN 1 ELSE 0

LEMMA TallyTyped == \A h, S : Tally(h, S) \in {0, 1}
BY DEF Tally

\* Two sets that agree but for one element have sizes that differ by it.
LEMMA OneMoves ==
    ASSUME NEW S, NEW T, NEW h, IsFiniteSet(S), S \ {h} = T \ {h}
    PROVE  /\ IsFiniteSet(T)
           /\ Cardinality(S) \in Nat /\ Cardinality(T) \in Nat
           /\ Cardinality(T) = Cardinality(S) + Tally(h, T) - Tally(h, S)
<1> PICK rest : rest = S \ {h}
  OBVIOUS
<1>1. IsFiniteSet(rest) /\ h \notin rest /\ Cardinality(rest) \in Nat
  BY FS_RemoveElement, FS_CardinalityType
<1>2. IsFiniteSet(rest \cup {h}) /\ Cardinality(rest \cup {h}) = Cardinality(rest) + 1
  BY <1>1, FS_AddElement
<1>3. \A R : R \ {h} = rest =>
          IsFiniteSet(R) /\ Cardinality(R) = Cardinality(rest) + Tally(h, R)
  <2> SUFFICES ASSUME NEW R, R \ {h} = rest
               PROVE  IsFiniteSet(R) /\ Cardinality(R) = Cardinality(rest) + Tally(h, R)
    OBVIOUS
  <2>1. CASE h \in R
    <3>1. R = rest \cup {h}
      BY <2>1
    <3> QED BY <1>1, <1>2, <2>1, <3>1 DEF Tally
  <2>2. CASE h \notin R
    <3>1. R = rest
      BY <2>2
    <3> QED BY <1>1, <2>2, <3>1 DEF Tally
  <2> QED BY <2>1, <2>2
<1>4. /\ IsFiniteSet(T) /\ Cardinality(T) = Cardinality(rest) + Tally(h, T)
      /\ Cardinality(S) = Cardinality(rest) + Tally(h, S)
  BY <1>3
<1> QED BY <1>1, <1>4, TallyTyped

\* A set of handlers is no larger than the set of all.
LEMMA FewHandlers ==
    ASSUME NEW S \in SUBSET Handlers
    PROVE  /\ IsFiniteSet(S)
           /\ Cardinality(S) \in Nat /\ Cardinality(Handlers) \in Nat \ {0}
           /\ Cardinality(S) <= Cardinality(Handlers)
<1>1. IsFiniteSet(Handlers) /\ Handlers # {}
  BY AuthAssumption
<1> QED BY <1>1, FS_Subset, FS_CardinalityType, FS_EmptySet

-----------------------------------------------------------------------------
(***************************************************************************)
(* The way of a request from one database call to the next                 *)
(***************************************************************************)
Others(h) == \A g \in Handlers : g # h => task'[g] = task[g]

\* The stops after which a request stops next, or ends.
Onward(place) ==
    CASE place = "login_find"       -> {"login_unknown", "login_save", "login_failed"}
      [] place = "login_failed"     -> {"login_lock"}
      [] place = "login_save"       -> {"session_find"}
      [] place = "session_find"     -> {"session_count", "session_save", "session_mismatch"}
      [] place = "session_mismatch" -> {"session_count"}
      [] place = "session_count"    -> {"session_oldest", "session_save"}
      [] place = "session_oldest"   -> {"session_save", "session_replace"}
      [] place = "session_replace"  -> {"session_save"}
      [] place = "refresh_find"     -> {"session_save"}
      [] place = "validate_find"    -> {"validate_save"}
      [] place = "validate_save"    -> {"change_find"}
      [] place = "change_find"      -> {"change_count"}
      [] place = "change_count"     -> {"change_save"}
      [] place = "change_save"      -> {"change_record"}
      [] place = "change_record"    -> {"change_revoke"}
      [] place = "forgot_count"     -> {"forgot_save"}
      [] place = "reset_save"       -> {"reset_revoke"}
      [] OTHER                      -> {}

Arrivals == {"session_find", "login_limited", "login_find", "refresh_find", "validate_find",
             "access_save", "forgot_count", "reset_save"}

LEMMA StepsAlone ==
    ASSUME IInv, NEW h \in Handlers, NEW next, Continue(h, next)
    PROVE  Others(h) /\ task'[h] = next
BY ContinueTask DEF IInv, TypeOK, Others

\* Some handlers only move on, with what they hold.
Advanced(t, place) == [t EXCEPT !.at = place]

LEMMA MovedOn ==
    ASSUME NEW t \in Task, t.at \in {"change_count", "change_record", "forgot_count"}, NEW place
    PROVE  Advanced(t, place).at = place /\ Advanced(t, place).user = t.user
BY DEF Task, Idle, Advanced

LEMMA ArrivalFlow ==
    ASSUME IInv, NEW h \in Handlers, Begin(h)
    PROVE  /\ Others(h) /\ At(h, "idle") /\ task'[h].at \in Arrivals
           /\ UNCHANGED <<links, recent, sessions, uses>>
           /\ overlaps' = IF \A g \in Handlers : At(g, "idle") THEN overlaps ELSE overlaps + 1
<1>1. PICK next : Arrive(h, next) /\ next.at \in Arrivals
  <2> USE DEF Arrivals
  <2>1. ASSUME NEW u, NEW dto, NEW device, Register(h, u, dto, device)
        PROVE  \E next : Arrive(h, next) /\ next.at \in Arrivals
    BY <2>1 DEF Register
  <2>2. ASSUME NEW u, NEW password, NEW device, NEW bearer, Login(h, u, password, device, bearer)
        PROVE  \E next : Arrive(h, next) /\ next.at \in Arrivals
    <3>1. CASE OverLimit(u)
      BY <2>2, <3>1 DEF Login
    <3>2. CASE ~OverLimit(u)
      BY <2>2, <3>2 DEF Login
    <3> QED BY <3>1, <3>2
  <2>3. ASSUME NEW u, NEW s, NEW device, RefreshToken(h, u, s, device)
        PROVE  \E next : Arrive(h, next) /\ next.at \in Arrivals
    BY <2>3 DEF RefreshToken
  <2>4. ASSUME NEW u, NEW s, NEW sequel, Authenticate(h, u, s, sequel)
        PROVE  \E next : Arrive(h, next) /\ next.at \in Arrivals
    BY <2>4 DEF Authenticate
  <2>5. ASSUME NEW u, NEW dto, UpdateUserAccess(h, u, dto)
        PROVE  \E next : Arrive(h, next) /\ next.at \in Arrivals
    BY <2>5 DEF UpdateUserAccess
  <2>6. ASSUME NEW u, ForgotPassword(h, u)
        PROVE  \E next : Arrive(h, next) /\ next.at \in Arrivals
    BY <2>6 DEF ForgotPassword
  <2>7. ASSUME NEW l, NEW password, ResetPassword(h, l, password)
        PROVE  \E next : Arrive(h, next) /\ next.at \in Arrivals
    BY <2>7 DEF ResetPassword
  <2> HIDE DEF Arrivals
  <2> QED BY <2>1, <2>2, <2>3, <2>4, <2>5, <2>6, <2>7 DEF Begin, BeginLogin, LoginForSwagger
<1>2. UNCHANGED <<links, recent, sessions, uses>>
  BY DEF Begin, BeginLogin, LoginForSwagger, Login, Register, RefreshToken, Authenticate,
         UpdateUserAccess, ForgotPassword, ResetPassword, SaveUser, tables, history
<1> QED BY <1>1, <1>2, StepsAlone DEF Arrive

LEMMA ProceedFlow ==
    ASSUME IInv, NEW h \in Handlers, Proceed(h)
    PROVE  /\ Others(h) /\ UNCHANGED overlaps /\ ~At(h, "idle")
           /\ task'[h].at \in Onward(task[h].at) \cup {"idle"}
<1> USE StepsAlone DEF At, Onward, Idle, Finish, counters, ReadOnly, SaveSession
<1>1. CASE LoginLimited(h)
  BY <1>1 DEF LoginLimited
<1>2. CASE LoginFind(h)
  BY <1>2 DEF LoginFind
<1>3. CASE LoginFailed(h)
  BY <1>3 DEF LoginFailed
<1>4. CASE LoginLock(h) \/ LoginSave(h)
  BY <1>4 DEF LoginLock, LoginSave
<1>5. CASE SessionFind(h)
  <2>1. PICK next : /\ Continue(h, next)
                    /\ \/ next.at = "session_count"
                       \/ next.at = "session_save"
                       \/ next.at = "session_mismatch"
    <3> DEFINE here == {s \in ActiveSessions(task[h].user) :
                            sessions[s].device = task[h].device}
               fits(s) == task[h].bearer = None \/ (task[h].bearer /\ sessions[s].hashed)
    <3>1. CASE here = {}
      BY <1>5, <3>1 DEF SessionFind
    <3>2. CASE here # {}
      <4>1. PICK s \in here :
                Continue(h, IF fits(s)
                            THEN [at |-> "session_save", session |-> s,
                                  row |-> Issued(sessions[s], task[h].device)]
                            ELSE [at |-> "session_mismatch", session |-> s,
                                  row |-> Revoked(sessions[s]), device |-> task[h].device])
        BY <1>5, <3>2 DEF SessionFind
      <4>2. CASE fits(s)
        BY <4>1, <4>2
      <4>3. CASE ~fits(s)
        BY <4>1, <4>3
      <4> QED BY <4>2, <4>3
    <3> QED BY <3>1, <3>2
  <2> QED BY <1>5, <2>1 DEF SessionFind
<1>6. CASE SessionMismatch(h) \/ SessionCount(h)
  BY <1>6 DEF SessionMismatch, SessionCount
<1>7. CASE SessionOldest(h)
  <2>1. PICK next : /\ Continue(h, next)
                    /\ next.at = "session_save" \/ next.at = "session_replace"
    <3>1. CASE ActiveSessions(task[h].user) = {}
      BY <1>7, <3>1 DEF SessionOldest
    <3>2. CASE ActiveSessions(task[h].user) # {}
      <4>1. PICK s \in ActiveSessions(task[h].user) :
                Continue(h, [at |-> "session_replace", session |-> s,
                             row |-> Revoked(sessions[s]), device |-> task[h].device])
        BY <1>7, <3>2 DEF SessionOldest
      <4> QED BY <4>1
    <3> QED BY <3>1, <3>2
  <2> QED BY <1>7, <2>1 DEF SessionOldest
<1>8. CASE SessionReplace(h) \/ SessionSave(h)
  BY <1>8 DEF SessionReplace, SessionSave
<1>9. CASE RefreshFind(h)
  BY <1>9 DEF RefreshFind
<1>10. CASE ValidateFind(h)
  BY <1>10 DEF ValidateFind
<1>11. CASE ValidateSave(h)
  BY <1>11 DEF ValidateSave
<1>12. CASE ChangeFind(h)
  BY <1>12 DEF ChangeFind
<1>13. CASE ChangeCount(h) \/ ChangeRecord(h)
  <2>1. PICK t : t = task[h] /\ t \in Task /\ t.at \in {"change_count", "change_record"}
    BY <1>13, RowFields DEF ChangeCount, ChangeRecord
  <2>2. PICK next :
            /\ Continue(h, next)
            /\ \/ next = Idle
               \/ t.at = "change_count" /\ next = Advanced(t, "change_save")
               \/ t.at = "change_record" /\ next = Advanced(t, "change_revoke")
    BY <1>13, <2>1 DEF ChangeCount, ChangeRecord, Advanced
  <2>3. next.at \in Onward(t.at) \cup {"idle"}
    BY <2>1, <2>2, MovedOn
  <2> QED BY <1>13, <2>1, <2>2, <2>3 DEF ChangeCount, ChangeRecord
<1>14. CASE ChangeSave(h) \/ ChangeRevoke(h)
  BY <1>14 DEF ChangeSave, ChangeRevoke
<1>15. CASE AccessSave(h) \/ ForgotSave(h)
  BY <1>15 DEF AccessSave, ForgotSave
<1>16. CASE ForgotCount(h)
  <2>1. PICK t : t = task[h] /\ t \in Task /\ t.at = "forgot_count"
    BY <1>16, RowFields DEF ForgotCount
  <2>2. PICK next : Continue(h, next) /\ next \in {Idle, Advanced(t, "forgot_save")}
    BY <1>16, <2>1 DEF ForgotCount, Advanced
  <2>3. next.at \in {"idle", "forgot_save"}
    BY <2>1, <2>2, MovedOn
  <2> QED BY <1>16, <2>1, <2>2, <2>3 DEF ForgotCount
<1>17. CASE ResetSave(h) \/ ResetRevoke(h)
  BY <1>17 DEF ResetSave, ResetRevoke
<1> QED BY <1>1, <1>2, <1>3, <1>4, <1>5, <1>6, <1>7, <1>8, <1>9, <1>10, <1>11, <1>12, <1>13,
           <1>14, <1>15, <1>16, <1>17
        DEF Proceed

-----------------------------------------------------------------------------
(***************************************************************************)
(* Links                                                                   *)
(***************************************************************************)
Resetting(l) == {h \in Handlers : At(h, "reset_save") /\ task[h].link = l}

Unused(l) == links[l] = None \/ ~links[l].isUsed

\* Every reset that set a password, or is about to, has its own handler among those that found
\* the link unused.
LinksCounted ==
    \A l \in LinkIds :
        /\ uses[l] + Cardinality(Resetting(l)) <= Cardinality(Handlers)
        /\ Unused(l) => uses[l] = 0

\* A step that neither loads a link nor uses one.
LEMMA LinksKept ==
    ASSUME IInv, LinksCounted, NEW h \in Handlers, Others(h), task'[h].at # "reset_save",
           UNCHANGED uses, \A l \in LinkIds : Unused(l)' => Unused(l)
    PROVE  LinksCounted'
<1> SUFFICES ASSUME NEW l \in LinkIds
             PROVE  uses[l] + Cardinality(Resetting(l)') <= Cardinality(Handlers)
  BY DEF LinksCounted
<1>1. Resetting(l)' \subseteq Resetting(l)
  BY DEF Others, Resetting, At
<1>2. Resetting(l) \in SUBSET Handlers /\ IsFiniteSet(Resetting(l))
  BY FewHandlers DEF Resetting
<1>3. /\ Cardinality(Resetting(l)') <= Cardinality(Resetting(l))
      /\ Cardinality(Resetting(l)) \in Nat /\ Cardinality(Resetting(l)') \in Nat
  BY <1>1, <1>2, FS_Subset, FS_CardinalityType
<1>4. uses[l] \in Nat /\ Cardinality(Handlers) \in Nat
  BY <1>2, FewHandlers DEF IInv, TypeOK
<1> QED BY <1>3, <1>4 DEF LinksCounted

\* A step of handler h that loads link l, finds it unused, or uses it.
LEMMA LinkTaken ==
    ASSUME IInv, LinksCounted, NEW h \in Handlers, Others(h), NEW l \in LinkIds,
           \A k \in LinkIds \ {l} :
               /\ uses'[k] = uses[k] /\ links'[k] = links[k]
               /\ h \in Resetting(k)' => h \in Resetting(k),
           \/ uses'[l] = 0
           \/ uses'[l] = uses[l] + 1 /\ h \in Resetting(l) /\ h \notin Resetting(l)',
           Unused(l)' => uses'[l] = 0
    PROVE  LinksCounted'
<1>1. \A k \in LinkIds : uses[k] \in Nat /\ Cardinality(Handlers) \in Nat \ {0}
  BY FewHandlers DEF IInv, TypeOK
<1>2. \A k \in LinkIds :
          /\ Resetting(k) \in SUBSET Handlers /\ IsFiniteSet(Resetting(k))
          /\ Resetting(k)' \in SUBSET Handlers
          /\ Cardinality(Resetting(k)') \in Nat
          /\ Cardinality(Resetting(k)') <= Cardinality(Handlers)
  BY FewHandlers DEF Resetting
<1>3. \A k \in LinkIds : Resetting(k) \ {h} = Resetting(k)' \ {h}
  BY DEF Others, Resetting, At
<1>4. \A k \in LinkIds :
          /\ Cardinality(Resetting(k)) \in Nat
          /\ Cardinality(Resetting(k)') =
                 Cardinality(Resetting(k)) + Tally(h, Resetting(k)') - Tally(h, Resetting(k))
  BY <1>2, <1>3, OneMoves
<1>5. ASSUME NEW k \in LinkIds, k # l
      PROVE  /\ uses'[k] + Cardinality(Resetting(k)') <= Cardinality(Handlers)
             /\ Unused(k)' => uses'[k] = 0
  <2>1. Tally(h, Resetting(k)') <= Tally(h, Resetting(k))
    BY <1>5 DEF Tally
  <2>2. uses[k] + Cardinality(Resetting(k)) <= Cardinality(Handlers)
    BY DEF LinksCounted
  <2>3. Cardinality(Resetting(k)') <= Cardinality(Resetting(k))
    BY <1>4, <2>1, TallyTyped
  <2> QED BY <1>1, <1>2, <1>4, <1>5, <2>2, <2>3 DEF LinksCounted, Unused
<1>6. uses'[l] + Cardinality(Resetting(l)') <= Cardinality(Handlers)
  <2>1. CASE uses'[l] = 0
    BY <1>1, <1>2, <2>1
  <2>2. CASE uses'[l] = uses[l] + 1 /\ h \in Resetting(l) /\ h \notin Resetting(l)'
    <3>1. Cardinality(Resetting(l)') = Cardinality(Resetting(l)) - 1
      BY <1>4, <2>2 DEF Tally
    <3>2. uses[l] + Cardinality(Resetting(l)) <= Cardinality(Handlers)
      BY DEF LinksCounted
    <3> QED BY <1>1, <1>4, <2>2, <3>1, <3>2
  <2> QED BY <2>1, <2>2
<1> QED BY <1>5, <1>6 DEF LinksCounted

LEMMA LinksStep == IInv /\ LinksCounted /\ [Next]_vars => LinksCounted'
<1> SUFFICES ASSUME IInv, LinksCounted, [Next]_vars PROVE LinksCounted'
  OBVIOUS
<1>1. ASSUME NEW h \in Handlers, Begin(h) PROVE LinksCounted'
  <2>1. CASE task'[h].at # "reset_save"
    BY <1>1, <2>1, ArrivalFlow, LinksKept DEF Unused
  <2>2. CASE \E l \in LinkIds, password \in Passwords : ResetPassword(h, l, password)
    <3>1. PICK l, next :
              /\ l \in LinkIds /\ Unused(l) /\ Continue(h, next)
              /\ next.at = "reset_save" /\ next.link = l
      BY <2>2 DEF ResetPassword, Arrive, Unused
    <3>2. Others(h) /\ task'[h].link = l /\ UNCHANGED <<uses, links>>
      BY <1>1, <3>1, StepsAlone, ArrivalFlow
    <3>3. \A k \in LinkIds \ {l} : h \notin Resetting(k)'
      BY <3>2 DEF Resetting
    <3>4. uses'[l] = 0
      BY <3>1, <3>2 DEF LinksCounted
    <3> QED BY <3>1, <3>2, <3>3, <3>4, LinkTaken
  <2>3. CASE ~\E l \in LinkIds, password \in Passwords : ResetPassword(h, l, password)
    <3>1. \A next : Arrive(h, next) => task'[h] = next
      BY StepsAlone DEF Arrive
    <3>2. ASSUME NEW next, Arrive(h, next), next.at # "reset_save" PROVE LinksCounted'
      BY <2>1, <3>1, <3>2
    <3> QED BY <1>1, <2>3, <3>2
            DEF Begin, BeginLogin, LoginForSwagger, Login, Register, RefreshToken,
                Authenticate, UpdateUserAccess, ForgotPassword
  <2> QED BY <2>2, <2>3
<1>2. ASSUME NEW h \in Handlers, Proceed(h) PROVE LinksCounted'
  <2>1. Others(h) /\ task'[h].at # "reset_save"
    <3>1. Others(h) /\ task'[h].at \in Onward(task[h].at) \cup {"idle"}
      BY <1>2, ProceedFlow
    <3> QED BY <3>1 DEF Onward
  <2>2. CASE ForgotSave(h)
    <3>1. /\ \E l \in LinkIds : links[l] = None
          /\ links' = [links EXCEPT ![NewId(links)] = [user |-> task[h].user, isUsed |-> FALSE]]
          /\ UNCHANGED uses
      BY <2>2 DEF ForgotSave, history
    <3>2. DOMAIN links = LinkIds
      BY DEF IInv, TypeOK
    <3>3. links[NewId(links)] = None /\ NewId(links) \in LinkIds
      BY <3>1, <3>2 DEF NewId
    <3>4. \A l \in LinkIds : l # NewId(links) => links'[l] = links[l]
      BY <3>1, <3>2
    <3>5. \A l \in LinkIds : Unused(l)' => Unused(l)
      BY <3>3, <3>4 DEF Unused
    <3> QED BY <2>1, <3>1, <3>5, LinksKept
  <2>3. CASE ResetSave(h)
    <3>1. PICK t : t = task[h] /\ t \in Task /\ TaskJustified(t) /\ t.at = "reset_save"
      BY <2>3, RowFields DEF ResetSave, At
    <3>2. PICK l : /\ l = t.link
                   /\ links' = [links EXCEPT ![l].isUsed = TRUE]
                   /\ uses' = [uses EXCEPT ![l] = uses[l] + 1]
      BY <2>3, <3>1 DEF ResetSave
    <3>3. l \in LinkIds /\ links[l] # None /\ links[l] \in PasswordResetRequest
      BY <3>1, <3>2, TaskFields, RowFields DEF TaskJustified
    <3>4. PICK row : row = [links[l] EXCEPT !.isUsed = TRUE]
      OBVIOUS
    <3>5. row \in PasswordResetRequest /\ row.isUsed
      BY <3>3, <3>4 DEF PasswordResetRequest
    <3>6. links'[l] = row /\ row # None
      BY <3>2, <3>3, <3>4, <3>5, RowAssumption DEF IInv, TypeOK
    <3>7. ~Unused(l)'
      BY <3>5, <3>6 DEF Unused
    <3>8. /\ h \in Resetting(l) /\ \A k \in LinkIds : h \notin Resetting(k)'
          /\ uses'[l] = uses[l] + 1
          /\ \A k \in LinkIds \ {l} : uses'[k] = uses[k] /\ links'[k] = links[k]
      BY <2>1, <3>1, <3>2, <3>3 DEF Resetting, At, IInv, TypeOK
    <3> QED BY <2>1, <3>3, <3>7, <3>8, LinkTaken
  <2>4. CASE \/ LoginLimited(h) \/ LoginFind(h) \/ LoginFailed(h) \/ LoginLock(h)
             \/ LoginSave(h) \/ SessionFind(h) \/ SessionMismatch(h) \/ SessionCount(h)
             \/ SessionOldest(h) \/ SessionReplace(h) \/ SessionSave(h) \/ RefreshFind(h)
             \/ ValidateFind(h) \/ ValidateSave(h)
    <3>1. UNCHANGED <<links, uses>>
      BY <2>4
         DEF LoginLimited, LoginFind, LoginFailed, LoginLock, LoginSave, SessionFind,
             SessionMismatch, SessionCount, SessionOldest, SessionReplace, SessionSave,
             RefreshFind, ValidateFind, ValidateSave, SaveUser, SaveSession, ReadOnly, tables,
             history
    <3> QED BY <2>1, <3>1, LinksKept DEF Unused
  <2>5. CASE \/ ChangeFind(h) \/ ChangeCount(h) \/ ChangeSave(h) \/ ChangeRecord(h)
             \/ ChangeRevoke(h) \/ AccessSave(h) \/ ForgotCount(h) \/ ResetRevoke(h)
    <3>1. UNCHANGED <<links, uses>>
      BY <2>5
         DEF ChangeFind, ChangeCount, ChangeSave, ChangeRecord, ChangeRevoke, AccessSave,
             ForgotCount, ResetRevoke, SaveUser, ReadOnly, tables, history
    <3> QED BY <2>1, <3>1, LinksKept DEF Unused
  <2> QED BY <1>2, <2>2, <2>3, <2>4, <2>5 DEF Proceed
<1>3. ASSUME NEW h \in Handlers, Fail(h) PROVE LinksCounted'
  <2>1. Others(h) /\ task'[h] = Idle /\ UNCHANGED <<links, uses>>
    BY <1>3, StepsAlone DEF Fail, Finish, tables, history
  <2> QED BY <2>1, LinksKept DEF Idle, Unused
<1>4. CASE Elapse \/ UNCHANGED vars
  <2>1. UNCHANGED <<task, links, uses>>
    BY <1>4 DEF Elapse, vars, tables, history
  <2> QED BY <2>1 DEF LinksCounted, Resetting, At, Unused
<1> QED BY <1>1, <1>2, <1>3, <1>4 DEF Next

LEMMA LinksInit == Init => LinksCounted
<1> SUFFICES ASSUME Init, NEW l \in LinkIds
             PROVE  uses[l] + Cardinality(Resetting(l)) <= Cardinality(Handlers) /\ uses[l] = 0
  BY DEF LinksCounted
<1>1. uses[l] = 0 /\ Resetting(l) = {}
  BY DEF Init, Resetting, At, Idle
<1> QED BY <1>1, FS_EmptySet, FewHandlers

\* However resets with the same link overlap, it sets no more passwords than there are requests
\* in flight: the link is found unused before any of them has marked it
\* (AuthService.resetPassword).
THEOREM LinkUsesBounded == Spec => []LinkUses
<1>1. IInv /\ LinksCounted => LinkUses
  <2> SUFFICES ASSUME IInv, LinksCounted, NEW l \in LinkIds
               PROVE  uses[l] <= Cardinality(Handlers)
    BY DEF LinkUses
  <2>1. Resetting(l) \in SUBSET Handlers
    BY DEF Resetting
  <2> QED BY <2>1, FewHandlers DEF IInv, TypeOK, LinksCounted
<1> QED BY <1>1, LinksInit, LinksStep, Invariant, PTL DEF Spec


-----------------------------------------------------------------------------
(***************************************************************************)
(* Failed logins, password changes and requests for a link                 *)
(***************************************************************************)
Slack == Cardinality(Handlers) - 1

On(u, places) == {h \in Handlers : task[h].at \in places /\ task[h].user = u}

\* The stops between a count that was below its limit and the record that adds to it.
Trying == {"login_find", "login_unknown", "login_failed"}
Changing == {"change_save", "change_record"}
Asking == {"forgot_save"}

LimitsCounted ==
    \A u \in Users :
        /\ \A w \in Windows :
               recent[u].tried[w] + Cardinality(On(u, Trying)) <= MaxLoginAttempts[w] + Slack
        /\ recent[u].changes + Cardinality(On(u, Changing)) <= MaxPasswordChanges + Slack
        /\ recent[u].requests + Cardinality(On(u, Asking)) <= MaxForgotPasswordRequests + Slack

\* A step that takes a count from n to m: its handler was and is one of those yet to record.
Pays(n, m, limit, was, is) ==
    \/ m <= n /\ (is => was)
    \/ m = n + 1 /\ was /\ ~is
    \/ m < limit

LEMMA Budget ==
    ASSUME NEW S \in SUBSET Handlers, NEW T \in SUBSET Handlers, NEW h, S \ {h} = T \ {h},
           NEW n \in Nat, NEW m \in Nat, NEW limit \in Nat,
           n + Cardinality(S) <= limit + Slack,
           Pays(n, m, limit, h \in S, h \in T)
    PROVE  m + Cardinality(T) <= limit + Slack
<1>1. /\ IsFiniteSet(S) /\ Cardinality(S) \in Nat /\ Cardinality(Handlers) \in Nat \ {0}
      /\ Cardinality(T) \in Nat /\ Cardinality(T) <= Cardinality(Handlers)
  BY FewHandlers
<1>2. Cardinality(T) = Cardinality(S) + Tally(h, T) - Tally(h, S)
  BY <1>1, OneMoves
<1>3. CASE m <= n /\ (h \in T => h \in S)
  <2>1. Tally(h, T) <= Tally(h, S)
    BY <1>3 DEF Tally
  <2>2. Cardinality(T) <= Cardinality(S)
    BY <1>1, <1>2, <2>1, TallyTyped
  <2> QED BY <1>1, <1>3, <2>2 DEF Slack
<1>4. CASE m = n + 1 /\ h \in S /\ h \notin T
  <2>1. Cardinality(T) = Cardinality(S) - 1
    BY <1>1, <1>2, <1>4 DEF Tally
  <2> QED BY <1>1, <1>4, <2>1 DEF Slack
<1>5. CASE m < limit
  BY <1>1, <1>5 DEF Slack
<1> QED BY <1>3, <1>4, <1>5 DEF Pays

Paying(h) ==
    \A u \in Users :
        /\ \A w \in Windows : Pays(recent[u].tried[w], recent'[u].tried[w], MaxLoginAttempts[w],
                                   h \in On(u, Trying), h \in On(u, Trying)')
        /\ Pays(recent[u].changes, recent'[u].changes, MaxPasswordChanges,
                h \in On(u, Changing), h \in On(u, Changing)')
        /\ Pays(recent[u].requests, recent'[u].requests, MaxForgotPasswordRequests,
                h \in On(u, Asking), h \in On(u, Asking)')

LEMMA LimitsKept ==
    ASSUME IInv, IInv', LimitsCounted, NEW h \in Handlers, Others(h), Paying(h)
    PROVE  LimitsCounted'
<1> SUFFICES ASSUME NEW u \in Users
             PROVE  /\ \A w \in Windows :
                           recent'[u].tried[w] + Cardinality(On(u, Trying)')
                               <= MaxLoginAttempts[w] + Slack
                    /\ recent'[u].changes + Cardinality(On(u, Changing)')
                           <= MaxPasswordChanges + Slack
                    /\ recent'[u].requests + Cardinality(On(u, Asking)')
                           <= MaxForgotPasswordRequests + Slack
  BY DEF LimitsCounted, Slack
<1>1. /\ recent[u] \in Recent /\ recent'[u] \in Recent
      /\ \A w \in Windows : MaxLoginAttempts[w] \in Nat
      /\ MaxPasswordChanges \in Nat /\ MaxForgotPasswordRequests \in Nat
  BY AuthAssumption DEF IInv, TypeOK
<1>2. \A places : /\ On(u, places) \in SUBSET Handlers /\ On(u, places)' \in SUBSET Handlers
                  /\ On(u, places) \ {h} = On(u, places)' \ {h}
  BY DEF On, Others
<1>3. ASSUME NEW w \in Windows
      PROVE  recent'[u].tried[w] + Cardinality(On(u, Trying)') <= MaxLoginAttempts[w] + Slack
  <2>1. recent[u].tried[w] \in Nat /\ recent'[u].tried[w] \in Nat
    BY <1>1 DEF Recent
  <2>2. recent[u].tried[w] + Cardinality(On(u, Trying)) <= MaxLoginAttempts[w] + Slack
    BY DEF LimitsCounted
  <2> QED BY <1>1, <1>2, <2>1, <2>2, Budget DEF Paying
<1>4. recent'[u].changes + Cardinality(On(u, Changing)') <= MaxPasswordChanges + Slack
  <2>1. recent[u].changes \in Nat /\ recent'[u].changes \in Nat
    BY <1>1 DEF Recent
  <2>2. recent[u].changes + Cardinality(On(u, Changing)) <= MaxPasswordChanges + Slack
    BY DEF LimitsCounted
  <2> QED BY <1>1, <1>2, <2>1, <2>2, Budget DEF Paying
<1>5. recent'[u].requests + Cardinality(On(u, Asking)') <= MaxForgotPasswordRequests + Slack
  <2>1. recent[u].requests \in Nat /\ recent'[u].requests \in Nat
    BY <1>1 DEF Recent
  <2>2. recent[u].requests + Cardinality(On(u, Asking)) <= MaxForgotPasswordRequests + Slack
    BY DEF LimitsCounted
  <2> QED BY <1>1, <1>2, <2>1, <2>2, Budget DEF Paying
<1> QED BY <1>3, <1>4, <1>5


LEMMA CountTypes ==
    ASSUME IInv, NEW u \in Users
    PROVE  /\ recent[u] \in Recent
           /\ \A w \in Windows : recent[u].tried[w] \in Nat
           /\ recent[u].changes \in Nat /\ recent[u].requests \in Nat
<1>1. recent[u] \in Recent
  BY DEF IInv, TypeOK
<1> QED BY <1>1 DEF Recent

\* A step that records nothing, and moves its handler nowhere but among the stops of one count.
LEMMA NothingPaid ==
    ASSUME IInv, NEW h \in Handlers, UNCHANGED recent,
           \A places \in {Trying, Changing, Asking} :
               task'[h].at \in places =>
                   task[h].at \in places /\ task'[h].user = task[h].user
    PROVE  Paying(h)
<1> SUFFICES ASSUME NEW u \in Users
             PROVE  /\ \A w \in Windows :
                           Pays(recent[u].tried[w], recent'[u].tried[w], MaxLoginAttempts[w],
                                h \in On(u, Trying), h \in On(u, Trying)')
                    /\ Pays(recent[u].changes, recent'[u].changes, MaxPasswordChanges,
                            h \in On(u, Changing), h \in On(u, Changing)')
                    /\ Pays(recent[u].requests, recent'[u].requests, MaxForgotPasswordRequests,
                            h \in On(u, Asking), h \in On(u, Asking)')
  BY DEF Paying
<1>1. \A places \in {Trying, Changing, Asking} : h \in On(u, places)' => h \in On(u, places)
  BY DEF On
<1>2. /\ \A w \in Windows : recent'[u].tried[w] <= recent[u].tried[w]
      /\ recent'[u].changes <= recent[u].changes /\ recent'[u].requests <= recent[u].requests
  BY CountTypes
<1> QED BY <1>1, <1>2 DEF Pays

\* The requests that arrive: a login is let in below every limit.
LEMMA ArrivalPays ==
    ASSUME IInv, NEW h \in Handlers, Begin(h)
    PROVE  Paying(h)
<1>1. UNCHANGED recent /\ task'[h].at \in Arrivals
  BY ArrivalFlow
<1>2. CASE task'[h].at # "login_find"
  BY <1>1, <1>2, NothingPaid DEF Arrivals, Trying, Changing, Asking
<1>3. CASE task'[h].at = "login_find"
  <2>1. PICK u \in Users : ~OverLimit(u) /\ task'[h].user = u
    <3>1. \A next : Arrive(h, next) => task'[h] = next
      BY StepsAlone DEF Arrive
    <3>2. PICK u, password, device, bearer :
              u \in Users /\ Login(h, u, password, device, bearer)
      <4>1. ASSUME NEW next, Arrive(h, next) PROVE next.at = "login_find"
        BY <1>3, <3>1, <4>1
      <4>2. \A u, dto, device : ~Register(h, u, dto, device)
        BY <4>1 DEF Register
      <4>3. \A u, s, device : ~RefreshToken(h, u, s, device)
        BY <4>1 DEF RefreshToken
      <4>4. \A u, s, sequel : ~Authenticate(h, u, s, sequel)
        BY <4>1 DEF Authenticate
      <4>5. \A u, dto : ~UpdateUserAccess(h, u, dto)
        BY <4>1 DEF UpdateUserAccess
      <4>6. \A u : ~ForgotPassword(h, u)
        BY <4>1 DEF ForgotPassword
      <4>7. \A l, password : ~ResetPassword(h, l, password)
        BY <4>1 DEF ResetPassword
      <4> QED BY <4>2, <4>3, <4>4, <4>5, <4>6, <4>7 DEF Begin, BeginLogin, LoginForSwagger
    <3>3. CASE OverLimit(u)
      BY <1>3, <3>1, <3>2, <3>3 DEF Login
    <3>4. CASE ~OverLimit(u)
      BY <3>1, <3>2, <3>4 DEF Login
    <3> QED BY <3>3, <3>4
  <2>2. \A w \in Windows : recent'[u].tried[w] < MaxLoginAttempts[w]
    <3> SUFFICES ASSUME NEW w \in Windows PROVE recent[u].tried[w] < MaxLoginAttempts[w]
      BY <1>1
    <3>1. /\ recent[u].tried[w] \in Nat /\ recent[u].limited[w] \in Nat
          /\ MaxLoginAttempts[w] \in Nat
      BY CountTypes, AuthAssumption DEF Recent
    <3>2. recent[u].tried[w] + recent[u].limited[w] < MaxLoginAttempts[w]
      BY <2>1, <3>1 DEF OverLimit
    <3> QED BY <3>1, <3>2
  <2>3. \A v \in Users :
            /\ h \notin On(v, Changing)' /\ h \notin On(v, Asking)'
            /\ v # u => h \notin On(v, Trying)'
    BY <1>3, <2>1 DEF On, Trying, Changing, Asking
  <2>4. \A v \in Users : /\ \A w \in Windows : recent'[v].tried[w] <= recent[v].tried[w]
                         /\ recent'[v].changes <= recent[v].changes
                         /\ recent'[v].requests <= recent[v].requests
    BY <1>1, CountTypes
  <2> QED BY <2>2, <2>3, <2>4 DEF Paying, Pays
<1> QED BY <1>2, <1>3


LEMMA ProceedPays ==
    ASSUME IInv, NEW h \in Handlers, Proceed(h)
    PROVE  Paying(h)
<1> USE DEF Trying, Changing, Asking, At
<1>0. PICK t : t = task[h] /\ t \in Task
  BY RowFields
<1>1. task'[h].at \in Onward(t.at) \cup {"idle"}
  BY <1>0, ProceedFlow
<1>2. CASE LoginLimited(h)
  <2>1. /\ t.at = "login_limited" /\ task'[h].at = "idle"
        /\ recent' = [recent EXCEPT ![t.user].limited =
                          [w \in Windows |-> recent[t.user].limited[w] + 1]]
    BY <1>0, <1>2, StepsAlone DEF LoginLimited, Finish, Idle
  <2>2. ASSUME NEW u \in Users
        PROVE  /\ recent'[u].tried = recent[u].tried /\ recent'[u].changes = recent[u].changes
               /\ recent'[u].requests = recent[u].requests
    <3>1. recent[u] \in Recent
      BY CountTypes
    <3> QED BY <2>1, <3>1 DEF IInv, TypeOK, Recent
  <2>3. \A u \in Users : \A places \in {Trying, Changing, Asking} : h \notin On(u, places)'
    BY <2>1 DEF On
  <2> QED BY <2>2, <2>3, CountTypes DEF Paying, Pays
<1>3. CASE LoginFailed(h)
  <2>1. /\ t.at \in {"login_unknown", "login_failed"} /\ task'[h].at \in {"idle", "login_lock"}
        /\ recent' = [recent EXCEPT ![t.user].tried =
                          [w \in Windows |-> recent[t.user].tried[w] + 1]]
    BY <1>0, <1>1, <1>3 DEF LoginFailed, Onward
  <2>2. t.user \in Users
    BY <1>0, <2>1, TaskFields
  <2>3. ASSUME NEW u \in Users
        PROVE  /\ \A w \in Windows :
                      recent'[u].tried[w] = recent[u].tried[w] + (IF u = t.user THEN 1 ELSE 0)
               /\ recent'[u].changes = recent[u].changes
               /\ recent'[u].requests = recent[u].requests
    <3>1. recent[u] \in Recent /\ \A w \in Windows : recent[u].tried[w] \in Nat
      BY CountTypes
    <3>2. CASE u = t.user
      BY <2>1, <2>2, <3>1, <3>2 DEF IInv, TypeOK, Recent
    <3>3. CASE u # t.user
      BY <2>1, <2>2, <3>1, <3>3 DEF IInv, TypeOK
    <3> QED BY <3>2, <3>3
  <2>4. /\ h \in On(t.user, Trying)
        /\ \A u \in Users : \A places \in {Trying, Changing, Asking} : h \notin On(u, places)'
    BY <1>0, <2>1 DEF On
  <2> QED BY <2>3, <2>4, CountTypes DEF Paying, Pays
<1>4. CASE ChangeCount(h)
  <2>1. PICK next : /\ Continue(h, next) /\ UNCHANGED recent /\ t.at = "change_count"
                    /\ \/ next = Idle
                       \/ /\ ~(recent[t.user].changes >= MaxPasswordChanges)
                          /\ next = Advanced(t, "change_save")
    BY <1>0, <1>4 DEF ChangeCount, Advanced, ReadOnly, tables
  <2>2. task'[h] = next
    BY <2>1, StepsAlone
  <2>3. CASE next = Idle
    BY <2>1, <2>2, <2>3, NothingPaid DEF Idle
  <2>4. CASE next # Idle
    <3>1. next.at = "change_save" /\ next.user = t.user /\ t.user \in Users
      BY <1>0, <2>1, <2>4, MovedOn, TaskFields
    <3>2. recent'[t.user].changes < MaxPasswordChanges
      BY <2>1, <2>4, <3>1, CountTypes, AuthAssumption
    <3>3. \A u \in Users : /\ h \notin On(u, Trying)' /\ h \notin On(u, Asking)'
                           /\ u # t.user => h \notin On(u, Changing)'
      BY <2>2, <3>1 DEF On
    <3>4. \A u \in Users : /\ \A w \in Windows : recent'[u].tried[w] <= recent[u].tried[w]
                           /\ recent'[u].changes <= recent[u].changes
                           /\ recent'[u].requests <= recent[u].requests
      BY <2>1, CountTypes
    <3> QED BY <3>2, <3>3, <3>4 DEF Paying, Pays
  <2> QED BY <2>3, <2>4
<1>5. CASE ChangeRecord(h)
  <2>1. /\ t.at = "change_record" /\ task'[h].at \in {"idle", "change_revoke"}
        /\ recent' = [recent EXCEPT ![t.user].changes = recent[t.user].changes + 1]
    BY <1>0, <1>1, <1>5 DEF ChangeRecord, Onward
  <2>2. t.user \in Users
    BY <1>0, <2>1, TaskFields
  <2>3. ASSUME NEW u \in Users
        PROVE  /\ recent'[u].tried = recent[u].tried
               /\ recent'[u].changes = recent[u].changes + (IF u = t.user THEN 1 ELSE 0)
               /\ recent'[u].requests = recent[u].requests
    <3>1. recent[u] \in Recent /\ recent[u].changes \in Nat
      BY CountTypes
    <3>2. CASE u = t.user
      BY <2>1, <2>2, <3>1, <3>2 DEF IInv, TypeOK, Recent
    <3>3. CASE u # t.user
      BY <2>1, <2>2, <3>1, <3>3 DEF IInv, TypeOK
    <3> QED BY <3>2, <3>3
  <2>4. /\ h \in On(t.user, Changing)
        /\ \A u \in Users : \A places \in {Trying, Changing, Asking} : h \notin On(u, places)'
    BY <1>0, <2>1 DEF On
  <2> QED BY <2>3, <2>4, CountTypes DEF Paying, Pays
<1>6. CASE ForgotCount(h)
  <2>1. PICK next : /\ Continue(h, next) /\ UNCHANGED recent /\ t.at = "forgot_count"
                    /\ \/ next = Idle
                       \/ /\ ~(recent[t.user].requests >= MaxForgotPasswordRequests)
                          /\ next = Advanced(t, "forgot_save")
    BY <1>0, <1>6 DEF ForgotCount, Advanced, ReadOnly, tables
  <2>2. task'[h] = next
    BY <2>1, StepsAlone
  <2>3. CASE next = Idle
    BY <2>1, <2>2, <2>3, NothingPaid DEF Idle
  <2>4. CASE next # Idle
    <3>1. next.at = "forgot_save" /\ next.user = t.user /\ t.user \in Users
      BY <1>0, <2>1, <2>4, MovedOn, TaskFields
    <3>2. recent'[t.user].requests < MaxForgotPasswordRequests
      BY <2>1, <2>4, <3>1, CountTypes, AuthAssumption
    <3>3. \A u \in Users : /\ h \notin On(u, Trying)' /\ h \notin On(u, Changing)'
                           /\ u # t.user => h \notin On(u, Asking)'
      BY <2>2, <3>1 DEF On
    <3>4. \A u \in Users : /\ \A w \in Windows : recent'[u].tried[w] <= recent[u].tried[w]
                           /\ recent'[u].changes <= recent[u].changes
                           /\ recent'[u].requests <= recent[u].requests
      BY <2>1, CountTypes
    <3> QED BY <3>2, <3>3, <3>4 DEF Paying, Pays
  <2> QED BY <2>3, <2>4
<1>7. CASE ForgotSave(h)
  <2>1. /\ t.at = "forgot_save" /\ task'[h].at = "idle"
        /\ recent' = [recent EXCEPT ![t.user].requests = recent[t.user].requests + 1]
    BY <1>0, <1>1, <1>7 DEF ForgotSave, Onward
  <2>2. t.user \in Users
    BY <1>0, <2>1, TaskFields
  <2>3. ASSUME NEW u \in Users
        PROVE  /\ recent'[u].tried = recent[u].tried /\ recent'[u].changes = recent[u].changes
               /\ recent'[u].requests = recent[u].requests + (IF u = t.user THEN 1 ELSE 0)
    <3>1. recent[u] \in Recent /\ recent[u].requests \in Nat
      BY CountTypes
    <3>2. CASE u = t.user
      BY <2>1, <2>2, <3>1, <3>2 DEF IInv, TypeOK, Recent
    <3>3. CASE u # t.user
      BY <2>1, <2>2, <3>1, <3>3 DEF IInv, TypeOK
    <3> QED BY <3>2, <3>3
  <2>4. /\ h \in On(t.user, Asking)
        /\ \A u \in Users : \A places \in {Trying, Changing, Asking} : h \notin On(u, places)'
    BY <1>0, <2>1 DEF On
  <2> QED BY <2>3, <2>4, CountTypes DEF Paying, Pays
<1>8. CASE LoginFind(h) \/ ChangeSave(h)
  <2>1. /\ UNCHANGED recent
        /\ task'[h].at \in {"login_unknown", "login_failed"} =>
               t.at = "login_find" /\ task'[h].user = t.user
        /\ task'[h].at = "change_record" => t.at = "change_save" /\ task'[h].user = t.user
        /\ task'[h].at \notin {"login_find", "change_save", "forgot_save"}
    <3>1. CASE LoginFind(h)
      <4>1. PICK next : /\ Continue(h, next) /\ UNCHANGED recent /\ t.at = "login_find"
                        /\ \/ next = Idle \/ next.at = "login_save"
                           \/ next.at \in {"login_unknown", "login_failed"} /\ next.user = t.user
        BY <1>0, <3>1 DEF LoginFind, ReadOnly, tables
      <4> QED BY <4>1, StepsAlone DEF Idle
    <3>2. CASE ChangeSave(h)
      <4>1. PICK next : /\ Continue(h, next) /\ UNCHANGED recent /\ t.at = "change_save"
                        /\ next = [at |-> "change_record", user |-> t.user, session |-> t.session]
        BY <1>0, <3>2 DEF ChangeSave
      <4> QED BY <4>1, StepsAlone
    <3> QED BY <1>8, <3>1, <3>2
  <2> QED BY <1>0, <2>1, NothingPaid
<1>9. CASE \/ LoginLock(h) \/ LoginSave(h) \/ SessionFind(h) \/ SessionMismatch(h)
           \/ SessionCount(h) \/ SessionOldest(h) \/ SessionReplace(h) \/ SessionSave(h)
           \/ RefreshFind(h) \/ ValidateFind(h) \/ ValidateSave(h)
  <2>1. /\ UNCHANGED recent
        /\ t.at \in {"login_lock", "login_save", "session_find", "session_mismatch",
                     "session_count", "session_oldest", "session_replace", "session_save",
                     "refresh_find", "validate_find", "validate_save"}
    BY <1>0, <1>9
       DEF LoginLock, LoginSave, SessionFind, SessionMismatch, SessionCount, SessionOldest,
           SessionReplace, SessionSave, RefreshFind, ValidateFind, ValidateSave, SaveSession,
           ReadOnly, tables
  <2>2. task'[h].at \notin Trying \cup Changing \cup Asking
    BY <1>1, <2>1 DEF Onward
  <2> QED BY <2>1, <2>2, NothingPaid
<1>10. CASE ChangeFind(h) \/ ChangeRevoke(h) \/ AccessSave(h) \/ ResetSave(h) \/ ResetRevoke(h)
  <2>1. /\ UNCHANGED recent
        /\ t.at \in {"change_find", "change_revoke", "access_save", "reset_save", "reset_revoke"}
    BY <1>0, <1>10
       DEF ChangeFind, ChangeRevoke, AccessSave, ResetSave, ResetRevoke, ReadOnly, tables
  <2>2. task'[h].at \notin Trying \cup Changing \cup Asking
    BY <1>1, <2>1 DEF Onward
  <2> QED BY <2>1, <2>2, NothingPaid
<1> QED BY <1>2, <1>3, <1>4, <1>5, <1>6, <1>7, <1>8, <1>9, <1>10 DEF Proceed


\* Time only lowers the counts.
LEMMA ElapsePays ==
    ASSUME IInv, Elapse, NEW h \in Handlers
    PROVE  Paying(h)
<1>1. UNCHANGED task
  BY DEF Elapse
<1>2. ASSUME NEW u \in Users
      PROVE  /\ \A w \in Windows : recent'[u].tried[w] <= recent[u].tried[w]
             /\ recent'[u].changes <= recent[u].changes
             /\ recent'[u].requests <= recent[u].requests
  <2>1. /\ recent[u] \in Recent /\ \A w \in Windows : recent[u].tried[w] \in Nat
        /\ recent[u].changes \in Nat /\ recent[u].requests \in Nat
    BY CountTypes
  <2>2. PICK v \in Users :
            \/ \E w \in Windows : recent' = [recent EXCEPT ![v]["tried"][w] = @ - 1]
            \/ \E w \in Windows : recent' = [recent EXCEPT ![v]["limited"][w] = @ - 1]
            \/ recent' = [recent EXCEPT ![v]["changes"] = @ - 1]
            \/ recent' = [recent EXCEPT ![v]["requests"] = @ - 1]
    BY DEF Elapse
  <2>3. CASE u # v
    BY <2>1, <2>2, <2>3 DEF IInv, TypeOK
  <2>4. CASE u = v
    <3>1. CASE \E w \in Windows : recent' = [recent EXCEPT ![v]["tried"][w] = @ - 1]
      BY <2>1, <2>4, <3>1 DEF IInv, TypeOK, Recent
    <3>2. CASE \E w \in Windows : recent' = [recent EXCEPT ![v]["limited"][w] = @ - 1]
      BY <2>1, <2>4, <3>2 DEF IInv, TypeOK, Recent
    <3>3. CASE recent' = [recent EXCEPT ![v]["changes"] = @ - 1]
      BY <2>1, <2>4, <3>3 DEF IInv, TypeOK, Recent
    <3>4. CASE recent' = [recent EXCEPT ![v]["requests"] = @ - 1]
      BY <2>1, <2>4, <3>4 DEF IInv, TypeOK, Recent
    <3> QED BY <2>2, <3>1, <3>2, <3>3, <3>4
  <2> QED BY <2>3, <2>4
<1> QED BY <1>1, <1>2 DEF Paying, Pays, On

LEMMA LimitsStep == IInv /\ IInv' /\ LimitsCounted /\ [Next]_vars => LimitsCounted'
<1> SUFFICES ASSUME IInv, IInv', LimitsCounted, [Next]_vars PROVE LimitsCounted'
  OBVIOUS
<1>1. ASSUME NEW h \in Handlers, Begin(h) PROVE LimitsCounted'
  BY <1>1, ArrivalFlow, ArrivalPays, LimitsKept
<1>2. ASSUME NEW h \in Handlers, Proceed(h) PROVE LimitsCounted'
  BY <1>2, ProceedFlow, ProceedPays, LimitsKept
<1>3. ASSUME NEW h \in Handlers, Fail(h) PROVE LimitsCounted'
  <2>1. Others(h) /\ task'[h] = Idle /\ UNCHANGED recent
    BY <1>3, StepsAlone DEF Fail, Finish, tables
  <2>2. Paying(h)
    BY <2>1, NothingPaid DEF Idle, Trying, Changing, Asking
  <2> QED BY <2>1, <2>2, LimitsKept
<1>4. CASE Elapse
  <2>1. PICK h \in Handlers : TRUE
    BY AuthAssumption
  <2>2. Others(h)
    BY <1>4 DEF Elapse, Others
  <2> QED BY <1>4, <2>1, <2>2, ElapsePays, LimitsKept
<1>5. CASE UNCHANGED vars
  BY <1>5 DEF vars, tables, LimitsCounted, On, Slack
<1> QED BY <1>1, <1>2, <1>3, <1>4, <1>5 DEF Next

LEMMA LimitsInit == Init => LimitsCounted
<1> SUFFICES ASSUME Init, NEW u \in Users
             PROVE  /\ \A w \in Windows :
                           recent[u].tried[w] + Cardinality(On(u, Trying))
                               <= MaxLoginAttempts[w] + Slack
                    /\ recent[u].changes + Cardinality(On(u, Changing))
                           <= MaxPasswordChanges + Slack
                    /\ recent[u].requests + Cardinality(On(u, Asking))
                           <= MaxForgotPasswordRequests + Slack
  BY DEF LimitsCounted
<1>1. /\ recent[u].changes = 0 /\ recent[u].requests = 0
      /\ \A w \in Windows : recent[u].tried[w] = 0
  BY DEF Init, NothingRecent
<1>2. \A places \in {Trying, Changing, Asking} : Cardinality(On(u, places)) = 0
  <2>1. \A places \in {Trying, Changing, Asking} : On(u, places) = {}
    BY DEF Init, On, Idle, Trying, Changing, Asking
  <2> QED BY <2>1, FS_EmptySet
<1>3. Slack \in Nat
  BY FewHandlers DEF Slack
<1>4. /\ \A w \in Windows : MaxLoginAttempts[w] \in Nat
      /\ MaxPasswordChanges \in Nat /\ MaxForgotPasswordRequests \in Nat
  BY AuthAssumption
<1> QED BY <1>1, <1>2, <1>3, <1>4

\* The limits on wrong passwords, password changes and requests for a link are exceeded by no
\* more than one for every other request in flight: each of them is counted, and found within
\* its limit, before it is recorded (AuthService.ensureLoginAttemptsWithinLimit,
\* changePassword, forgotPassword).
THEOREM LimitsHoldAlways == Spec => []LimitsHold
<1>1. IInv /\ LimitsCounted => LimitsHold
  <2> SUFFICES ASSUME IInv, LimitsCounted, NEW u \in Users
               PROVE  /\ \A w \in Windows : recent[u].tried[w] <= MaxLoginAttempts[w] + Slack
                      /\ recent[u].changes <= MaxPasswordChanges + Slack
                      /\ recent[u].requests <= MaxForgotPasswordRequests + Slack
    BY DEF LimitsHold, Slack
  <2>1. \A places : On(u, places) \in SUBSET Handlers
    BY DEF On
  <2>2. \A places : Cardinality(On(u, places)) \in Nat
    BY <2>1, FewHandlers
  <2>3. Slack \in Nat
    BY FewHandlers DEF Slack
  <2>4. /\ \A w \in Windows : MaxLoginAttempts[w] \in Nat
        /\ MaxPasswordChanges \in Nat /\ MaxForgotPasswordRequests \in Nat
    BY AuthAssumption
  <2>5. ASSUME NEW w \in Windows PROVE recent[u].tried[w] <= MaxLoginAttempts[w] + Slack
    BY <2>2, <2>3, <2>4, CountTypes DEF LimitsCounted
  <2>6. /\ recent[u].changes <= MaxPasswordChanges + Slack
        /\ recent[u].requests <= MaxForgotPasswordRequests + Slack
    BY <2>2, <2>3, <2>4, CountTypes DEF LimitsCounted
  <2> QED BY <2>5, <2>6
<1> QED BY <1>1, LimitsInit, LimitsStep, Invariant, PTL DEF Spec


-----------------------------------------------------------------------------
(***************************************************************************)
(* Devices                                                                 *)
(***************************************************************************)
\* The stops of a request that may yet find, or make, a session.
Deciding == {"login_find", "login_save", "session_find", "session_mismatch", "session_count",
             "session_oldest", "session_replace", "refresh_find", "validate_find"}

\* The stops at which it is about to save one.
Saving == {"session_save", "validate_save"}

\* The sessions of u that are active, or that a handler will save.
Held(u) == {s \in SessionIds : \E h \in Handlers : /\ task[h].at \in Saving
                                                   /\ task[h].session = s
                                                   /\ task[h].row.user = u}
Claimed(u) == ActiveSessions(u) \cup Held(u)

\* The handlers that may yet make a session of u.
Opens(t, u) == t.at = "session_save" /\ t.session = None /\ t.row.user = u
Engaged(u) == {h \in Handlers : task[h].at \in Deciding \/ Opens(task[h], u)}

Potential(u) == Cardinality(Claimed(u)) + Cardinality(Engaged(u))

InFlight == {h \in Handlers : ~At(h, "idle")}

Settled(u) == Potential(u) <= MaxActiveDeviceSessions + overlaps

\* One more, while every request in flight has still to decide, and whatever of u is to be
\* replaced is active.
Unsettled(u) ==
    /\ Potential(u) <= MaxActiveDeviceSessions + overlaps + 1
    /\ InFlight # {}
    /\ \A h \in InFlight :
           /\ task[h].at \in Deciding
           /\ At(h, "session_replace") /\ task[h].row.user = u =>
                  task[h].session \in ActiveSessions(u)

DevicesCounted ==
    /\ Cardinality(InFlight) <= overlaps + 1
    /\ \A u \in Users : Settled(u) \/ Unsettled(u)

\* What a step does to two sets, one of which it changes only at h, does to their sizes.
LEMMA Weigh ==
    ASSUME NEW C, NEW D, NEW s, IsFiniteSet(C),
           NEW E \in SUBSET Handlers, NEW F \in SUBSET Handlers, NEW h, E \ {h} = F \ {h},
           NEW c \in Int,
           \/ D \subseteq C /\ c = 0
           \/ D \subseteq C \ {s} /\ s \in C /\ c = -1
           \/ D \subseteq C \cup {s} /\ c = 1
    PROVE  /\ Cardinality(C) + Cardinality(E) \in Nat /\ Cardinality(D) + Cardinality(F) \in Nat
           /\ Cardinality(D) + Cardinality(F)
                  <= Cardinality(C) + Cardinality(E) + c + Tally(h, F) - Tally(h, E)
<1>1. IsFiniteSet(D) /\ Cardinality(D) <= Cardinality(C) + c /\ Cardinality(C) \in Nat
  <2>1. Cardinality(C) \in Nat
    BY FS_CardinalityType
  <2>2. CASE D \subseteq C /\ c = 0
    BY <2>1, <2>2, FS_Subset
  <2>3. CASE D \subseteq C \ {s} /\ s \in C /\ c = -1
    <3>1. IsFiniteSet(C \ {s}) /\ Cardinality(C \ {s}) = Cardinality(C) - 1
      BY <2>3, FS_RemoveElement
    <3>2. IsFiniteSet(D) /\ Cardinality(D) <= Cardinality(C \ {s})
      BY <2>3, <3>1, FS_Subset
    <3> QED BY <2>1, <2>3, <3>1, <3>2
  <2>4. CASE D \subseteq C \cup {s} /\ c = 1
    <3>1. IsFiniteSet(C \cup {s}) /\ Cardinality(C \cup {s}) <= Cardinality(C) + 1
      BY <2>1, FS_AddElement
    <3>2. /\ IsFiniteSet(D) /\ Cardinality(D) <= Cardinality(C \cup {s})
          /\ Cardinality(C \cup {s}) \in Nat /\ Cardinality(D) \in Nat
      BY <2>4, <3>1, FS_Subset, FS_CardinalityType
    <3> QED BY <2>1, <2>4, <3>1, <3>2
  <2> QED BY <2>2, <2>3, <2>4, <2>1
<1>2. Cardinality(D) \in Nat
  BY <1>1, FS_CardinalityType
<1>3. IsFiniteSet(E) /\ Cardinality(E) \in Nat /\ Cardinality(F) \in Nat
  BY FewHandlers
<1>4. Cardinality(F) = Cardinality(E) + Tally(h, F) - Tally(h, E)
  BY <1>3, OneMoves
<1> QED BY <1>1, <1>2, <1>3, <1>4, TallyTyped


LEMMA ClaimsFinite ==
    \A u : /\ IsFiniteSet(Claimed(u)) /\ IsFiniteSet(ActiveSessions(u))
           /\ Claimed(u) \subseteq SessionIds
<1>1. \A u : Claimed(u) \in SUBSET SessionIds /\ ActiveSessions(u) \in SUBSET SessionIds
  BY DEF Claimed, Held, ActiveSessions, SessionsOf
<1> QED BY <1>1, FS_Subset, AuthAssumption

LEMMA PotentialStep ==
    ASSUME NEW h \in Handlers, Others(h), NEW u, NEW s, NEW c \in Int,
           \/ Claimed(u)' \subseteq Claimed(u) /\ c = 0
           \/ Claimed(u)' \subseteq Claimed(u) \ {s} /\ s \in Claimed(u) /\ c = -1
           \/ Claimed(u)' \subseteq Claimed(u) \cup {s} /\ c = 1
    PROVE  /\ Potential(u) \in Nat /\ Potential(u)' \in Nat
           /\ Potential(u)' <= Potential(u) + c + Tally(h, Engaged(u)') - Tally(h, Engaged(u))
<1>1. Engaged(u) \in SUBSET Handlers /\ Engaged(u)' \in SUBSET Handlers
  BY DEF Engaged
<1>2. Engaged(u) \ {h} = Engaged(u)' \ {h}
  BY DEF Engaged, Others, Opens
<1> QED BY <1>1, <1>2, ClaimsFinite, Weigh DEF Potential

\* A step that saves no session: what its handler will save is active.
LEMMA ClaimsRead ==
    ASSUME NEW h \in Handlers, Others(h), UNCHANGED sessions, NEW u,
           task'[h].at \in Saving /\ task'[h].session \in SessionIds /\ task'[h].row.user = u =>
               task'[h].session \in ActiveSessions(u)
    PROVE  /\ ActiveSessions(u)' = ActiveSessions(u)
           /\ Claimed(u)' \subseteq Claimed(u)
<1>1. ActiveSessions(u)' = ActiveSessions(u)
  BY DEF ActiveSessions, SessionsOf
<1>2. Held(u)' \subseteq Held(u) \cup ActiveSessions(u)
  BY DEF Held, Others
<1> QED BY <1>1, <1>2 DEF Claimed

\* A save of one session.
LEMMA ClaimsSaved ==
    ASSUME IInv, NEW h \in Handlers, Others(h),
           task'[h].at \notin Saving \/ task'[h].session = None,
           NEW s \in SessionIds, NEW row \in AuthSession, sessions' = [sessions EXCEPT ![s] = row],
           NEW u
    PROVE  /\ Claimed(u)' \subseteq Claimed(u) \cup {s}
           /\ row.user # u \/ ~row.isActive =>
                  /\ ActiveSessions(u)' = ActiveSessions(u) \ {s}
                  /\ Claimed(u)' \subseteq Claimed(u)
<1>1. /\ sessions'[s] = row /\ row # None
      /\ \A r \in SessionIds : r # s => sessions'[r] = sessions[r]
  BY RowAssumption DEF IInv, TypeOK
<1>2. Held(u)' \subseteq Held(u)
  <2> SUFFICES ASSUME NEW r \in SessionIds, NEW g \in Handlers, task'[g].at \in Saving,
                      task'[g].session = r, task'[g].row.user = u
               PROVE  r \in Held(u)
    BY DEF Held
  <2>1. g # h
    BY AuthAssumption
  <2> QED BY <2>1 DEF Held, Others
<1>3. \A r \in SessionIds : r # s => (r \in ActiveSessions(u)' <=> r \in ActiveSessions(u))
  BY <1>1 DEF ActiveSessions, SessionsOf
<1>4. ActiveSessions(u) \subseteq SessionIds /\ ActiveSessions(u)' \subseteq SessionIds
  BY DEF ActiveSessions, SessionsOf
<1>5. row.user # u \/ ~row.isActive => s \notin ActiveSessions(u)'
  BY <1>1 DEF ActiveSessions, SessionsOf
<1> QED BY <1>2, <1>3, <1>4, <1>5 DEF Claimed

\* Steps that leave the potential of u, or lower it.
LEMMA StaysSettled ==
    ASSUME IInv, UNCHANGED overlaps, NEW u, Settled(u), Potential(u) \in Nat,
           Potential(u)' \in Nat, Potential(u)' <= Potential(u)
    PROVE  Settled(u)'
<1>1. overlaps \in Nat /\ MaxActiveDeviceSessions \in Nat
  BY AuthAssumption DEF IInv, TypeOK
<1> QED BY <1>1 DEF Settled

LEMMA BecomesSettled ==
    ASSUME IInv, UNCHANGED overlaps, NEW u, Settled(u) \/ Unsettled(u), Potential(u) \in Nat,
           Potential(u)' \in Nat, Potential(u)' < Potential(u)
    PROVE  Settled(u)'
<1>1. overlaps \in Nat /\ MaxActiveDeviceSessions \in Nat
  BY AuthAssumption DEF IInv, TypeOK
<1> QED BY <1>1 DEF Settled, Unsettled


LEMMA NothingHeld ==
    ASSUME NEW u, Unsettled(u)
    PROVE  Held(u) = {} /\ Claimed(u) = ActiveSessions(u)
<1>1. \A h \in Handlers : task[h].at \in Saving => FALSE
  BY DEF Unsettled, InFlight, At, Deciding, Saving
<1> QED BY <1>1 DEF Held, Claimed

\* A step after the decision.
LEMMA DecidedStep ==
    ASSUME IInv, UNCHANGED overlaps, NEW h \in Handlers, Others(h), NEW u,
           Settled(u) \/ Unsettled(u), h \in InFlight, task[h].at \notin Deciding,
           task'[h].at \notin Deciding \cup Saving, Claimed(u)' \subseteq Claimed(u)
    PROVE  Settled(u)'
<1>1. Settled(u)
  BY DEF Unsettled
<1>2. h \notin Engaged(u)'
  BY DEF Engaged, Opens, Saving
<1>3. /\ Potential(u) \in Nat /\ Potential(u)' \in Nat
      /\ Potential(u)' <= Potential(u) + 0 + Tally(h, Engaged(u)') - Tally(h, Engaged(u))
  BY PotentialStep
<1>4. Potential(u)' <= Potential(u)
  BY <1>2, <1>3, TallyTyped DEF Tally
<1> QED BY <1>1, <1>3, <1>4, StaysSettled

\* A step from one stop before the decision to another, or to a session that is there.
LEMMA DecidingStep ==
    ASSUME IInv, UNCHANGED <<overlaps, sessions>>, NEW h \in Handlers, Others(h), NEW u,
           Settled(u) \/ Unsettled(u), task[h].at \in Deciding, ~Opens(task'[h], u),
           task'[h].at \in {"session_replace"} \cup Saving /\ task'[h].session \in SessionIds
               /\ task'[h].row.user = u => task'[h].session \in ActiveSessions(u),
           task'[h].at = "session_replace" => task'[h].session \in SessionIds
    PROVE  Settled(u)' \/ Unsettled(u)'
<1>1. ActiveSessions(u)' = ActiveSessions(u) /\ Claimed(u)' \subseteq Claimed(u)
  BY ClaimsRead
<1>2. /\ Potential(u) \in Nat /\ Potential(u)' \in Nat
      /\ Potential(u)' <= Potential(u) + 0 + Tally(h, Engaged(u)') - Tally(h, Engaged(u))
  BY <1>1, PotentialStep
<1>3. h \in Engaged(u) /\ (h \in Engaged(u)' => task'[h].at \in Deciding)
  BY DEF Engaged, Opens
<1>4. CASE h \notin Engaged(u)'
  <2>1. Potential(u)' < Potential(u)
    BY <1>2, <1>3, <1>4 DEF Tally
  <2> QED BY <1>2, <2>1, BecomesSettled
<1>5. CASE h \in Engaged(u)'
  <2>1. Potential(u)' <= Potential(u)
    BY <1>2, <1>3, <1>5 DEF Tally
  <2>2. CASE Settled(u)
    BY <1>2, <2>1, <2>2, StaysSettled
  <2>3. CASE Unsettled(u)
    <3>1. Potential(u)' <= MaxActiveDeviceSessions + overlaps + 1
      <4>1. overlaps \in Nat /\ MaxActiveDeviceSessions \in Nat
        BY AuthAssumption DEF IInv, TypeOK
      <4> QED BY <1>2, <2>1, <2>3, <4>1 DEF Unsettled
    <3>2. InFlight' = InFlight
      BY <1>3, <1>5 DEF InFlight, At, Deciding, Others
    <3>3. \A g \in InFlight :
              /\ task'[g].at \in Deciding
              /\ task'[g].at = "session_replace" /\ task'[g].row.user = u =>
                     task'[g].session \in ActiveSessions(u)
      <4> SUFFICES ASSUME NEW g \in InFlight
                   PROVE  /\ task'[g].at \in Deciding
                          /\ task'[g].at = "session_replace" /\ task'[g].row.user = u =>
                                 task'[g].session \in ActiveSessions(u)
        OBVIOUS
      <4>1. CASE g = h
        BY <1>3, <1>5, <4>1
      <4>2. CASE g # h
        BY <2>3, <4>2 DEF Unsettled, InFlight, Others, At
      <4> QED BY <4>1, <4>2
    <3> QED BY <1>1, <2>3, <3>1, <3>2, <3>3 DEF Unsettled, At
  <2> QED BY <2>2, <2>3
<1> QED BY <1>4, <1>5

\* A step to a session that is new: its user has fewer active ones than are allowed.
LEMMA OpeningStep ==
    ASSUME IInv, UNCHANGED <<overlaps, sessions>>, NEW h \in Handlers, Others(h), NEW u,
           Settled(u) \/ Unsettled(u), task[h].at \in Deciding, Opens(task'[h], u),
           Cardinality(InFlight) <= overlaps + 1,
           Cardinality(ActiveSessions(u)) < MaxActiveDeviceSessions
    PROVE  Settled(u)'
<1>0. task'[h].session \notin SessionIds
  BY AuthAssumption DEF Opens
<1>1. ActiveSessions(u)' = ActiveSessions(u) /\ Claimed(u)' \subseteq Claimed(u)
  BY <1>0, ClaimsRead
<1>2. /\ Potential(u) \in Nat /\ Potential(u)' \in Nat
      /\ Potential(u)' <= Potential(u) + 0 + Tally(h, Engaged(u)') - Tally(h, Engaged(u))
  BY <1>1, PotentialStep
<1>3. h \in Engaged(u) /\ h \in Engaged(u)'
  BY DEF Engaged
<1>4. CASE Settled(u)
  <2>1. Potential(u)' <= Potential(u)
    BY <1>2, <1>3 DEF Tally
  <2> QED BY <1>2, <1>4, <2>1, StaysSettled
<1>5. CASE Unsettled(u)
  <2>1. Claimed(u)' \subseteq ActiveSessions(u)
    BY <1>1, <1>5, NothingHeld
  <2>2. Engaged(u)' \subseteq InFlight
    <3>1. h \in InFlight
      BY DEF InFlight, At, Deciding
    <3>2. \A g \in Engaged(u)' : g # h => g \in InFlight
      BY DEF Engaged, Opens, InFlight, At, Deciding, Others
    <3> QED BY <3>1, <3>2
  <2>3. InFlight \in SUBSET Handlers
    BY DEF InFlight
  <2>4. /\ Cardinality(Engaged(u)') <= Cardinality(InFlight) /\ Cardinality(InFlight) \in Nat
        /\ Cardinality(Engaged(u)') \in Nat
    BY <2>2, <2>3, FewHandlers, FS_Subset, FS_CardinalityType
  <2>5. /\ Cardinality(Claimed(u)') <= Cardinality(ActiveSessions(u))
        /\ Cardinality(ActiveSessions(u)) \in Nat /\ Cardinality(Claimed(u)') \in Nat
    BY <2>1, ClaimsFinite, FS_Subset, FS_CardinalityType
  <2>6. overlaps \in Nat /\ MaxActiveDeviceSessions \in Nat
    BY AuthAssumption DEF IInv, TypeOK
  <2>7. Cardinality(Claimed(u)') + Cardinality(Engaged(u)') <= MaxActiveDeviceSessions + overlaps
    BY <2>4, <2>5, <2>6
  <2> QED BY <2>7 DEF Settled, Potential
<1> QED BY <1>4, <1>5


\* A step that revokes session s, for one that does not match or to make room for another.
LEMMA RevokingStep ==
    ASSUME IInv, UNCHANGED overlaps, NEW h \in Handlers, Others(h), NEW u,
           Settled(u) \/ Unsettled(u), task[h].at \in {"session_mismatch", "session_replace"},
           NEW s \in SessionIds, NEW row \in AuthSession, sessions' = [sessions EXCEPT ![s] = row],
           ~row.isActive, s = task[h].session,
           \/ task'[h].at = "session_count"
           \/ /\ task'[h].at = "session_save" /\ task'[h].session = None
              /\ Opens(task'[h], u) => At(h, "session_replace") /\ task[h].row.user = u
    PROVE  Settled(u)' \/ Unsettled(u)'
<1>1. /\ ActiveSessions(u)' = ActiveSessions(u) \ {s} /\ Claimed(u)' \subseteq Claimed(u)
  BY ClaimsSaved DEF Saving
<1>2. /\ Potential(u) \in Nat /\ Potential(u)' \in Nat
      /\ Potential(u)' <= Potential(u) + 0 + Tally(h, Engaged(u)') - Tally(h, Engaged(u))
  BY <1>1, PotentialStep
<1>3. h \in Engaged(u)
  BY DEF Engaged, Deciding
<1>4. Potential(u)' <= Potential(u)
  BY <1>2, <1>3, TallyTyped DEF Tally
<1>5. CASE Settled(u)
  BY <1>2, <1>4, <1>5, StaysSettled
<1>6. CASE Unsettled(u) /\ s \in ActiveSessions(u)
  <2>1. Held(u)' = {}
    <3>1. \A g \in Handlers : task'[g].at \in Saving => task'[g].session \notin SessionIds
      BY <1>6, AuthAssumption DEF Unsettled, InFlight, At, Deciding, Saving, Others
    <3> QED BY <3>1 DEF Held
  <2>2. Claimed(u)' \subseteq Claimed(u) \ {s} /\ s \in Claimed(u)
    BY <1>1, <1>6, <2>1 DEF Claimed
  <2>3. /\ Potential(u) \in Nat /\ Potential(u)' \in Nat
        /\ Potential(u)' <= Potential(u) + (-1) + Tally(h, Engaged(u)') - Tally(h, Engaged(u))
    BY <2>2, PotentialStep
  <2>4. Potential(u)' < Potential(u)
    BY <1>3, <2>3, TallyTyped DEF Tally
  <2> QED BY <1>6, <2>3, <2>4, BecomesSettled
<1>7. CASE Unsettled(u) /\ s \notin ActiveSessions(u)
  <2>1. ActiveSessions(u)' = ActiveSessions(u)
    BY <1>1, <1>7
  <2>2. CASE task'[h].at = "session_count"
    <3>1. InFlight' = InFlight
      BY <2>2 DEF InFlight, At, Others
    <3>2. \A g \in InFlight : task'[g].at \in Deciding
      BY <1>7, <2>2 DEF Unsettled, Others, Deciding, InFlight
    <3>3. \A g \in InFlight : task'[g].at = "session_replace" /\ task'[g].row.user = u =>
                                  task'[g].session \in ActiveSessions(u)
      BY <1>7, <2>2 DEF Unsettled, Others, InFlight, At
    <3>4. Potential(u)' <= MaxActiveDeviceSessions + overlaps + 1
      <4>1. overlaps \in Nat /\ MaxActiveDeviceSessions \in Nat
        BY AuthAssumption DEF IInv, TypeOK
      <4> QED BY <1>2, <1>4, <1>7, <4>1 DEF Unsettled
    <3> QED BY <1>7, <2>1, <3>1, <3>2, <3>3, <3>4 DEF Unsettled, At
  <2>3. CASE task'[h].at = "session_save"
    <3>1. h \in InFlight
      BY DEF InFlight, At
    <3>2. ~Opens(task'[h], u)
      BY <1>7, <2>3, <3>1 DEF Unsettled
    <3>3. h \notin Engaged(u)'
      BY <2>3, <3>2 DEF Engaged, Deciding
    <3>4. Potential(u)' < Potential(u)
      BY <1>2, <1>3, <3>3 DEF Tally
    <3> QED BY <1>2, <1>7, <3>4, BecomesSettled
  <2> QED BY <2>2, <2>3
<1> QED BY <1>5, <1>6, <1>7

\* A step that saves an active session: its handler was to make it, or has held it.
LEMMA SavingStep ==
    ASSUME IInv, UNCHANGED overlaps, NEW h \in Handlers, Others(h), NEW u,
           Settled(u) \/ Unsettled(u), task[h].at \in Saving,
           NEW s \in SessionIds, NEW row \in AuthSession, sessions' = [sessions EXCEPT ![s] = row],
           row = task[h].row,
           (At(h, "session_save") /\ task[h].session = None) \/ s = task[h].session,
           task'[h].at \notin Deciding \cup Saving
    PROVE  Settled(u)'
<1>1. /\ Claimed(u)' \subseteq Claimed(u) \cup {s}
      /\ row.user # u => Claimed(u)' \subseteq Claimed(u)
  BY ClaimsSaved
<1>2. Settled(u)
  BY DEF Unsettled, InFlight, At, Deciding, Saving
<1>3. h \in InFlight /\ task[h].at \notin Deciding
  BY DEF InFlight, At, Deciding, Saving
<1>4. CASE Claimed(u)' \subseteq Claimed(u)
  BY <1>3, <1>4, DecidedStep
<1>5. CASE row.user = u /\ s = task[h].session
  <2>1. s \in Claimed(u)
    BY <1>5 DEF Claimed, Held
  <2>2. Claimed(u)' \subseteq Claimed(u)
    BY <1>1, <2>1
  <2> QED BY <1>3, <2>2, DecidedStep
<1>6. CASE row.user = u /\ At(h, "session_save") /\ task[h].session = None
  <2>1. h \in Engaged(u) /\ h \notin Engaged(u)'
    BY <1>6 DEF Engaged, Opens, At, Saving
  <2>2. /\ Potential(u) \in Nat /\ Potential(u)' \in Nat
        /\ Potential(u)' <= Potential(u) + 1 + Tally(h, Engaged(u)') - Tally(h, Engaged(u))
    BY <1>1, PotentialStep
  <2>3. Potential(u)' <= Potential(u)
    BY <2>1, <2>2 DEF Tally
  <2> QED BY <1>2, <2>2, <2>3, StaysSettled
<1> QED BY <1>1, <1>4, <1>5, <1>6


\* A request that arrives adds itself, and is counted unless it finds the service idle.
LEMMA ArrivingStep ==
    ASSUME IInv, DevicesCounted, NEW h \in Handlers, Begin(h)
    PROVE  DevicesCounted'
<1>1. /\ Others(h) /\ At(h, "idle") /\ task'[h].at \in Arrivals /\ UNCHANGED sessions
      /\ overlaps' = IF \A g \in Handlers : At(g, "idle") THEN overlaps ELSE overlaps + 1
  BY ArrivalFlow
<1>2. overlaps \in Nat /\ MaxActiveDeviceSessions \in Nat
  BY AuthAssumption DEF IInv, TypeOK
<1>3. /\ InFlight \in SUBSET Handlers /\ InFlight' \in SUBSET Handlers
      /\ InFlight \ {h} = InFlight' \ {h} /\ h \notin InFlight /\ h \in InFlight'
      /\ overlaps' = IF InFlight = {} THEN overlaps ELSE overlaps + 1
  BY <1>1 DEF InFlight, At, Others, Arrivals
<1>4. Cardinality(InFlight') <= overlaps' + 1
  <2>1. IsFiniteSet(InFlight) /\ Cardinality(InFlight) \in Nat /\ Cardinality(InFlight') \in Nat
    BY <1>3, FewHandlers
  <2>2. Cardinality(InFlight') = Cardinality(InFlight) + 1
    BY <1>3, <2>1, OneMoves DEF Tally
  <2>3. InFlight = {} => Cardinality(InFlight) = 0
    BY FS_EmptySet
  <2> QED BY <1>2, <1>3, <2>1, <2>2, <2>3 DEF DevicesCounted
<1>5. ASSUME NEW u \in Users PROVE Settled(u)' \/ Unsettled(u)'
  <2>1. ActiveSessions(u)' = ActiveSessions(u) /\ Claimed(u)' \subseteq Claimed(u)
    BY <1>1, ClaimsRead DEF Arrivals, Saving
  <2>2. /\ Potential(u) \in Nat /\ Potential(u)' \in Nat
        /\ Potential(u)' <= Potential(u) + 0 + Tally(h, Engaged(u)') - Tally(h, Engaged(u))
    BY <1>1, <2>1, PotentialStep
  <2>3. /\ h \notin Engaged(u) /\ task'[h].at # "session_replace"
        /\ h \in Engaged(u)' <=> task'[h].at \in Deciding
    BY <1>1 DEF Engaged, Opens, At, Deciding, Arrivals
  <2>4. Settled(u) \/ Unsettled(u)
    BY DEF DevicesCounted
  <2>5. CASE task'[h].at \in Deciding
    <3>1. Potential(u)' <= Potential(u) + 1
      BY <2>2, <2>3, TallyTyped DEF Tally
    <3>2. CASE InFlight # {} /\ Settled(u)
      BY <1>2, <1>3, <2>2, <3>1, <3>2 DEF Settled
    <3>3. CASE InFlight = {} \/ Unsettled(u)
      <4>1. Potential(u)' <= MaxActiveDeviceSessions + overlaps' + 1
        BY <1>2, <1>3, <2>2, <2>4, <3>1, <3>3 DEF Settled, Unsettled
      <4>2. \A g \in InFlight' :
                /\ task'[g].at \in Deciding
                /\ task'[g].at = "session_replace" /\ task'[g].row.user = u =>
                       task'[g].session \in ActiveSessions(u)
        <5>1. \A g \in InFlight' : g # h => g \in InFlight /\ task'[g] = task[g]
          BY <1>1, <1>3 DEF Others
        <5> QED BY <2>3, <2>5, <3>3, <5>1 DEF Unsettled, At
      <4> QED BY <1>3, <2>1, <4>1, <4>2 DEF Unsettled, At
    <3> QED BY <2>4, <3>2, <3>3
  <2>6. CASE task'[h].at \notin Deciding
    <3>1. Potential(u)' <= Potential(u)
      BY <2>2, <2>3, <2>6, TallyTyped DEF Tally
    <3> QED BY <1>2, <1>3, <2>2, <2>4, <3>1 DEF Settled, Unsettled
  <2> QED BY <2>5, <2>6
<1> QED BY <1>4, <1>5 DEF DevicesCounted

\* A request under way frees its place when it ends.
LEMMA FlightShrinks ==
    ASSUME IInv, DevicesCounted, NEW h \in Handlers, Others(h), h \in InFlight,
           UNCHANGED overlaps
    PROVE  Cardinality(InFlight') <= overlaps' + 1
<1>1. InFlight' \subseteq InFlight /\ InFlight \in SUBSET Handlers
  BY DEF InFlight, At, Others
<1>2. /\ Cardinality(InFlight') <= Cardinality(InFlight)
      /\ Cardinality(InFlight) \in Nat /\ Cardinality(InFlight') \in Nat
  BY <1>1, FewHandlers, FS_Subset, FS_CardinalityType
<1>3. overlaps \in Nat
  BY DEF IInv, TypeOK
<1> QED BY <1>2, <1>3 DEF DevicesCounted


\* The steps up to a session, found or made.
LEMMA FindKeepsDevices ==
    ASSUME IInv, DevicesCounted, NEW h \in Handlers, NEW u \in Users,
           \/ LoginFind(h) \/ LoginSave(h) \/ SessionFind(h) \/ SessionMismatch(h)
           \/ SessionCount(h) \/ SessionOldest(h) \/ SessionReplace(h)
           \/ RefreshFind(h) \/ ValidateFind(h)
    PROVE  Settled(u)' \/ Unsettled(u)'
<1> USE DEF At
<1>0. PICK t : t = task[h] /\ t \in Task /\ TaskJustified(t)
  BY RowFields
<1>1. Others(h) /\ UNCHANGED overlaps /\ task'[h].at \in Onward(t.at) \cup {"idle"}
  BY <1>0, ProceedFlow DEF Proceed
<1>2. (Settled(u) \/ Unsettled(u)) /\ Cardinality(InFlight) <= overlaps + 1
  BY DEF DevicesCounted
<1>3. \A v : \A s \in ActiveSessions(v) :
          /\ s \in SessionIds /\ s # None /\ sessions[s].user = v
          /\ sessions[s] \in AuthSession
  BY RowFields, AuthAssumption DEF ActiveSessions, SessionsOf
<1>4. CASE LoginFind(h) \/ LoginSave(h)
  <2>1. t.at \in {"login_find", "login_save"} /\ UNCHANGED sessions
    BY <1>0, <1>4 DEF LoginFind, LoginSave, SaveUser, ReadOnly, tables
  <2>2. task'[h].at \notin {"session_replace"} \cup Saving
    BY <1>1, <2>1 DEF Onward, Saving
  <2> QED BY <1>0, <1>1, <1>2, <2>1, <2>2, DecidingStep DEF Opens, Saving, Deciding
<1>5. CASE SessionFind(h) \/ RefreshFind(h) \/ ValidateFind(h)
  <2>1. /\ t.at \in {"session_find", "refresh_find", "validate_find"} /\ UNCHANGED sessions
        /\ t.user \in Users
    BY <1>0, <1>5, TaskFields DEF SessionFind, RefreshFind, ValidateFind, ReadOnly, tables
  <2>2. PICK next : /\ Continue(h, next)
                    /\ \/ next.at \in {"idle", "session_count", "session_mismatch"}
                       \/ \E s \in ActiveSessions(t.user) :
                              /\ next.at \in Saving /\ next.session = s
                              /\ next.row.user = sessions[s].user
    <3>1. CASE SessionFind(h)
      <4>1. PICK next : Continue(h, next) /\
                \/ next = [at |-> "session_count", user |-> t.user, device |-> t.device]
                \/ \E s \in ActiveSessions(t.user) :
                       \/ next = [at |-> "session_save", session |-> s,
                                  row |-> Issued(sessions[s], t.device)]
                       \/ next = [at |-> "session_mismatch", session |-> s,
                                  row |-> Revoked(sessions[s]), device |-> t.device]
        BY <1>0, <3>1 DEF SessionFind
      <4>2. CASE next.at \in {"session_count", "session_mismatch"}
        BY <4>1, <4>2
      <4>3. ASSUME NEW s \in ActiveSessions(t.user),
                   next = [at |-> "session_save", session |-> s,
                           row |-> Issued(sessions[s], t.device)]
            PROVE  /\ next.at \in Saving /\ next.session = s
                   /\ next.row.user = sessions[s].user
        <5>1. sessions[s] \in AuthSession
          BY <1>3
        <5>2. Issued(sessions[s], t.device).user = sessions[s].user
          BY <5>1, SessionActivity
        <5> QED BY <4>3, <5>2 DEF Saving
      <4> QED BY <4>1, <4>2, <4>3
    <3>2. CASE RefreshFind(h)
      <4>1. PICK next : Continue(h, next) /\
                \/ next = Idle
                \/ /\ t.session \in ActiveSessions(t.user)
                   /\ next = [at |-> "session_save", session |-> t.session,
                              row |-> Issued(sessions[t.session], t.device)]
        BY <1>0, <3>2 DEF RefreshFind
      <4>2. CASE next = Idle
        BY <4>1, <4>2 DEF Idle
      <4>3. CASE next # Idle
        <5>1. sessions[t.session] \in AuthSession
          BY <1>3, <4>1, <4>3
        <5>2. Issued(sessions[t.session], t.device).user = sessions[t.session].user
          BY <5>1, SessionActivity
        <5> QED BY <4>1, <4>3, <5>2 DEF Saving
      <4> QED BY <4>2, <4>3
    <3>3. CASE ValidateFind(h)
      <4>1. PICK next : Continue(h, next) /\
                \/ next = Idle
                \/ /\ t.session \in ActiveSessions(t.user)
                   /\ next = [at |-> "validate_save", session |-> t.session,
                              row |-> sessions[t.session], sequel |-> t.sequel]
        BY <1>0, <3>3 DEF ValidateFind
      <4> QED BY <4>1 DEF Idle, Saving
    <3> QED BY <1>5, <3>1, <3>2, <3>3
  <2>3. task'[h] = next
    BY <2>2, StepsAlone
  <2>4. /\ ~Opens(next, u) /\ next.at # "session_replace"
        /\ next.at \in Saving /\ next.row.user = u => next.session \in ActiveSessions(u)
    BY <1>3, <2>2 DEF Opens, Saving
  <2> QED BY <1>0, <1>1, <1>2, <2>1, <2>3, <2>4, DecidingStep DEF Deciding
<1>6. CASE SessionCount(h) \/ SessionOldest(h)
  <2>1. t.at \in {"session_count", "session_oldest"} /\ UNCHANGED sessions /\ t.user \in Users
    BY <1>0, <1>6, TaskFields DEF SessionCount, SessionOldest, ReadOnly, tables
  <2>2. PICK next : /\ Continue(h, next)
                    /\ \/ next.at = "session_oldest"
                       \/ /\ next.at = "session_save" /\ next.session = None
                          /\ next.row.user = t.user
                          /\ Cardinality(ActiveSessions(t.user)) < MaxActiveDeviceSessions
                       \/ \E s \in ActiveSessions(t.user) :
                              /\ next.at = "session_replace" /\ next.session = s
                              /\ next.row.user = sessions[s].user
    <3>0. /\ Cardinality(ActiveSessions(t.user)) \in Nat
          /\ MaxActiveDeviceSessions \in Nat \ {0}
      BY ClaimsFinite, FS_CardinalityType, AuthAssumption
    <3>1. CASE SessionCount(h)
      <4>1. PICK next : Continue(h, next) /\
                \/ next = [at |-> "session_oldest", user |-> t.user, device |-> t.device]
                \/ /\ ~(Cardinality(ActiveSessions(t.user)) >= MaxActiveDeviceSessions)
                   /\ next = [at |-> "session_save", session |-> None,
                              row |-> NewSession(t.user, t.device)]
        BY <1>0, <3>1 DEF SessionCount
      <4> QED BY <3>0, <4>1 DEF NewSession
    <3>2. CASE SessionOldest(h)
      <4>1. PICK next : Continue(h, next) /\
                \/ /\ ActiveSessions(t.user) = {}
                   /\ next = [at |-> "session_save", session |-> None,
                              row |-> NewSession(t.user, t.device)]
                \/ \E s \in ActiveSessions(t.user) :
                       next = [at |-> "session_replace", session |-> s,
                               row |-> Revoked(sessions[s]), device |-> t.device]
        BY <1>0, <3>2 DEF SessionOldest
      <4>2. CASE ActiveSessions(t.user) = {}
        BY <3>0, <4>1, <4>2, FS_EmptySet DEF NewSession
      <4>3. CASE ActiveSessions(t.user) # {}
        <5>1. PICK s \in ActiveSessions(t.user) :
                  next = [at |-> "session_replace", session |-> s,
                          row |-> Revoked(sessions[s]), device |-> t.device]
          BY <4>1, <4>3
        <5>2. Revoked(sessions[s]).user = sessions[s].user
          BY <1>3, SessionActivity
        <5> QED BY <4>1, <5>1, <5>2
      <4> QED BY <4>2, <4>3
    <3> QED BY <1>6, <3>1, <3>2
  <2>3. task'[h] = next
    BY <2>2, StepsAlone
  <2>4. CASE Opens(next, u)
    <3>1. u = t.user /\ Cardinality(ActiveSessions(u)) < MaxActiveDeviceSessions
      BY <2>2, <2>4 DEF Opens
    <3> QED BY <1>0, <1>1, <1>2, <2>1, <2>3, <2>4, <3>1, OpeningStep DEF Deciding
  <2>5. CASE ~Opens(next, u)
    <3>1. /\ next.at \in {"session_replace"} \cup Saving /\ next.session \in SessionIds
                 /\ next.row.user = u => next.session \in ActiveSessions(u)
          /\ next.at = "session_replace" => next.session \in SessionIds
      BY <1>3, <2>2, AuthAssumption DEF Saving
    <3> QED BY <1>0, <1>1, <1>2, <2>1, <2>3, <2>5, <3>1, DecidingStep DEF Deciding
  <2> QED BY <2>4, <2>5
<1>7. CASE SessionMismatch(h) \/ SessionReplace(h)
  <2>1. PICK next :
            /\ Continue(h, next) /\ t.at \in {"session_mismatch", "session_replace"}
            /\ sessions' = [sessions EXCEPT ![t.session] = t.row]
            /\ \/ next.at = "session_count"
               \/ /\ next.at = "session_save" /\ next.session = None
                  /\ next.row.user = t.row.user /\ t.at = "session_replace"
    <3>1. CASE SessionMismatch(h)
      BY <1>0, <3>1 DEF SessionMismatch, SaveSession
    <3>2. CASE SessionReplace(h)
      BY <1>0, <3>2 DEF SessionReplace, SaveSession, NewSession
    <3> QED BY <1>7, <3>1, <3>2
  <2>2. t.session \in SessionIds /\ t.row \in AuthSession /\ ~t.row.isActive
    BY <1>0, <2>1, TaskFields DEF TaskJustified, HoldsSession
  <2>3. task'[h] = next
    BY <2>1, StepsAlone
  <2> QED BY <1>0, <1>1, <1>2, <2>1, <2>2, <2>3, RevokingStep DEF Opens
<1> QED BY <1>4, <1>5, <1>6, <1>7


\* The rest of a request.
LEMMA RestKeepsDevices ==
    ASSUME IInv, DevicesCounted, NEW h \in Handlers, NEW u \in Users, Proceed(h),
           task[h].at \notin Deciding
    PROVE  Settled(u)' \/ Unsettled(u)'
<1> USE DEF At
<1>0. PICK t : t = task[h] /\ t \in Task /\ TaskJustified(t)
  BY RowFields
<1>1. /\ Others(h) /\ UNCHANGED overlaps /\ ~At(h, "idle")
      /\ task'[h].at \in Onward(t.at) \cup {"idle"}
  BY <1>0, ProceedFlow
<1>2. Settled(u) \/ Unsettled(u)
  BY DEF DevicesCounted
<1>3. h \in InFlight
  BY <1>1 DEF InFlight
<1>4. task'[h].at \notin Deciding \cup Saving
  BY <1>0, <1>1 DEF Deciding, Saving, Onward
<1>5. CASE SessionSave(h)
  <2>1. PICK s :
            /\ t.at = "session_save" /\ sessions' = [sessions EXCEPT ![s] = t.row]
            /\ s = IF t.session = None THEN NewId(sessions) ELSE t.session
            /\ t.session = None => \E r \in SessionIds : sessions[r] = None
    BY <1>0, <1>5 DEF SessionSave, SaveSession
  <2>2. t.session \in SessionIds \cup {None} /\ t.row \in AuthSession
    BY <1>0, <2>1, TaskFields DEF HoldsSession
  <2>3. s \in SessionIds
    <3>1. DOMAIN sessions = SessionIds
      BY DEF IInv, TypeOK
    <3> QED BY <2>1, <2>2, <3>1 DEF NewId
  <2> QED BY <1>0, <1>1, <1>2, <1>4, <2>1, <2>2, <2>3, SavingStep DEF Saving
<1>6. CASE ValidateSave(h)
  <2>1. t.at = "validate_save" /\ sessions' = [sessions EXCEPT ![t.session] = t.row]
    BY <1>0, <1>6 DEF ValidateSave, SaveSession
  <2>2. t.session \in SessionIds /\ t.row \in AuthSession
    BY <1>0, <2>1, TaskFields DEF HoldsSession
  <2> QED BY <1>0, <1>1, <1>2, <1>4, <2>1, <2>2, SavingStep DEF Saving
<1>7. CASE ChangeRevoke(h) \/ ResetRevoke(h)
  <2>1. PICK v, kept : RevokeAll(v, kept)
    BY <1>7 DEF ChangeRevoke, ResetRevoke
  <2>2. \A s \in SessionIds : sessions[s] # None =>
            /\ sessions[s] \in AuthSession /\ ~Revoked(sessions[s]).isActive
    BY RowFields, SessionActivity
  <2>3. ActiveSessions(u)' \subseteq ActiveSessions(u)
    BY <2>1, <2>2 DEF RevokeAll, ActiveSessions, SessionsOf
  <2>4. Held(u)' \subseteq Held(u)
    BY <1>1, <1>4 DEF Held, Others
  <2>5. Claimed(u)' \subseteq Claimed(u)
    BY <2>3, <2>4 DEF Claimed
  <2> QED BY <1>0, <1>1, <1>2, <1>3, <1>4, <2>5, DecidedStep
<1>8. CASE ~SessionSave(h) /\ ~ValidateSave(h) /\ ~ChangeRevoke(h) /\ ~ResetRevoke(h)
  <2>1. UNCHANGED sessions
    <3>1. CASE \/ LoginLimited(h) \/ LoginFind(h) \/ LoginFailed(h) \/ LoginLock(h)
               \/ LoginSave(h) \/ SessionFind(h) \/ SessionCount(h) \/ SessionOldest(h)
               \/ RefreshFind(h) \/ ValidateFind(h)
      BY <3>1
         DEF LoginLimited, LoginFind, LoginFailed, LoginLock, LoginSave, SessionFind,
             SessionCount, SessionOldest, RefreshFind, ValidateFind, SaveUser, ReadOnly, tables
    <3>2. CASE \/ ChangeFind(h) \/ ChangeCount(h) \/ ChangeSave(h) \/ ChangeRecord(h)
               \/ AccessSave(h) \/ ForgotCount(h) \/ ForgotSave(h) \/ ResetSave(h)
      BY <3>2
         DEF ChangeFind, ChangeCount, ChangeSave, ChangeRecord, AccessSave, ForgotCount,
             ForgotSave, ResetSave, SaveUser, ReadOnly, tables
    <3>3. CASE SessionMismatch(h) \/ SessionReplace(h)
      BY <3>3 DEF SessionMismatch, SessionReplace, Deciding
    <3> QED BY <1>8, <3>1, <3>2, <3>3 DEF Proceed
  <2>2. Claimed(u)' \subseteq Claimed(u)
    BY <1>1, <1>4, <2>1, ClaimsRead
  <2> QED BY <1>0, <1>1, <1>2, <1>3, <1>4, <2>2, DecidedStep
<1> QED BY <1>5, <1>6, <1>7, <1>8

LEMMA DevicesStep == IInv /\ DevicesCounted /\ [Next]_vars => DevicesCounted'
<1> SUFFICES ASSUME IInv, DevicesCounted, [Next]_vars PROVE DevicesCounted'
  OBVIOUS
<1>1. ASSUME NEW h \in Handlers, Begin(h) PROVE DevicesCounted'
  BY <1>1, ArrivingStep
<1>2. ASSUME NEW h \in Handlers, Proceed(h) PROVE DevicesCounted'
  <2>1. Others(h) /\ UNCHANGED overlaps /\ h \in InFlight
    BY <1>2, ProceedFlow DEF InFlight
  <2>2. ASSUME NEW u \in Users PROVE Settled(u)' \/ Unsettled(u)'
    <3>1. CASE task[h].at \notin Deciding
      BY <1>2, <3>1, RestKeepsDevices
    <3>2. CASE \/ LoginFind(h) \/ LoginSave(h) \/ SessionFind(h) \/ SessionMismatch(h)
               \/ SessionCount(h) \/ SessionOldest(h) \/ SessionReplace(h)
               \/ RefreshFind(h) \/ ValidateFind(h)
      BY <3>2, FindKeepsDevices
    <3>3. CASE \/ LoginLimited(h) \/ LoginFailed(h) \/ LoginLock(h) \/ SessionSave(h)
               \/ ValidateSave(h)
      BY <3>1, <3>3
         DEF LoginLimited, LoginFailed, LoginLock, SessionSave, ValidateSave, At, Deciding
    <3>4. CASE \/ ChangeFind(h) \/ ChangeCount(h) \/ ChangeSave(h) \/ ChangeRecord(h)
               \/ ChangeRevoke(h) \/ AccessSave(h) \/ ForgotCount(h) \/ ForgotSave(h)
               \/ ResetSave(h) \/ ResetRevoke(h)
      BY <3>1, <3>4
         DEF ChangeFind, ChangeCount, ChangeSave, ChangeRecord, ChangeRevoke, AccessSave,
             ForgotCount, ForgotSave, ResetSave, ResetRevoke, At, Deciding
    <3> QED BY <1>2, <3>2, <3>3, <3>4 DEF Proceed
  <2> QED BY <2>1, <2>2, FlightShrinks DEF DevicesCounted
<1>3. ASSUME NEW h \in Handlers, Fail(h) PROVE DevicesCounted'
  <2>1. /\ Others(h) /\ task'[h] = Idle /\ UNCHANGED <<sessions, overlaps>> /\ h \in InFlight
    BY <1>3, StepsAlone DEF Fail, Finish, tables, InFlight
  <2>2. ASSUME NEW u \in Users PROVE Settled(u)' \/ Unsettled(u)'
    <3>1. Settled(u) \/ Unsettled(u)
      BY DEF DevicesCounted
    <3>2. CASE task[h].at \in Deciding
      BY <2>1, <3>1, <3>2, DecidingStep DEF Idle, Opens, Saving
    <3>3. CASE task[h].at \notin Deciding
      <4>1. task'[h].at \notin Deciding \cup Saving
        BY <2>1 DEF Idle, Deciding, Saving
      <4>2. Claimed(u)' \subseteq Claimed(u)
        BY <2>1, <4>1, ClaimsRead
      <4> QED BY <2>1, <3>1, <3>3, <4>1, <4>2, DecidedStep
    <3> QED BY <3>2, <3>3
  <2> QED BY <2>1, <2>2, FlightShrinks DEF DevicesCounted
<1>4. CASE Elapse \/ UNCHANGED vars
  <2>1. UNCHANGED <<task, sessions, overlaps>>
    BY <1>4 DEF Elapse, vars, tables, history, counters
  <2>2. InFlight' = InFlight
    BY <2>1 DEF InFlight, At
  <2>3. ASSUME NEW u \in Users
        PROVE  ActiveSessions(u)' = ActiveSessions(u) /\ Potential(u)' = Potential(u)
    <3>1. ActiveSessions(u)' = ActiveSessions(u) /\ Held(u)' = Held(u)
      BY <2>1 DEF ActiveSessions, SessionsOf, Held
    <3>2. Engaged(u)' = Engaged(u)
      BY <2>1 DEF Engaged, Opens
    <3> QED BY <3>1, <3>2 DEF Potential, Claimed
  <2> QED BY <2>1, <2>2, <2>3 DEF DevicesCounted, Settled, Unsettled, At
<1> QED BY <1>1, <1>2, <1>3, <1>4 DEF Next

LEMMA DevicesInit == Init => DevicesCounted
<1> SUFFICES ASSUME Init PROVE DevicesCounted
  OBVIOUS
<1>1. InFlight = {} /\ overlaps = 0
  BY DEF Init, InFlight, At, Idle
<1>2. ASSUME NEW u \in Users PROVE Claimed(u) = {} /\ Engaged(u) = {}
  BY DEF Init, Claimed, ActiveSessions, SessionsOf, Held, Engaged, Opens, Idle, Deciding, Saving
<1> QED BY <1>1, <1>2, FS_EmptySet, AuthAssumption DEF DevicesCounted, Settled, Potential

\* A user has no more active sessions than are allowed, and one more for each request that
\* arrived while another was in flight: what a login, a refresh or an authenticated request may
\* still make active is counted with what is (AuthService.findOrCreateSession).
THEOREM DevicesLimited == Spec => []DeviceLimit
<1>1. IInv /\ DevicesCounted => DeviceLimit
  <2> SUFFICES ASSUME IInv, DevicesCounted, NEW u \in Users
               PROVE  Cardinality(ActiveSessions(u)) <= MaxActiveDeviceSessions + overlaps
    BY DEF DeviceLimit
  <2>1. Engaged(u) \in SUBSET Handlers
    BY DEF Engaged
  <2>2. /\ Cardinality(ActiveSessions(u)) <= Cardinality(Claimed(u))
        /\ Cardinality(ActiveSessions(u)) \in Nat /\ Cardinality(Claimed(u)) \in Nat
    BY ClaimsFinite, FS_Subset, FS_CardinalityType DEF Claimed
  <2>3. Cardinality(Engaged(u)) \in Nat
    BY <2>1, FewHandlers
  <2>4. overlaps \in Nat /\ MaxActiveDeviceSessions \in Nat
    BY AuthAssumption DEF IInv, TypeOK
  <2>5. CASE Settled(u)
    BY <2>2, <2>3, <2>4, <2>5 DEF Settled, Potential
  <2>6. CASE Unsettled(u)
    <3>1. PICK h : h \in Engaged(u)
      BY <2>6 DEF Unsettled, InFlight, Engaged
    <3>2. Cardinality(Engaged(u)) # 0
      BY <2>1, <3>1, FewHandlers, FS_EmptySet
    <3> QED BY <2>2, <2>3, <2>4, <2>6, <3>2 DEF Unsettled, Potential
  <2> QED BY <2>5, <2>6 DEF DevicesCounted
<1> QED BY <1>1, DevicesInit, DevicesStep, Invariant, PTL DEF Spec

=============================================================================

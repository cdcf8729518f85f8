-------------------------------- MODULE Auth --------------------------------
(***************************************************************************)
(* Accounts, device sessions and password links (AuthService, JwtStrategy). *)
(*                                                                         *)
(* Requests run in handlers that stop at every database call, as in Leave. *)
(* Each handler keeps the user or session row it has read, and saving that *)
(* copy overwrites every column.                                           *)
(*                                                                         *)
(* Timestamps are left out: of several sessions any one may be the oldest, *)
(* or the latest of its device, and rows leave a rate limit's window in    *)
(* steps of their own (Elapse).  So are addresses and the audit log, which *)
(* cannot fail a request.  A user is one registered, or not yet            *)
(* registered, e-mail address.                                             *)
(*                                                                         *)
(* A token is a signed record of its user and session.  bcrypt reads 72    *)
(* bytes of what it compares; in a token of this service these are the JWT *)
(* header and the first half of the user's id, so that a stored hash       *)
(* matches the tokens of its session's user and no others.                 *)
(***************************************************************************)
EXTENDS Integers, FiniteSets

CONSTANTS
    Users, Devices, Passwords, Roles,
    RoleTemplate,        \* the permissions of a role (RolePermissions)
    AccessDtos,          \* the access updates an administrator may ask for
    SessionIds,          \* bounds how many sessions are ever created
    LinkIds,             \* bounds how many password links are ever created
    Windows,             \* the periods over which failed logins are counted
    MaxLoginAttempts,    \* ... and the limit for each
    MaxPasswordChanges,            \* per 24 hours
    MaxForgotPasswordRequests,     \* per 24 hours
    MaxActiveDeviceSessions,       \* 3 in the code
    MaxFailedLoginAttempts,        \* 3 in the code
    Handlers,
    MaxFailures,         \* how many handlers may die between two of their steps
    MaxRequests,         \* how many requests arrive in all
    None                 \* null: no row, no value

Permissions == UNION {RoleTemplate[role] : role \in Roles}

ASSUME AuthAssumption ==
    /\ MaxActiveDeviceSessions \in Nat \ {0}
    /\ MaxFailedLoginAttempts \in Nat
    /\ MaxLoginAttempts \in [Windows -> Nat]
    /\ MaxPasswordChanges \in Nat /\ MaxForgotPasswordRequests \in Nat
    /\ MaxFailures \in Nat /\ MaxRequests \in Nat
    /\ None \notin BOOLEAN \cup SessionIds
    /\ IsFiniteSet(Handlers) /\ Handlers # {} /\ IsFiniteSet(SessionIds)

-----------------------------------------------------------------------------
(***************************************************************************)
(* Rows and requests                                                       *)
(***************************************************************************)
User == [password : Passwords, role : Roles, permissions : SUBSET Permissions,
         isActive : BOOLEAN, failedLoginAttempts : Nat]

\* `hashed`: the access and refresh token hashes are not the empty string.
AuthSession == [user : Users, device : Devices, isActive : BOOLEAN, hashed : BOOLEAN]

PasswordResetRequest == [user : Users, isUsed : BOOLEAN]

\* Rows of the history tables that still lie within a window.
Recent == [tried   : [Windows -> Nat],    \* passwords or addresses that were wrong
           limited : [Windows -> Nat],    \* logins refused by the limit itself
           changes : Nat, requests : Nat] \* password changes, requests for a link

\* Registration stores any list of strings as permissions; the model has the sets of known
\* ones (a bound), since registration does no more with them than to store them.
RegisterUserDto ==
    [password : Passwords, role : Roles, permissions : {None} \cup SUBSET Permissions]

UpdateUserAccessDto ==
    [role : Roles \cup {None}, permissions : {None} \cup SUBSET Permissions,
     mergeWithRoleTemplate : BOOLEAN, isActive : BOOLEAN \cup {None}]

ASSUME RowAssumption ==
    /\ AccessDtos \subseteq UpdateUserAccessDto
    /\ RoleTemplate \in [Roles -> SUBSET Permissions]
    /\ None \notin User \cup AuthSession \cup PasswordResetRequest
    /\ None \notin Roles /\ \A granted \in SUBSET Permissions : None # granted

\* What an authenticated request goes on to do.
Sequel == [op : {"none"}] \cup [op : {"change"}, current : Passwords, new : Passwords]

\* The bearer token a login may carry: none, one of this user, or anything else.
Bearer == {None} \cup BOOLEAN

Given(dto) ==
    IF dto.permissions = None THEN {} ELSE dto.permissions

ResolvedPermissions(dto, role) ==
    IF dto.mergeWithRoleTemplate THEN RoleTemplate[role] \cup Given(dto)
    ELSE IF dto.permissions # None THEN dto.permissions ELSE RoleTemplate[role]

\* Wrong on purpose (see the README on mutants): a role left out is saved as null.
WithAccessUnguarded(user, dto) == [user EXCEPT !.role = dto.role]

WithAccess(user, dto) ==
    LET role == IF dto.role = None THEN user.role ELSE dto.role
        resolve == dto.permissions # None \/ dto.mergeWithRoleTemplate \/ dto.role # None
    IN  [user EXCEPT !.role        = role,
                     !.isActive    = IF dto.isActive = None THEN @ ELSE dto.isActive,
                     !.permissions = IF resolve THEN ResolvedPermissions(dto, role) ELSE @]

\* Wrong on purpose: one attempt too many.
WithFailureLate(user) ==
    [user EXCEPT !.failedLoginAttempts = @ + 1,
                 !.isActive = @ /\ user.failedLoginAttempts + 1 <= MaxFailedLoginAttempts + 1]

WithFailure(user) ==
    [user EXCEPT !.failedLoginAttempts = @ + 1,
                 !.isActive = @ /\ user.failedLoginAttempts + 1 <= MaxFailedLoginAttempts]

\* The account is active although it has had more than the allowed wrong passwords.
PastLockOut(user) == user.isActive /\ user.failedLoginAttempts > MaxFailedLoginAttempts

WithReset(user, password) ==
    [user EXCEPT !.password = password, !.failedLoginAttempts = 0, !.isActive = TRUE]

NewSession(user, device) ==
    [user |-> user, device |-> device, isActive |-> TRUE, hashed |-> TRUE]

\* Wrong on purpose: the tokens of a revoked session are kept.
RevokedKeepingTokens(session) == [session EXCEPT !.isActive = FALSE]

Revoked(session) == [session EXCEPT !.isActive = FALSE, !.hashed = FALSE]

\* buildAuthResponse just before it saves: tokens are signed and hashed.
Issued(session, device) ==
    [session EXCEPT !.device = device, !.isActive = TRUE, !.hashed = TRUE]

Idle == [at |-> "idle"]

\* What a handler holds, by the database call it is about to make.
Task ==
    {Idle}
    \cup [at : {"login_limited", "login_unknown", "forgot_count", "forgot_save", "reset_revoke"},
          user : Users]
    \cup [at : {"login_find"}, user : Users, password : Passwords, device : Devices, bearer : Bearer]
    \cup [at : {"login_failed", "login_lock", "access_save"}, user : Users, row : User]
    \cup [at : {"login_save"}, user : Users, row : User, device : Devices, bearer : Bearer]
    \cup [at : {"session_find"}, user : Users, device : Devices, bearer : Bearer]
    \cup [at : {"session_count", "session_oldest"}, user : Users, device : Devices]
    \cup [at : {"session_mismatch", "session_replace"}, device : Devices,
          session : SessionIds, row : AuthSession]
    \cup [at : {"session_save"}, session : SessionIds \cup {None}, row : AuthSession]
    \cup [at : {"refresh_find"}, user : Users, session : SessionIds, device : Devices]
    \cup [at : {"validate_find"}, user : Users, session : SessionIds, sequel : Sequel]
    \cup [at : {"validate_save"}, session : SessionIds, row : AuthSession, sequel : Sequel]
    \cup [at : {"change_find"}, user : Users, session : SessionIds, sequel : Sequel]
    \cup [at : {"change_count", "change_save"}, user : Users, session : SessionIds, row : User]
    \cup [at : {"change_record", "change_revoke"}, user : Users, session : SessionIds]
    \cup [at : {"reset_save"}, link : LinkIds, row : User]

-----------------------------------------------------------------------------
VARIABLES
    users, sessions, links,      \* users, auth_sessions, password_reset_requests
    recent,                      \* login_attempt_histories, password_change_histories
    task,                        \* what each handler is doing
    failures,                    \* how many handlers have died so far
    (* History: *)
    issued,      \* the sessions named by the tokens a user was given; None for a token without
    uses,        \* how often a password link has set a password
    opened,      \* the user's password when a session was last issued, or kept by its change
    readmitted,  \* users an administrator has set active beyond the allowed wrong passwords
    overlaps,    \* how many requests arrived while another was in flight
    requests     \* how many have arrived

tables == <<users, sessions, links, recent>>
history == <<issued, uses, opened, readmitted>>
counters == <<failures, overlaps, requests>>
vars == <<tables, task, history, counters>>

NothingRecent ==
    [tried |-> [w \in Windows |-> 0], limited |-> [w \in Windows |-> 0],
     changes |-> 0, requests |-> 0]

Init ==
    /\ users = [u \in Users |-> None]
    /\ sessions = [s \in SessionIds |-> None]
    /\ links = [l \in LinkIds |-> None]
    /\ recent = [u \in Users |-> NothingRecent]
    /\ task = [h \in Handlers |-> Idle]
    /\ failures = 0
    /\ issued = [u \in Users |-> {}]
    /\ uses = [l \in LinkIds |-> 0]
    /\ opened = [s \in SessionIds |-> None]
    /\ readmitted = {}
    /\ overlaps = 0
    /\ requests = 0

Continue(h, next) == task' = [task EXCEPT ![h] = next]
Finish(h) == Continue(h, Idle)
At(h, place) == task[h].at = place

\* A step that changes nothing but handler h itself.
ReadOnly == UNCHANGED <<tables, history, counters>>

\* A request arrives at handler h: it may find other requests in flight.
Arrive(h, next) ==
    /\ At(h, "idle")
    /\ requests < MaxRequests
    /\ Continue(h, next)
    /\ requests' = requests + 1
    /\ overlaps' = IF \A g \in Handlers : At(g, "idle") THEN overlaps ELSE overlaps + 1
    /\ UNCHANGED failures

\* The id the database gives to a new row.
NewId(table) == CHOOSE id \in DOMAIN table : table[id] = None

SaveUser(u, row) ==
    /\ users' = [users EXCEPT ![u] = row]
    /\ UNCHANGED <<sessions, links>>

SaveSession(s, row) ==
    /\ sessions' = [sessions EXCEPT ![s] = row]
    /\ UNCHANGED <<users, links, recent, counters>>

SessionsOf(u) == {s \in SessionIds : sessions[s] # None /\ sessions[s].user = u}
ActiveSessions(u) == {s \in SessionsOf(u) : sessions[s].isActive}

-----------------------------------------------------------------------------
(***************************************************************************)
(* POST /auth/register                                                     *)
(***************************************************************************)
\* The insert is refused where the address is taken; the session comes after it.
Register(h, u, dto, device) ==
    /\ users[u] = None
    /\ SaveUser(u, [password |-> dto.password, role |-> dto.role, isActive |-> TRUE,
                    failedLoginAttempts |-> 0,
                    permissions |-> IF dto.permissions = None THEN RoleTemplate[dto.role]
                                                              ELSE dto.permissions])
    /\ Arrive(h, [at |-> "session_find", user |-> u, device |-> device, bearer |-> None])
    /\ UNCHANGED <<recent, history>>

(***************************************************************************)
(* POST /auth/login                                                        *)
(***************************************************************************)
\* Wrong on purpose: one attempt over the limit is let in.
OverLimitLate(u) ==
    \E w \in Windows : recent[u].tried[w] + recent[u].limited[w] > MaxLoginAttempts[w]

OverLimit(u) ==
    \E w \in Windows : recent[u].tried[w] + recent[u].limited[w] >= MaxLoginAttempts[w]

Login(h, u, password, device, bearer) ==
    /\ Arrive(h, IF OverLimit(u)
                 THEN [at |-> "login_limited", user |-> u]
                 ELSE [at |-> "login_find", user |-> u, password |-> password,
                       device |-> device, bearer |-> bearer])
    /\ UNCHANGED <<tables, history>>

\* The page before the documentation sends no bearer token.  Who may not read the documentation
\* is turned away after this login, with the session it made.
LoginForSwagger(h, u, password, device) == Login(h, u, password, device, None)

LoginLimited(h) ==
    /\ At(h, "login_limited")
    /\ recent' = [recent EXCEPT ![task[h].user].limited = [w \in Windows |-> @[w] + 1]]
    /\ Finish(h)
    /\ UNCHANGED <<users, sessions, links, history, counters>>

\* A disabled account is refused without a record.
LoginFind(h) ==
    LET t == task[h]
        user == users[t.user]
    IN  /\ At(h, "login_find")
        /\ Continue(h,
               IF user = None THEN [at |-> "login_unknown", user |-> t.user]
               ELSE IF ~user.isActive THEN Idle
               ELSE IF user.password = t.password
               THEN [at |-> "login_save", user |-> t.user, device |-> t.device,
                     bearer |-> t.bearer, row |-> [user EXCEPT !.failedLoginAttempts = 0]]
               ELSE [at |-> "login_failed", user |-> t.user, row |-> user])
        /\ ReadOnly

\* recordLoginAttempt, for an unknown address or a wrong password.
LoginFailed(h) ==
    LET t == task[h]
    IN  /\ task[h].at \in {"login_unknown", "login_failed"}
        /\ recent' = [recent EXCEPT ![t.user].tried = [w \in Windows |-> @[w] + 1]]
        /\ Continue(h, IF At(h, "login_unknown") THEN Idle
                       ELSE [at |-> "login_lock", user |-> t.user, row |-> WithFailure(t.row)])
        /\ UNCHANGED <<users, sessions, links, history, counters>>

LoginLock(h) ==
    /\ At(h, "login_lock")
    /\ SaveUser(task[h].user, task[h].row)
    /\ Finish(h)
    /\ UNCHANGED <<recent, history, counters>>

\* The attempt that is recorded next is a successful one, which nothing counts.
LoginSave(h) ==
    LET t == task[h]
    IN  /\ At(h, "login_save")
        /\ SaveUser(t.user, t.row)
        /\ Continue(h, [at |-> "session_find", user |-> t.user, device |-> t.device,
                        bearer |-> t.bearer])
        /\ UNCHANGED <<recent, history, counters>>

(***************************************************************************)
(* findOrCreateSession and the rest of buildAuthResponse                   *)
(***************************************************************************)
\* A bearer token that does not match is held against the session of its device.
SessionFind(h) ==
    LET t    == task[h]
        here == {s \in ActiveSessions(t.user) : sessions[s].device = t.device}
        fits(s) == t.bearer = None \/ (t.bearer /\ sessions[s].hashed)
    IN  /\ At(h, "session_find")
        /\ IF here = {}
           THEN Continue(h, [at |-> "session_count", user |-> t.user, device |-> t.device])
           ELSE \E s \in here :
                    Continue(h, IF fits(s)
                                THEN [at |-> "session_save", session |-> s,
                                      row |-> Issued(sessions[s], t.device)]
                                ELSE [at |-> "session_mismatch", session |-> s,
                                      row |-> Revoked(sessions[s]), device |-> t.device])
        /\ ReadOnly

SessionMismatch(h) ==
    LET t == task[h]
    IN  /\ At(h, "session_mismatch")
        /\ SaveSession(t.session, t.row)
        /\ Continue(h, [at |-> "session_count", user |-> t.row.user, device |-> t.device])
        /\ UNCHANGED history

\* Wrong on purpose: the session over the limit is let in.
SessionCountLate(h) ==
    LET t == task[h]
        full == Cardinality(ActiveSessions(t.user)) > MaxActiveDeviceSessions
    IN  /\ At(h, "session_count")
        /\ Continue(h, IF full
                       THEN [at |-> "session_oldest", user |-> t.user, device |-> t.device]
                       ELSE [at |-> "session_save", session |-> None,
                             row |-> NewSession(t.user, t.device)])
        /\ ReadOnly

SessionCount(h) ==
    LET t == task[h]
        full == Cardinality(ActiveSessions(t.user)) >= MaxActiveDeviceSessions
    IN  /\ At(h, "session_count")
        /\ Continue(h, IF full
                       THEN [at |-> "session_oldest", user |-> t.user, device |-> t.device]
                       ELSE [at |-> "session_save", session |-> None,
                             row |-> NewSession(t.user, t.device)])
        /\ ReadOnly

SessionOldest(h) ==
    LET t == task[h]
    IN  /\ At(h, "session_oldest")
        /\ IF ActiveSessions(t.user) = {}
           THEN Continue(h, [at |-> "session_save", session |-> None,
                             row |-> NewSession(t.user, t.device)])
           ELSE \E s \in ActiveSessions(t.user) :
                    Continue(h, [at |-> "session_replace", session |-> s,
                                 row |-> Revoked(sessions[s]), device |-> t.device])
        /\ ReadOnly

SessionReplace(h) ==
    LET t == task[h]
    IN  /\ At(h, "session_replace")
        /\ SaveSession(t.session, t.row)
        /\ Continue(h, [at |-> "session_save", session |-> None,
                        row |-> NewSession(t.row.user, t.device)])
        /\ UNCHANGED history

\* The tokens are signed before this save, with the id the session has by then: a new one
\* has none.
SessionSave(h) ==
    LET t == task[h]
    IN  /\ At(h, "session_save")
        /\ t.session = None => \E s \in SessionIds : sessions[s] = None
        /\ LET s == IF t.session = None THEN NewId(sessions) ELSE t.session
           IN  /\ SaveSession(s, t.row)
               /\ opened' = [opened EXCEPT ![s] = users[t.row.user].password]
        /\ issued' = [issued EXCEPT ![t.row.user] = @ \cup {t.session}]
        /\ Finish(h)
        /\ UNCHANGED <<uses, readmitted>>

(***************************************************************************)
(* POST /auth/refresh-token                                                *)
(***************************************************************************)
RefreshToken(h, u, s, device) ==
    /\ users[u] # None /\ users[u].isActive
    /\ s \in issued[u] \ {None}
    /\ Arrive(h, [at |-> "refresh_find", user |-> u, session |-> s, device |-> device])
    /\ UNCHANGED <<tables, history>>

RefreshFind(h) ==
    LET t == task[h]
    IN  /\ At(h, "refresh_find")
        /\ Continue(h, IF t.session \in ActiveSessions(t.user) /\ sessions[t.session].hashed
                       THEN [at |-> "session_save", session |-> t.session,
                             row |-> Issued(sessions[t.session], t.device)]
                       ELSE Idle)
        /\ ReadOnly

(***************************************************************************)
(* JwtStrategy.validate, before every guarded route                        *)
(***************************************************************************)
\* The page of the documentation (main.ts) checks the session in the same way, but looks at
\* the account only afterwards; it changes nothing.
Authenticate(h, u, s, sequel) ==
    /\ users[u] # None
    /\ users[u].isActive \/ sequel.op = "none"
    /\ s \in issued[u] \ {None}
    /\ Arrive(h, [at |-> "validate_find", user |-> u, session |-> s, sequel |-> sequel])
    /\ UNCHANGED <<tables, history>>

\* Wrong on purpose: a session is accepted whether or not it is active.
ValidateAnySession(h) ==
    LET t == task[h]
    IN  /\ At(h, "validate_find")
        /\ Continue(h, [at |-> "validate_save", session |-> t.session, sequel |-> t.sequel,
                        row |-> Issued(sessions[t.session], sessions[t.session].device)])
        /\ ReadOnly

ValidateFind(h) ==
    LET t == task[h]
    IN  /\ At(h, "validate_find")
        /\ Continue(h, IF t.session \in ActiveSessions(t.user) /\ sessions[t.session].hashed
                       THEN [at |-> "validate_save", session |-> t.session,
                             row |-> sessions[t.session], sequel |-> t.sequel]
                       ELSE Idle)
        /\ ReadOnly

\* Only lastUsedAt is touched, but the row is saved.
ValidateSave(h) ==
    LET t == task[h]
    IN  /\ At(h, "validate_save")
        /\ SaveSession(t.session, t.row)
        /\ Continue(h, IF t.sequel.op = "none" THEN Idle
                       ELSE [at |-> "change_find", user |-> t.row.user, session |-> t.session,
                             sequel |-> t.sequel])
        /\ UNCHANGED history

(***************************************************************************)
(* POST /auth/change-password                                              *)
(***************************************************************************)
ChangeFind(h) ==
    LET t == task[h]
        user == users[t.user]
    IN  /\ At(h, "change_find")
        /\ Continue(h, IF /\ t.sequel.new # t.sequel.current
                          /\ user.password = t.sequel.current
                       THEN [at |-> "change_count", user |-> t.user, session |-> t.session,
                             row |-> [user EXCEPT !.password = t.sequel.new]]
                       ELSE Idle)
        /\ ReadOnly

ChangeCount(h) ==
    /\ At(h, "change_count")
    /\ Continue(h, IF recent[task[h].user].changes >= MaxPasswordChanges THEN Idle
                   ELSE [task[h] EXCEPT !.at = "change_save"])
    /\ ReadOnly

ChangeSave(h) ==
    LET t == task[h]
    IN  /\ At(h, "change_save")
        /\ SaveUser(t.user, t.row)
        /\ Continue(h, [at |-> "change_record", user |-> t.user, session |-> t.session])
        /\ UNCHANGED <<recent, history, counters>>

ChangeRecord(h) ==
    /\ At(h, "change_record")
    /\ recent' = [recent EXCEPT ![task[h].user].changes = @ + 1]
    /\ Continue(h, [task[h] EXCEPT !.at = "change_revoke"])
    /\ UNCHANGED <<users, sessions, links, history, counters>>

\* Wrong on purpose: the one session that is revoked is the current one.
RevokeCurrentOnly(u, kept) ==
    sessions' = [s \in SessionIds |-> IF s \in SessionsOf(u) \cap {kept}
                                      THEN Revoked(sessions[s]) ELSE sessions[s]]

\* revokeAllUserSessions: one UPDATE.
RevokeAll(u, kept) ==
    sessions' = [s \in SessionIds |-> IF s \in SessionsOf(u) \ {kept}
                                      THEN Revoked(sessions[s]) ELSE sessions[s]]

ChangeRevoke(h) ==
    LET t == task[h]
    IN  /\ At(h, "change_revoke")
        /\ RevokeAll(t.user, t.session)
        /\ opened' = [opened EXCEPT ![t.session] = users[t.user].password]
        /\ Finish(h)
        /\ UNCHANGED <<users, links, recent, counters, issued, uses, readmitted>>

(***************************************************************************)
(* PATCH /auth/access-control/users/:id                                    *)
(***************************************************************************)
\* By an administrator, whose own authentication is left out.
UpdateUserAccess(h, u, dto) ==
    /\ users[u] # None
    /\ Arrive(h, [at |-> "access_save", user |-> u, row |-> WithAccess(users[u], dto)])
    /\ UNCHANGED <<tables, history>>

AccessSave(h) ==
    LET t == task[h]
    IN  /\ At(h, "access_save")
        /\ SaveUser(t.user, t.row)
        /\ readmitted' = IF PastLockOut(t.row) THEN readmitted \cup {t.user} ELSE readmitted
        /\ Finish(h)
        /\ UNCHANGED <<recent, counters, issued, uses, opened>>

(***************************************************************************)
(* POST /auth/forgot-password and /auth/reset-password                     *)
(***************************************************************************)
ForgotPassword(h, u) ==
    /\ users[u] # None
    /\ Arrive(h, [at |-> "forgot_count", user |-> u])
    /\ UNCHANGED <<tables, history>>

ForgotCount(h) ==
    /\ At(h, "forgot_count")
    /\ Continue(h, IF recent[task[h].user].requests >= MaxForgotPasswordRequests THEN Idle
                   ELSE [task[h] EXCEPT !.at = "forgot_save"])
    /\ ReadOnly

ForgotSave(h) ==
    /\ At(h, "forgot_save")
    /\ \E l \in LinkIds : links[l] = None
    /\ links' = [links EXCEPT ![NewId(links)] = [user |-> task[h].user, isUsed |-> FALSE]]
    /\ recent' = [recent EXCEPT ![task[h].user].requests = @ + 1]
    /\ Finish(h)
    /\ UNCHANGED <<users, sessions, history, counters>>

\* Wrong on purpose: a used link is accepted again.
ResetWithAnyLink(h, l, password) ==
    /\ links[l] # None
    /\ Arrive(h, [at |-> "reset_save", link |-> l,
                  row |-> WithReset(users[links[l].user], password)])
    /\ UNCHANGED <<tables, history>>

\* The user is loaded with the link.  A link that has expired is refused as a used one is.
ResetPassword(h, l, password) ==
    /\ links[l] # None
    /\ ~links[l].isUsed
    /\ Arrive(h, [at |-> "reset_save", link |-> l,
                  row |-> WithReset(users[links[l].user], password)])
    /\ UNCHANGED <<tables, history>>

\* User and link are saved in one transaction.
ResetSave(h) ==
    LET t == task[h]
        u == links[t.link].user
    IN  /\ At(h, "reset_save")
        /\ users' = [users EXCEPT ![u] = t.row]
        /\ links' = [links EXCEPT ![t.link].isUsed = TRUE]
        /\ uses' = [uses EXCEPT ![t.link] = @ + 1]
        /\ Continue(h, [at |-> "reset_revoke", user |-> u])
        /\ UNCHANGED <<sessions, recent, counters, issued, opened, readmitted>>

ResetRevoke(h) ==
    /\ At(h, "reset_revoke")
    /\ RevokeAll(task[h].user, None)
    /\ Finish(h)
    /\ UNCHANGED <<users, links, recent, history, counters>>

-----------------------------------------------------------------------------
\* Time passes: the oldest row of a window leaves it.
Elapse ==
    /\ \E u \in Users :
           \/ \E w \in Windows, kind \in {"tried", "limited"} :
                  /\ recent[u][kind][w] > 0
                  /\ recent' = [recent EXCEPT ![u][kind][w] = @ - 1]
           \/ \E kind \in {"changes", "requests"} :
                  /\ recent[u][kind] > 0
                  /\ recent' = [recent EXCEPT ![u][kind] = @ - 1]
    /\ UNCHANGED <<users, sessions, links, task, history, counters>>

\* A database call is rejected or the process stops.
Fail(h) ==
    /\ failures < MaxFailures
    /\ ~At(h, "idle")
    /\ Finish(h)
    /\ failures' = failures + 1
    /\ UNCHANGED <<tables, history, overlaps, requests>>

BeginLogin(h) ==
    \E u \in Users, password \in Passwords, device \in Devices :
        \/ \E bearer \in Bearer : Login(h, u, password, device, bearer)
        \/ LoginForSwagger(h, u, password, device)

Begin(h) ==
    \/ \E u \in Users, dto \in RegisterUserDto, device \in Devices : Register(h, u, dto, device)
    \/ BeginLogin(h)
    \/ \E u \in Users, s \in SessionIds, device \in Devices : RefreshToken(h, u, s, device)
    \/ \E u \in Users, s \in SessionIds, sequel \in Sequel : Authenticate(h, u, s, sequel)
    \/ \E u \in Users, dto \in AccessDtos : UpdateUserAccess(h, u, dto)
    \/ \E u \in Users : ForgotPassword(h, u)
    \/ \E l \in LinkIds, password \in Passwords : ResetPassword(h, l, password)

Proceed(h) ==
    \/ LoginLimited(h) \/ LoginFind(h) \/ LoginFailed(h) \/ LoginLock(h) \/ LoginSave(h)
    \/ SessionFind(h) \/ SessionMismatch(h) \/ SessionCount(h) \/ SessionOldest(h)
    \/ SessionReplace(h) \/ SessionSave(h)
    \/ RefreshFind(h) \/ ValidateFind(h) \/ ValidateSave(h)
    \/ ChangeFind(h) \/ ChangeCount(h) \/ ChangeSave(h) \/ ChangeRecord(h) \/ ChangeRevoke(h)
    \/ AccessSave(h) \/ ForgotCount(h) \/ ForgotSave(h) \/ ResetSave(h) \/ ResetRevoke(h)

Next == Elapse \/ \E h \in Handlers : Begin(h) \/ Proceed(h) \/ Fail(h)

Spec == Init /\ [][Next]_vars

-----------------------------------------------------------------------------
(***************************************************************************)
(* Properties of every interleaving, with handlers dying anywhere          *)
(***************************************************************************)
TypeOK ==
    /\ users \in [Users -> User \cup {None}]
    /\ sessions \in [SessionIds -> AuthSession \cup {None}]
    /\ links \in [LinkIds -> PasswordResetRequest \cup {None}]
    /\ recent \in [Users -> Recent]
    /\ task \in [Handlers -> Task]
    /\ failures \in 0 .. MaxFailures
    /\ issued \in [Users -> SUBSET (SessionIds \cup {None})]
    /\ uses \in [LinkIds -> Nat]
    /\ opened \in [SessionIds -> Passwords \cup {None}]
    /\ readmitted \in SUBSET Users
    /\ overlaps \in Nat
    /\ requests \in 0 .. MaxRequests

\* Whatever stale copies are saved, a session that is active has the hashes its tokens are
\* compared with, and one that was revoked has none.
TokensGoWithActivity ==
    \A s \in SessionIds : sessions[s] # None => (sessions[s].isActive <=> sessions[s].hashed)

\* An account with more than the allowed wrong passwords is disabled, unless an administrator
\* has set it active nonetheless: logins, changes and resets that overlap with each other never
\* leave it active.
LockOut ==
    \A u \in Users : users[u] # None /\ PastLockOut(users[u]) => u \in readmitted

\* A link sets a password once, and once more for each reset that overlaps with the first.
LinkUses ==
    \A l \in LinkIds : uses[l] <= Cardinality(Handlers)

\* Logins, password changes and requests for a link are counted before they are recorded: the
\* limits can be exceeded by as many as there are other requests in flight, never by more.
LimitsHold ==
    LET slack == Cardinality(Handlers) - 1
    IN  \A u \in Users :
            /\ \A w \in Windows : recent[u].tried[w] <= MaxLoginAttempts[w] + slack
            /\ recent[u].changes <= MaxPasswordChanges + slack
            /\ recent[u].requests <= MaxForgotPasswordRequests + slack

\* Beyond the limit on devices there are at most as many active sessions as requests have
\* overlapped.
DeviceLimit ==
    \A u \in Users : Cardinality(ActiveSessions(u)) <= MaxActiveDeviceSessions + overlaps

(***************************************************************************)
(* Properties of one request after another                                 *)
(***************************************************************************)
\* A revoked session is never active again, even if handlers die.
RevocationIsFinal ==
    [][overlaps' = 0 =>
           \A s \in SessionIds : sessions[s] # None /\ ~sessions[s].isActive =>
               ~sessions'[s].isActive]_vars

\* Once a password change or reset is through, the sessions that are active were issued
\* under the new password, or made the change.
SignedOut ==
    (\A h \in Handlers : At(h, "idle")) /\ overlaps = 0 /\ failures = 0 =>
        \A s \in SessionIds : sessions[s] # None /\ sessions[s].isActive =>
            opened[s] = users[sessions[s].user].password

(***************************************************************************)
(* What the documentation promises                                         *)
(***************************************************************************)
\* Every token that a login, a registration or a refresh returns names its session, so that
\* JwtStrategy and refreshToken accept it.
TokensNameTheirSession == \A u \in Users : None \notin issued[u]
=============================================================================

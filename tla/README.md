# HR management API: a TLA+ model of its state machines

This directory models the parts of the NestJS service under `src/` that keep state in
its PostgreSQL tables: what a request reads, what it checks, what it saves and in which
order, what happens when two requests overlap, and what is left when one dies half-way.
TLC checks the models on small instances; TLAPS proves, for any number of users, rows and
requests, every safety property that the runs check, and the refinements: payroll approval, leave, accounts and
sessions, work days, office networks, the organisation, reports and announcements.

## 1. Inventory

The service is one Node process. A request is an async handler; at every `await` on the database it
gives way to other handlers (and, with several processes behind a balancer, it would run beside
them). Apart from `auth`'s registration and password reset, no handler opens a transaction that
spans two database calls, and none locks a row. So the unit of atomicity is one repository call.

| component | state | operations | hard part | what makes it correct |
|---|---|---|---|---|
| payroll | `payroll_runs`, `payroll_items` | create a run, edit an item, submit, (recalculate totals) | whole rows saved from stale copies; submit spans three tables | only drafts change; an approved run was really approved; totals are those of the items |
| workflows | `workflow_definitions`, `workflow_instances` | define, update, start, review, sync the reference | several reviewers, several steps, overlapping reviews; the run is updated after the instance | nobody signs what they may not sign; one decision, and it reaches the run |
| leave | `leave_types`, `employee_leave_balances`, `leave_requests` | types, set balance, ask, review, list | balance and request are saved one after the other; check and use are apart | granted leave is booked; never more than the entitlement; decided once |
| auth | `users`, `auth_sessions`, `login_attempt_history`, `password_reset_requests`, `password_change_history` | register, login, refresh, validate, change/forgot/reset password, update access | session and user rows saved from stale copies; counting before inserting; time windows | a revoked session stays revoked; the limits on devices, logins, changes and links hold; a locked account stays locked |
| work schedules | schedules, assignments, day overrides, swap requests | CRUD, assign, override, ask for and review a swap, resolve a day | a swap saves its overrides before the request; resolution order over three queries | a swap moves one off day; a day has one meaning |
| holidays | `holidays` | CRUD with scopes | removal counts attendance first; precedence of scopes | the narrowest scope wins; a holiday in use stays |
| attendance | `attendance_records` | create, approve, list missing, list, own | day resolution and office matching by several queries at different moments | a record says what its day was; who is reported missing really is |
| office locations | `office_locations`, `branch_networks` | CRUD, match GPS or IP against offices | 32-bit masks, precedence of network, radius and trusted address | an address matches exactly its network |
| branches, departments, companies | organisation tables, soft-deleted rows | CRUD, assign, delete if unused | use counted before the removal, in another call; stale copies save the deletion mark back | nothing live refers to a deleted row; deleted stays deleted |
| employees | `employees` and three history tables | create, update, transfer, record an event | up to four saves per operation | the history explains the current row |
| notifications, notices | own tables | create, list, change status, mark as read | recipients found by two queries; visibility decided from three sources | one notification each; a notice is shown to its audience |
| dashboard | none | an overview of eight queries and two more | queries answered at different moments | the numbers agree; nothing decided is listed as pending |
| audit, countries | none that is read back | append to MongoDB, constant lookups | - | - |
| guards, encryption, bootstrap | none | permission check, AES of salary columns, wiring | - | - |

How they interact: payroll calls workflows (`ensureDefaultPayrollApprovalDefinition`,
`startInstance`), and workflows writes the payroll table back (`syncReferenceStatus`). Leave,
attendance, work schedules and payroll read employees; attendance reads work schedules, offices and
approved leave; employees read branches and departments, whose deletion counts employees; notices and
notifications read the users of auth; the dashboard reads employees, attendance and leave; every guarded
route goes through auth's session check first.
`PROJECT.json` lists every hazard at its line and the properties aimed at it.

## 2. Plan

1. **Payroll approval** (`WorkflowRules`, `PayrollApproval`, abstract `PayrollLifecycle`): money and
   segregation of duties, the only flow across two services. Modelled; every property the runs check is proved, with the
   refinement of the lifecycle, except the liveness property.
2. **Leave** (`Leave`, abstract `LeaveLedger`). Modelled; every property the runs check is proved, with the refinement of the
   ledger, and the condition for `DecidedOnce`.
3. **Auth sessions and credentials** (`Auth`). Modelled; every property the run `auth` checks is proved.
4. **Work schedules, holidays, attendance, offices** (`WorkDays`, `OfficeNetworks`). Modelled; every property the
   run `work_days` checks is proved, and the prefix test of networks.
5. **Organisation and employees** (`Organisation`, `Personnel`). Modelled; every property the run `personnel` checks is proved.
6. **Reports, notices and notifications** (`Reports`, `Announcements`). Modelled; every property the run `announcements` checks is
   proved.
7. What is left: a relation for a balance set by hand while a request is under way (the hazard in `PROJECT.json` without a property; the
   code states no intent for it), and the parts listed in section 7.

## 3. Conventions of the models

*Handlers.* `task[h]` holds what request `h` has in its local variables at the `await` it has stopped
at; `at` names the database call it will make next. One action is the code from one database call up
to the next one: the call itself, and everything computed from its result. A sequence of reads with
no write before it is one action only where nothing between the reads depends on state that may
change (employees, for instance, are never deleted). A request refused before it has written anything changes
nothing and has no action. The first query of a request belongs to the action in which it arrives.

*Saving.* `repository.save(row)` of a row read earlier writes back the handler's copy: TypeORM
compares the copy with the stored row and updates every column that differs. It is modelled as
replacing the row by the copy in one step. In fact a `save()` of a loaded entity is two statements: it reads the row again and then updates
the columns that differ, so a write of another request between these two would survive in the columns that did not differ at the re-read. The models
leave this interval out: a save is atomic. Undefined properties are skipped, which is why an update's absent
columns keep the value *read*, not the value stored. `save([...])` of several rows is one transaction. These
are assumptions about the library, taken from how the code uses it.

*Failures.* `Fail(h)` is a rejected database call or a stopped process: the local state is gone and
what was saved stays. A process stop is as many `Fail`s as there are requests in flight.

*Load and overlaps.* `Auth`, `Organisation`, `Personnel`, `WorkDays`, `Reports` and `Announcements` count requests. In the last
five, the bound `MaxLoad` charges a request that arrives while another is in flight twice: with
`MaxLoad = 3` there are three requests one after another, or two that overlap. `overlaps`
is the number of requests that arrived while another was in flight. It lets one run ask
both what holds without overlap (`overlaps = 0 => ...`) and how much each overlap may cost (`... <= overlaps`, or twice that),
which is what the code really gives: without locks it cannot give more. `calm` is the same for a report or a list: nothing was saved
by others since it was asked for; `Leave`'s `calm` says that no two requests have overlapped and that
nobody corrected a `used` column or a type's flag.

*Data.* Ids, employees and users are members of small sets. Dates are consecutive numbers. Amounts are
whole numbers; the code's `Number(...)` of decimal columns loses nothing for amounts of this size.
Names, notes, comments and timestamps are left out where no property is about them.

*Definitions marked "Wrong on purpose"* are not used by the models. Each is a plausible bug in the
definition that follows it; `PROJECT.json` pairs it with a property and with the run in which TLC finds
that property violated once the bug replaces the definition. They show that the properties can fail.

## 4. Modules

### WorkflowRules
What `WorkflowsService` computes from one row: `Normalizable` and `NormalizeSteps` (`normalizeSteps`
together with the DTO's non-empty list), `StartedInstance`, `MayReview` (the four refusals of
`reviewInstance`) and `Reviewed` (the row it leaves in memory). `currentStepOrder = null` is 0.
`SoundInstance` is what a stored instance must look like.

### PayrollApproval
`PayrollService` composed with `WorkflowsService` over the tables they share.

| action | code |
|---|---|
| `CreatePayrollRun`, `CreatePayrollItems` | `createPayrollRun`: the draft is saved, then its items; with no eligible employee the draft stays |
| `RecalcReadRun`, `RecalcReadItems`, `RecalcSave` | `recalculatePayrollRunTotals` |
| `UpdatePayrollItem`, `EditReadItem`, `EditSaveItem` | `updatePayrollItem` |
| `SubmitPayrollRun`, `SubmitReadItems`, `EnsureFindDefinition`, `EnsureSaveDefinition`, `StartFindDefinition`, `StartCheckPending`, `StartSaveInstance`, `SubmitSaveRun` | `submitPayrollRun` with the two calls into workflows |
| `ReviewInstance`, `ReviewSaveInstance`, `SyncReadRun`, `SyncSaveRun` | `reviewInstance` and `syncReferenceStatus` |
| `CreateDefinition`, `UpdateDefinition`, `DefineSave` | the two definition routes; the unique key on `code` refuses a second holder |

Salaries do not change in the model: `createPayrollRun` takes a snapshot and nothing reads the salary
of an existing item again. Which employees are eligible is any subset. `certificates` is a history variable:
the instances as they were saved when approved.

### PayrollLifecycle
What payroll promises about a run: draft, amended only as a draft, submitted when it pays somebody, decided
once. `PayrollApproval` with one handler implements it under the mapping `Lifecycle`.

### Leave
`LeaveService`, the same way: `CreateRequest`, `CreateReadBalance`, `CreateSaveBalance`, `CreateSave` for
`create`; `ReviewLeaveRequest`, `ReviewReadBalance`, `ReviewSaveBalance`, `ReviewSave` for
`reviewLeaveRequest`; `SetLeaveBalance`, `SetReadBalance`, `SetSave`; `CreateLeaveType`,
`UpdateLeaveType`, `TypeSave`. The steps on the balance are skipped where the leave type requires
none, as in the code. `removeLeaveType` exists in the service but no route of
`leave.controller.ts` calls it, so leave types only come. Only `requiresBalance` of a leave type is ever
read. `calm` is history, for `CalmLeaveIsBooked`. The lists of leave are in `Reports`.

### LeaveLedger
The ledger leave promises: an entitlement per account, requests that never book more than it at the
time they are made, each decided once. It knows nothing of `used` and `pending`. `Leave` with one handler
implements it under the mapping `Ledger`.

### Auth
`AuthService`, `AuthController` and `JwtStrategy`.

| action | code |
|---|---|
| `Register` | `register`: the transaction that saves the user |
| `Login`, `LoginForSwagger`, `LoginLimited`, `LoginFind`, `LoginFailed`, `LoginLock`, `LoginSave` | `login`, also from the documentation's page: the limits (a refused attempt is recorded too), the look-up, the failed attempt, the lock-out, the reset of the counter |
| `SessionFind`, `SessionMismatch`, `SessionCount`, `SessionOldest`, `SessionReplace`, `SessionSave` | `findOrCreateSession` and `buildAuthResponse`: reuse the device's session, revoke the one a bearer token contradicts, make room, sign and save |
| `RefreshToken`, `RefreshFind` | `refreshToken`, which ends in `SessionSave` |
| `Authenticate`, `ValidateFind`, `ValidateSave` | `JwtStrategy.validate` and `validateAccessSession`, then the guarded route |
| `ChangeFind`, `ChangeCount`, `ChangeSave`, `ChangeRecord`, `ChangeRevoke` | `changePassword` |
| `UpdateUserAccess`, `AccessSave` | `updateUserAccess` |
| `ForgotPassword`, `ForgotCount`, `ForgotSave` | `forgotPassword` |
| `ResetPassword`, `ResetSave`, `ResetRevoke` | `resetPassword`: check, transaction, revocation |
| `Elapse` | a row of a history table leaves the window over which it is counted |

Tokens are records of user and session, and `issued`, `uses`, `opened` and `readmitted` are history; `readmitted` are the users an administrator has
made active again at some time. bcrypt compares 72 bytes only,
which in this service's tokens are the JWT header and the first half of the user's id: a stored hash therefore matches
every token of its session's user, and a row says only whether it *has* hashes (`hashed`).

### Organisation, Personnel
`Organisation` has the tables of companies, office types, branches with locations, networks and assigned departments,
departments, and the references that office locations, holidays, payroll runs, notices and employees
hold. Every route is one of three shapes, so the module has the shapes once and each route as one definition
(`CreateBranch`, `RemoveDepartment`, ...) that says what is looked up, what is saved and what blocks a removal:

| action | code |
|---|---|
| `Create`, `Update`, then `FindNext` (one look-up each), `FindExisting` (`assignDepartment`), `FindChild` (the row of a branch's part), `Save` | create, update and assign routes |
| `Remove`, then `Count` (the counts of one `Promise.all`, in any order), `Delete` | remove routes and `assert...CanBeDeleted` |

`Same` is an undefined column. `Loaded` is a row as a query returns it, with the deleted rows it refers to left
out of its joins. The key (branch, department) is unique, removed assignments included, so that an assignment once removed is refused by
the database when it is made again from a copy without it.

`Personnel` adds `EmployeesService`: `CreateEmployee`, `UpdateEmployee`, `TransferDepartment`, `TransferBranch` and
`RecordEmploymentEvent` save the row as above and then write their history entries with `HistoryFind` and `HistorySave`,
one call each. `latest` holds the newest entry of each history.

### OfficeNetworks
`Mask`, `ShiftLeft` and `IsIpv4InsideCidr` over words of any width: the shift count of JavaScript wraps, so the prefix
length 0 is a case of its own.

### WorkDays
Work schedules, holidays, office locations and attendance around `resolveEmployeeDay`.

| action | code |
|---|---|
| `FindOverride`, `FindHolidays`, `FindSchedule` | `resolveEmployeeDay`, query by query; who asked is in `use` |
| `CreateSchedule`, `UpdateSchedule`, `CreateHoliday`, `UpdateHoliday`, `UpdateOffice`, then `Save` | the create and update routes |
| `RemoveSchedule`, `RemoveHoliday`, `RemoveOffice`, then `Count`, `Delete` | the remove routes, with what keeps the row |
| `AssignToEmployee`, `SaveAssignment`; `CreateEmployeeDayOverride`, `SaveOverride` | the same in `WorkSchedulesService` |
| `CreateReplacementRequest`, `FindPending`, `ReviewReplacementRequest`, `SaveSwap` | swaps of off days: both days are resolved, the overrides are saved, the request after them |
| `CreateAttendance`, `MatchCheckIn`, `MatchCheckOut`, `ApproveAttendance` | `AttendanceService`, with `findMatchingOffice` as `Matches` |

`swaps` is history: how often a request has made its overrides.

### Reports, Announcements
`Reports` only reads: `GetOverview`, `OverviewQuery` (eight queries answered in any order), `PendingApprovals` for
the dashboard; `GetMissingAttendance`, `FindStaff`, `FindRecords`, `FindLeaves`, `ResolveDay` for missing attendance; `List`, `ShowList`
for the lists of attendance and leave; `GetMyAttendance`, `GetMyLeaveRequests`, `FindProfile`, `FindMyRecords`, `FindMyLeave`
for one's own. What others save meanwhile is `Saves` (`UserSaved`, `EmployeeSaved`,
`RecordSaved`, `LeaveSaved`, `DaySaved`): any change the owners of the tables could make, a decision of leave being
final, a record never being deleted.

`Announcements` adds `CreateNotice`, `UpdateStatus`, `SaveNotice`, `GetMyNotices`, `FindReader`, `ShowNotices` for notices and
`CreateNotifications`, `FindNamed`, `FindHolders`, `SaveNotifications`, `MarkAsRead`, `SaveMark` for notifications. `batch` is history:
the request that made a notification.

### MCPayrollApproval, MCLeave, MCAuth, MCPersonnel, MCWorkDays, MCAnnouncements
Values of the constants for TLC, the tables a behaviour may start from, and the symmetries.

### PayrollApprovalProofs, PayrollBooksProofs, LeaveProofs, AuthProofs, WorkDaysProofs, PersonnelProofs, AnnouncementsProofs
The theorems (section 6).

### FiniteSums
Lemmas of no particular module: the least and the greatest of some numbers, sums over finite sets as the fold of the community modules
computes them, the sum over groups, and the first of an ordered set.

## 5. Runs

| run | checks | bounds | why these are enough |
|---|---|---|---|
| `payroll_concurrent` | `TypeOK`, `IInv`, `SegregationOfDuties`, `ApprovedRunIsCertified`, `SubmittedRunPaysSomebody` | two handlers, failures anywhere, one run, one definition, two instances, two users, a two-step draft and a refused one | two handlers make every pair of requests overlap, two instances make the double submission; the proofs cover larger ones |
| `payroll_serial` | `LinkIsOwn`, `RunShowsItsInstance`, `TotalsMatchItems`, `LifecycleSpec`, `DecisionReachesRun` | one handler, no failure, two runs, one employee with two amounts to adjust, two users of whom one also changes definitions | the whole life of two runs at once, with rejected and approved outcomes and updates of the definition in between: a link, a status or a decision can go to the wrong run, which one run cannot show |
| `payroll_stale_edit` | `DraftOnlyEdits`: violated | two handlers | an edit and a submit |
| `payroll_lost_decision` | `DecisionReachesRun`: violated | one handler, failures | one review cut short |
| `leave_serial` | `Reconciled`, `LedgerSpec` | one handler, three requests, three days over the end of a year, entitlements 0 and 3 (and 6 with what is carried forward) | requests of one to three days exhaust, and exactly meet, the entitlement; two years make two accounts |
| `leave_concurrent` | `TypeOK`, `RequestsEndure`, `CalmLeaveIsBooked` | two handlers, two deaths, one day, an entitlement of two, `requiresBalance` toggled, used and pending corrected by hand | every pair of requests overlaps; a death in a create and one in a review, or two in reviews of one request |
| `leave_double_review` | `DecidedOnce`: violated | two handlers, one request | two reviews |
| `auth` | `TypeOK`, `TokensGoWithActivity`, `LockOut`, `LinkUses`, `LimitsHold`, `DeviceLimit`, `SignedOut`, `RevocationIsFinal` | one user, two devices, two passwords, three sessions, two links, limits of one (logins: two), two handlers, one death, five requests | each limit is reached and then exceeded by an overlap; two devices are one more than the limit; no step relates two users except the unique address |
| `auth_first_login` | `TokensNameTheirSession`: violated | the same, one handler | one registration |
| `personnel` | `TypeOK`, `NoDangling`, `HistoriesAgree`, `DeletedStayDeleted` | two companies, two departments, two employees, one row of the other tables, three organisations to start from; two overlapping or three serial requests; one death | a removal and one other request lose up to two references, which is what `NoDangling` allows; a wrong history one transfer and another request or a death |
| `work_days` | `TypeOK`, `ApprovedIsSwapped`, `SwapsAreRecorded`, `UsedRowsStay`, `BranchAddressesAreFound`, `RecordsFitTheDay`, `SwapsKeepTheBalance` | one employee, two days, one schedule, two holidays, two offices of two branches with overlapping networks, two swap requests, addresses of three bits, `MaxLoad` 4, one death, three sets of tables to start from | with a schedule assigned from the start, four is a swap asked for and two reviews of it that overlap; two holidays compete for one day; one network is the block of all addresses, whose mask is the special case, the other a part of it |
| `announcements` | `TypeOK`, `OverviewAddsUp`, `DecidedIsNotPending`, `AttendanceIsTold`, `NotifiedOnce`, `NoticesReachTheirAudience` | two users, two employees (one of them a user), two days, pages of one; one report with one save of somebody else meanwhile, or two overlapping or three serial other requests | every save falls between every two queries; a page of one leaves rows out |

Deadlock is not checked: ids are finite in the instances, so the system stops when all are used up. That is
the bound, not the code. Symmetry is used for handlers and for ids that are interchangeable, and not in runs
with a liveness property.

**What the four violations show.** `DraftOnlyEdits`: `updatePayrollItem` checks the status before two more
awaits and then saves the item, so the pay of a run can change after its submission, even after its
approval; docs/api-reference.md says the route "only works while payroll run is in draft".
`DecisionReachesRun` with failures: the decided instance and the run are saved by two calls; if the
second does not happen, the run waits for ever, since a decided instance cannot be reviewed again and
a run that is not a draft cannot be submitted again; the documentation says the route "updates linked payroll status".
`DecidedOnce`: two overlapping reviews of a leave request both pass the pending check, and
the second overwrites the first decision; the documentation and the error message say that only pending
requests are reviewed.
`TokensNameTheirSession`: `buildAuthResponse` signs the tokens with the id of a session that has none before it is saved
(auth.service.ts 677 and 685; the save is at 701). So the tokens of a registration, or of the first login on a
device, carry no session id, and `validateAccessSession` (721) and `refreshToken` (494) refuse them; the second login on the device, which
finds the row, works. The documentation says that both return tokens for use on protected routes.

**Serial and concurrent.** `RunShowsItsInstance`, `TotalsMatchItems`, `LifecycleSpec`, `Reconciled` and
`LedgerSpec` relate two tables that the code saves in separate calls. They are what the code maintains when requests
do not overlap and complete, and they are checked and proved for that. They do fail when requests overlap (a
stale edit for the lifecycle; two requests for leave that read the same balance for the ledger); the concurrent runs
check what survives every overlap. In the newer modules the same distinction is made inside one run by `overlaps`:
`RevocationIsFinal`, `SignedOut`, `RecordsFitTheDay`, `SwapsKeepTheBalance` and `DeletedStayDeleted` speak of requests that take turns;
`TokensGoWithActivity`, `LockOut` and `ApprovedIsSwapped` of every interleaving; `LinkUses`, `LimitsHold`,
`DeviceLimit`, `NoDangling`, `HistoriesAgree`, `SwapsAreRecorded` and `UsedRowsStay` bound what each overlap or death can cost. Overlaps
do cost as much: the revoked session saved back by a refresh, the fourth device, the link used twice, the assignment to a schedule just
removed are all behaviours of the models.

**Fairness.** Only `DecisionReachesRun` needs it: `FairSpec` has weak fairness of `Proceed(h)` for each
handler, that is, the event loop eventually resumes a handler whose database call has returned. No fairness
is assumed of arriving requests. With `FailuresHappen`, a handler may still die instead.

## 6. Proofs

tlapm checks all proofs from the assumptions that the modules declare and TLC evaluates in every run:
amounts, limits and the width are natural numbers; `None` is no value, id, row or entry of the ledger; the rows a behaviour may start
from are rows of their tables, with no assignment to a deleted schedule (`SeedsAssumption`); the ids of schedules,
holidays and offices differ, being UUIDs, and so do those of the tables of `Organisation`, whose foreign keys hold in the rows a behaviour
starts from (`Referential`). In `Reports` and `Announcements` there are finitely many users, employees, records, requests for leave and
notifications, since their rows are counted; notifications are numbered from 1 as they are saved; and a date between two dates is a
date. `AuthAssumption` and `WorkDaysAssumption` say besides that the handlers
and the sessions of `Auth` and the dates of `WorkDays` are finitely many: the theorems count the requests
in flight and the rows they may add, and a process holds finitely many of either. Nothing bounds how many.

Where an invariant had to be strengthened, TLC checked the strengthened one on the run's instance before it was proved.

*Payroll.* `SegregationOfDuties`, `ApprovedRunIsCertified`, `SubmittedRunPaysSomebody` and
`LinkIsOwn` (checked by `payroll_serial`, proved for every interleaving) speak of stored rows, and a stored row may come from a copy that a handler read long before. So they are
not inductive: the invariant must say the same of the copies. `IInv` adds, for every stop of a handler,
what its copy may claim (`TaskJustified`): a copy of a run is as justified as a row, for certificates, items and
instances never go away again; a reviewed copy is signed; the steps about to become an instance are
ordered; a run whose items have just been counted has some; and no two handlers create the same run. From `IInv`, proved
inductive with one lemma per action (`Invariance`), the theorems `TypeCorrect`, `Segregation`, `Certification`, `Paying` and
`OwnLink` follow. They rest on lemmas about the operators of `WorkflowRules`: a normalised list of steps is ordered, a started
instance is sound, and `Reviewed` keeps an instance sound and certifies it when it approves it.

*The books of payroll.* `RunShowsItsInstance`, `TotalsMatchItems` and the refinement of `PayrollLifecycle` relate rows of different tables. They are
proved in `PayrollBooksProofs` for behaviours that are `Undisturbed`: no handler dies, and no two are at work on one run at
once. The run `payroll_serial` has one handler; the theorems say more, namely that requests about different runs, and about workflow definitions, may
overlap as they like. The code enforces none of it, so it is a hypothesis on the behaviour. `BooksInv` says of each stop that the copies it holds are the stored rows, but for the columns it is
about to save (`Current`), and that a run whose totals or status lag behind has a handler at work that will set them (`Recalculating`, `Announcing`). `Only(r)` is the frame: a
step for run `r` leaves the rows of the other runs and what their handlers claim alone (`BooksStay`), so that each action is a lemma
about one run. That a draft has no instance (`NothingStarted`) is why a submit makes the only one. The same lemmas show what each step is in the
lifecycle (`LifeStep`), and `RunsAreShown`, `TotalsAreKept` and `LifecycleKept` follow; `SerialRuns` is the case of a service that takes one request at a time.
`BooksInv` was model-checked on two handlers and two runs before it was proved.

*Leave.* `TypeCorrect`: in particular no balance column falls below zero, which rests on the clamp in
`reviewLeaveRequest` (`ReleasedTyped`). `Endurance` (`RequestsEndure`) needs
`ReviewsHoldTheirRequest`: the copy a review will save differs from the stored request in nothing but the decision. The lemma
`Steps` says that every step starts a review, ends one or is uneventful for requests, which keeps the later
proofs to three cases. `OneDecision` is conditional: if no two reviews of one request overlap
(`OneReviewEach`), `DecidedOnce` holds, with the invariant `ReviewedIsPending`. Together with the run
`leave_double_review` it says that overlapping reviews are the only way a decision changes.

*The books of leave* need sums over finite sets (`FiniteSums`). Induction over them goes by way of a smallest
set for which a statement fails (`SmallestSet`, from the library's theorem that strict inclusion is well founded), which needs no operator
as a parameter; so the fold that TLC evaluates can be reasoned about: it exists (`SummingExists`), takes its elements in
any order (`SumAdds`), and saving one request changes the days charged to an account by that request's
share (`ChargedMoves`). `Surplus` and `Excess` are what the used and the pending column of an account say beyond the stored
requests, allowing for what the handler at work has saved of one table and not yet of the other. With one handler at work, whose copies are the
stored rows (`Current`), no step lets the surplus fall below zero, and a death can only raise it: that is `CalmInv`, and
`CalmBooked` (`CalmLeaveIsBooked`) follows. `Undisturbed` says besides that nobody dies or corrects the pending column: then no step
moves surplus or excess from zero (`ExactInv`), and `BooksAgree` (`Reconciled`) and `LedgerKept` (`LedgerSpec`) follow. That `pending` is
clamped at zero is then never noticed, since what a review releases is still among the pending days (`ReleasesWhatIsPending`), and a request
is stored within the entitlement because the balance it reserved on is still the stored one (`Covered`).
`Undisturbed` is a hypothesis on the behaviour, since the code enforces none of it; `SerialBooksAgree` and `SerialLedgerKept` are the same for the
instances the run `leave_serial` checks one of, a service that takes one request at a time (`SerialService`).

*Networks.* `PrefixMatch`: for every width, an address lies in a block just when the first `prefixLength` bits agree
(`CidrIsAPrefix`). `MaskBits` says bit by bit what the mask is, including the length 0 whose shift would wrap; `AndAgrees` that
masked words are equal just when they agree where the mask is one. So a network matches just the
addresses it has (`MatchesOwnAddresses`), and `BranchesFound` (`BranchAddressesAreFound`) follows: an address of a branch is matched to an office of the branch,
whichever answer `findMatchingOffice` gives. Where networks of several branches have the address, the code takes the first in the order of the query, which
nothing fixes; then the office is one of one of these branches, provided that each has an open one (otherwise the first network may belong to a branch without, and the
place decides). Prefix lengths are between 0 and the width: `isIpv4InsideCidr` refuses any other.

*Accounts and sessions.* `AuthProofs` has the same shape as payroll: `IInv` says of every copy in a handler what the properties say of rows, that is, that
a session is active just when it has hashes, that a user active beyond the limit of failed logins has been
readmitted, and that the user of a session or a link in flight is registered. `TypeCorrect`, `TokensMatch` and `LockedOut`
follow for every interleaving. Planning the proof changed `LockOut`: it used to forget a readmission when the account was disabled again, and a stale
copy of the readmitted row, saved later by a login, then made the user active; now `readmitted` never shrinks. `SerialInv` is for
requests that take turns: there is one request at a time, its copy of a session or a user is the stored row, and an
active session was opened with the user's present password. `RevokedForGood` and `OldPasswordsSignedOut` follow.

How much overlaps may cost is proved by counting. A link: its uses and the resets in flight that have already
found it unused are at most one more than the other handlers. A limit: the rows in the window and the requests that
have counted and not yet inserted theirs are at most the limit and one for every other handler. Devices: `Potential(u)` is the number of
sessions of `u` that are active or that a handler may save as active, and of handlers that may yet open one; once a user's requests are settled it
stays below the limit and one for each overlap. In each, one handler's step moves one unit from one term to the other (`OneMoves`).

*Work days.* `IInv` is the type invariant for all stops of a handler, and that every override, assignment and record a
handler works on is there. On it rest four arguments, each of its own.
- `ApprovedSwapped`: `RequestsTold` says what a handler may still do for each swap request and how often its overrides were made, so that
  a request reads "approved" only after its overrides were saved. `SwapsRecorded`: a request is `Settled` when status and overrides
  agree or one review alone is bringing them to agree; the requests that are not are at most the overlaps and the failures (`DoubtsBounded`).
- `RecordsFit` and `SwapsBalance`, for requests that take turns: `SerialInv` says that what a search over overrides, holidays and schedules has
  found so far is what the tables say (`Fits`, `SoFar`). So a record tells its day, and a swap exchanges one day off for another (`Exchange`).
- `UsedRowsKept`: a removal counts the uses of a row and deletes it in another call. `Doomed` are the rows that are deleted, or about to be,
  and used, or about to be; `AtRisk` adds those whose removal has counted no use. `UsedInv` bounds the first by `overlaps` and the second by one more,
  and by `overlaps` as long as some handler is about to use a row. It needs `RecordsTold`: two handlers never make the same record, and a saved
  decision keeps the day.
- `BranchesFound`, above.

*The organisation.* A row is a function of the columns of its entity (`IsRow`), and each of the many routes ends in a request of one of three shapes:
it holds a copy to look up and save (`NewCopy`), removes a row (`NewRemoval`), or first finds a row under a branch and then is either (`FindsChild`). Once this is
shown route by route (`OrgAsks`, `EmployeeAsks`), the invariant need only be shown for the shapes. `TypeCorrect` says in particular that
a save of a partial copy over a stored row leaves a row of the entity (`WrittenRow`). For `FewDangling` (`NoDangling`) the references are counted that are lost or
will be: those of a row in use to a row that is deleted or whose removal has already counted that table (`Lost`). A removal's own delete then loses
nothing more, and a save loses at most the two references its row may have. `Charged` holds two references ready for every request that saves;
the first of several requests is not counted as an overlap, but then either it or the others lose nothing (`Calm`). `DeletionIsFinal` (`DeletedStayDeleted`) needs
that the one request in flight never holds a copy of a deleted row (`Serial`). Planning this proof changed `NoDangling`: its bound was one
reference for each overlap, which the run's instance cannot tell from the right one, but TLC refutes on a larger instance, where two requests that
save rows with two references each overlap two removals: four references are lost to three overlaps.

*The histories of employees.* `HistoriesTold` (`HistoriesAgree`) counts the employees that are wrong (`Bad`: nobody is at work on them, and an entry does not
tell what the row says, or the row refers to something deleted, which a later save would then drop) and the requests at work on an employee (`Workers`): together they are at most
the overlaps and the deaths (`PaidFor`). So each of these spoils one employee, and with it three histories at most. The first of several requests is not counted as an overlap; but then one more is allowed only
as long as nothing has been removed and whoever is alone at his employee is `Promising` (`Hopeful`): the entries he is still to write, and those
that are there, tell what the row will say after his save (`Foretold`). Only an overlap or a death ends that, and either pays for it. The
theorem needs `FewDangling`'s `Lost`, since a transfer looks its department or branch up once more before it writes the entry, and
`Begun`: no history precedes its employee.

*Reports and announcements.* An answer is put together over several queries with saves of others in between, so `IInv` says two things of each stop: what
`Lasts` whatever is saved, and what is `Fresh` while nothing is. What lasts follows from the little that every save leaves as it is
(`Onward`): a record stays and keeps its employee and day, a decision of leave is final. `TypeCorrect`, `DecidedStaysDecided`
(`DecidedIsNotPending`) and the first part of `TrulyTold` (`AttendanceIsTold`) rest on it. What is fresh are the equations between a handler's
locals and the present tables: `OverviewFresh`, `MissingFresh`, `ListFresh`, `MineFresh`, `NoticeFresh`. The rest of `TrulyTold`, `AddsUp`
(`OverviewAddsUp`) and `AudienceReached` (`NoticesReachTheirAudience`) follow. `AddsUp` needs two facts about finite sets: the sizes of the groups of a
breakdown add up to the size of what was grouped (`SumOfGroups`), and of an ordered set exactly as many elements as a page holds have fewer later ones than that, unless
all have (`FirstOnes`). `AudienceReached` shows that the filter a reader is given (`ForReader`) and the audience a notice is aimed at (`Audience`), defined from the other end,
are the same. `OnlyOnce` (`NotifiedOnce`) has an invariant of its own, `NoteInv`: notifications are saved one after another (`Consecutive`), each request
in flight is told apart from every other and from what is saved (`SavedBefore`, `Unsaved`, `ToldApart`), its recipients differ, and whoever marks a notification as read saves it with the
recipient and the request it has (`MarkedAsSaved`).

*Only model-checked.* `DecisionReachesRun`, since liveness under fairness is beyond the prover. Every other property of a passing run is the subject of a
theorem. The four properties of the runs that expect a violation are not theorems, being false; `OneDecision` proves one of them under a condition.

## 7. What is not modelled

Components:

- Audit appends documents to MongoDB and nothing reads them back to decide anything. Countries looks up a
  constant table (`countries.data.ts` is 11,338 of the 23,928 lines of the repository). Encryption of salary columns is library
  cryptography; response formatting, bootstrap and module wiring keep no state.

Parts of modelled components:

- The cookie the login page of the documentation sets (the check of its token in `main.ts` is a case of `Authenticate`); permissions at registration
  that no role has; times of day and breaks of schedules; the half of a half day (the code treats it as an off
  day in the resolution, and so does the model); the profile sections of employees; texts, dates and pins of notices.
- The reading of an IPv4 address from its text and the geodesic distance: the model has words of bits, and a distance per place and office.
- Of the dashboard: the list of recent records, the sum of approved days (which counts whole requests, also those partly in the window), and windows
  whose end lies before their start.
- Lists and counts that are one query without a later decision (notifications, employees, branches, payroll runs).
- Dates given as date-time strings (the DTOs accept them): `calculateLeaveDays` then computes with an invalid
  date. The model's days are valid dates. Rounding of decimal columns to two places.
- Deletion of payroll runs, workflow rows, leave requests and employees: the service has no operation for it.

What the models show although no property forbids it, since the code states no intent:

- A transfer to no department or branch records an entry, but the save skips the undefined column and the row keeps its value
  (`HistoriesAgree` leaves removals out).
- `updateBranch` does not compare the companies of branch and office type, which `createBranch` does; a department may be moved under one of
  its own descendants; removing a company does not count its office types; notices name a branch or a department without a look-up
  (`Dangling` leaves office types and notices out).
- A holiday changed from one scope to another keeps the department column of the old scope.
- An assignment that begins in the future hides the current one: `resolveEmployeeDay` takes the latest by `effectiveFrom` before it compares
  the date, so the day has its default meaning until then.
- Nothing keeps an employee from having two attendance records on a day.
- Addresses of employees are unique as written, but compared in lower case and trimmed: two employees may be the same person to
  `getMyAttendance`, which takes the newest.

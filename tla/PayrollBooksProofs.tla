------------------------- MODULE PayrollBooksProofs -------------------------
(***************************************************************************)
(* What payroll and workflows keep in step as long as no two requests are  *)
(* about the same run at once and none of them dies half way: the totals   *)
(* of a run and its items, a run and its approval, and the lifecycle that  *)
(* a run goes through.  Requests about different runs may overlap in any   *)
(* way, and so may those about workflow definitions.                       *)
(***************************************************************************)
EXTENDS PayrollApprovalProofs

\* The run that a request is about.
OnRun(t, r) ==
    \/ t.at \in {"review_save", "sync_read"} /\ t.row.reference = r
    \/ t.at \notin {"idle", "define_save", "review_save", "sync_read"} /\ t.run = r

Undisturbed ==
    /\ ~FailuresHappen
    /\ \A g, h \in Handlers, r \in RunIds : OnRun(task[g], r) /\ OnRun(task[h], r) => g = h

-----------------------------------------------------------------------------
(***************************************************************************)
(* The invariant.  The copies that a handler holds are up to date, and the *)
(* only run that is out of step is one that a handler is about to save.    *)
(***************************************************************************)
Recalculating == {"recalc_read", "recalc_items", "recalc_save"}

Announcing == {"submit_save", "sync_read", "sync_save"}

HoldsCurrent ==
    {"recalc_items", "submit_items", "ensure_find", "ensure_save", "start_find",
     "start_check", "start_save"}

\* The stops at which the run is still a draft.
Drafting ==
    {"create_items", "edit_read", "edit_save", "submit_save"} \cup Recalculating \cup HoldsCurrent

\* Instance i is the one approval of run r.
Sole(r, i) == Started(r, i) /\ \A j \in InstanceIds : Started(r, j) => j = i

AwaitsDecision(r, i) ==
    /\ Sole(r, i)
    /\ runs[r] # None /\ runs[r].workflowInstanceId = i /\ runs[r].status = "pending_approval"

\* The row that submitPayrollRun has started instance i for and is about to save.
Submits(r, row, i) ==
    /\ Sole(r, i) /\ instances[i].status = "pending"
    /\ row = [runs[r] EXCEPT !.status = "pending_approval", !.workflowInstanceId = i]

\* The row with which syncReferenceStatus is about to save what instance i says.
Follows(r, row, i) ==
    /\ AwaitsDecision(r, i)
    /\ row = [runs[r] EXCEPT !.status = RunStatusFor(instances[i].status)]

Current(t) ==
    /\ t.at \in Drafting => Mutable(t.run)
    /\ t.at \in HoldsCurrent => t.row = runs[t.run]
    /\ t.at = "recalc_save" =>
           t.row = [runs[t.run] EXCEPT !.totals = Totals(items[t.run])]
    /\ t.at = "submit_save" => \E i \in InstanceIds : Submits(t.run, t.row, i)
    /\ t.at = "review_save" => AwaitsDecision(t.row.reference, t.instance)
    /\ t.at = "sync_read" =>
           \E i \in InstanceIds : AwaitsDecision(t.row.reference, i) /\ instances[i] = t.row
    /\ t.at = "sync_save" => \E i \in InstanceIds : Follows(t.run, t.row, i)

Tallied(r) == runs[r] # None => runs[r].totals = Totals(items[r])

AllShown(r) ==
    \A i \in InstanceIds :
        Started(r, i) =>
            /\ runs[r].workflowInstanceId = i
            /\ runs[r].status = RunStatusFor(instances[i].status)

Busy(r, places) == \E h \in Handlers : OnRun(task[h], r) /\ task[h].at \in places

BooksInv ==
    /\ \A h \in Handlers : Current(task[h])
    /\ \A r \in RunIds : Tallied(r) \/ Busy(r, Recalculating)
    /\ \A r \in RunIds : AllShown(r) \/ Busy(r, Announcing)

-----------------------------------------------------------------------------
(***************************************************************************)
(* A step leaves the other runs, and the handlers at work on them, alone.  *)
(***************************************************************************)

\* Nothing changes but run r, its items and its approval.
Only(r) ==
    /\ \A q \in RunIds : q # r => runs'[q] = runs[q] /\ items'[q] = items[q]
    /\ \A i \in InstanceIds :
           instances'[i] # instances[i] =>
               /\ instances'[i] # None /\ instances'[i].reference = r
               /\ instances[i] # None => instances[i].reference = r

LEMMA ElsewhereStarted ==
    ASSUME NEW r, Only(r), NEW q \in RunIds, q # r, NEW i \in InstanceIds
    PROVE  /\ Started(q, i)' <=> Started(q, i)
           /\ Started(q, i) => instances'[i] = instances[i]
BY DEF Only, Started

LEMMA ElsewhereSole ==
    ASSUME NEW r, Only(r), NEW q \in RunIds, q # r, NEW i \in InstanceIds
    PROVE  /\ Sole(q, i) => Sole(q, i)' /\ instances'[i] = instances[i]
           /\ AwaitsDecision(q, i) => AwaitsDecision(q, i)' /\ instances'[i] = instances[i]
<1>1. runs'[q] = runs[q]
  BY DEF Only
<1>2. \A j \in InstanceIds : Started(q, j)' <=> Started(q, j)
  BY ElsewhereStarted
<1>3. Started(q, i) => instances'[i] = instances[i]
  BY ElsewhereStarted
<1>4. Sole(q, i) => Sole(q, i)' /\ instances'[i] = instances[i]
  BY <1>2, <1>3 DEF Sole
<1> QED BY <1>1, <1>4 DEF AwaitsDecision

LEMMA ElsewhereRun ==
    ASSUME NEW r, Only(r), NEW q \in RunIds, q # r
    PROVE  /\ Tallied(q) => Tallied(q)'
           /\ AllShown(q) => AllShown(q)'
<1>1. runs'[q] = runs[q] /\ items'[q] = items[q]
  BY DEF Only
<1>2. Tallied(q) => Tallied(q)'
  BY <1>1 DEF Tallied
<1>3. \A i \in InstanceIds :
        (Started(q, i)' <=> Started(q, i)) /\ (Started(q, i) => instances'[i] = instances[i])
  BY ElsewhereStarted
<1>4. AllShown(q) => AllShown(q)'
  BY <1>1, <1>3 DEF AllShown
<1> QED BY <1>2, <1>4

LEMMA ElsewhereCurrent ==
    ASSUME NEW r, Only(r), NEW t \in Task, Current(t), ~OnRun(t, r)
    PROVE  Current(t)'
<1>1. t.at \in Drafting \cup {"sync_save"} => t.run \in RunIds /\ t.run # r
  BY TaskFields DEF OnRun, Drafting, Recalculating, HoldsCurrent, HoldsRunRow, PastItemCheck
<1>2. t.at \in {"review_save", "sync_read"} => t.row.reference \in RunIds /\ t.row.reference # r
  BY TaskFields DEF OnRun, WorkflowInstance, Instance
<1>3. \A q \in RunIds : q # r => runs'[q] = runs[q] /\ items'[q] = items[q]
  BY DEF Only
<1>4. t.at \in Drafting => Mutable(t.run)'
  BY <1>1, <1>3 DEF Current, Mutable
<1>5. t.at \in HoldsCurrent => t.row = runs'[t.run]
  BY <1>1, <1>3 DEF Current, Drafting
<1>6. t.at = "recalc_save" => t.row = [runs'[t.run] EXCEPT !.totals = Totals(items'[t.run])]
  BY <1>1, <1>3 DEF Current, Drafting, Recalculating
<1>7. ASSUME t.at = "submit_save" PROVE \E i \in InstanceIds : Submits(t.run, t.row, i)'
  <2>1. PICK i \in InstanceIds : Submits(t.run, t.row, i)
    BY <1>7 DEF Current
  <2>2. t.run \in RunIds /\ t.run # r /\ runs'[t.run] = runs[t.run]
    BY <1>1, <1>3, <1>7 DEF Drafting
  <2>3. Sole(t.run, i)' /\ instances'[i] = instances[i]
    BY <2>1, <2>2, ElsewhereSole DEF Submits
  <2>4. Submits(t.run, t.row, i)'
    BY <2>1, <2>2, <2>3 DEF Submits
  <2> QED BY <2>4
<1>8. ASSUME t.at = "review_save" PROVE AwaitsDecision(t.row.reference, t.instance)'
  BY <1>2, <1>8, TaskFields, ElsewhereSole DEF Current
<1>9. ASSUME t.at = "sync_read"
      PROVE  \E i \in InstanceIds :
                AwaitsDecision(t.row.reference, i)' /\ instances'[i] = t.row
  BY <1>2, <1>9, ElsewhereSole DEF Current
<1>10. ASSUME t.at = "sync_save" PROVE \E i \in InstanceIds : Follows(t.run, t.row, i)'
  <2>1. PICK i \in InstanceIds : Follows(t.run, t.row, i)
    BY <1>10 DEF Current
  <2>2. t.run \in RunIds /\ t.run # r /\ runs'[t.run] = runs[t.run]
    BY <1>1, <1>3, <1>10
  <2>3. AwaitsDecision(t.run, i)' /\ instances'[i] = instances[i]
    BY <2>1, <2>2, ElsewhereSole DEF Follows
  <2>4. Follows(t.run, t.row, i)'
    BY <2>1, <2>2, <2>3 DEF Follows
  <2> QED BY <2>4
<1> QED BY <1>4, <1>5, <1>6, <1>7, <1>8, <1>9, <1>10 DEF Current

\* It is enough to look at the run that a handler is at work on.
LEMMA BooksStay ==
    ASSUME TypeOK, BooksInv, NEW r, Only(r), NEW h \in Handlers,
           NEW t, t = task[h], NEW n, n = task'[h],
           \A g \in Handlers : g # h => task'[g] = task[g] /\ ~OnRun(task[g], r),
           \A q \in RunIds : OnRun(t, q) => q = r,
           Current(n)',
           r \in RunIds => /\ ~(OnRun(n, r) /\ n.at \in Recalculating) => Tallied(r)'
                           /\ ~(OnRun(n, r) /\ n.at \in Announcing) => AllShown(r)'
    PROVE  BooksInv'
<1>1. ASSUME NEW g \in Handlers PROVE Current(task[g])'
  <2>1. CASE g = h
    BY <2>1
  <2>2. CASE g # h
    <3>1. PICK m \in Task : m = task[g]
      BY DEF TypeOK
    <3>2. Current(m)'
      BY <2>2, <3>1, ElsewhereCurrent DEF BooksInv
    <3> QED BY <2>2, <3>1, <3>2
  <2> QED BY <2>1, <2>2
<1>2. ASSUME NEW q \in RunIds, q # r, NEW places, Busy(q, places) PROVE Busy(q, places)'
  <2>1. PICK g \in Handlers : OnRun(task[g], q) /\ task[g].at \in places
    BY <1>2 DEF Busy
  <2>2. g # h
    BY <1>2, <2>1
  <2>3. task'[g] = task[g]
    BY <2>2
  <2> QED BY <2>1, <2>3 DEF Busy
<1>3. \A places : OnRun(n, r) /\ n.at \in places => Busy(r, places)'
  BY DEF Busy
<1>4. ASSUME NEW q \in RunIds
      PROVE  /\ (Tallied(q) \/ Busy(q, Recalculating))'
             /\ (AllShown(q) \/ Busy(q, Announcing))'
  <2>1. CASE q = r
    BY <1>3, <2>1
  <2>2. CASE q # r
    <3>1. /\ Tallied(q) \/ Busy(q, Recalculating)
          /\ AllShown(q) \/ Busy(q, Announcing)
      BY DEF BooksInv
    <3>2. (Tallied(q) => Tallied(q)') /\ (AllShown(q) => AllShown(q)')
      BY <2>2, ElsewhereRun
    <3> QED BY <1>2, <2>2, <3>1, <3>2
  <2> QED BY <2>1, <2>2
<1> QED BY <1>1, <1>4 DEF BooksInv

-----------------------------------------------------------------------------
(***************************************************************************)
(* A handler has its run for itself, from the request on.                  *)
(***************************************************************************)
LEMMA Alone ==
    ASSUME BooksInv, Undisturbed, NEW h \in Handlers, NEW t, t = task[h],
           NEW r \in RunIds, OnRun(t, r)
    PROVE  /\ \A g \in Handlers : g # h => ~OnRun(task[g], r)
           /\ \A q \in RunIds : OnRun(t, q) => q = r
           /\ t.at \notin Recalculating => Tallied(r)
           /\ t.at \notin Announcing => AllShown(r)
<1>1. \A g \in Handlers : g # h => ~OnRun(task[g], r)
  BY DEF Undisturbed
<1>2. \A q \in RunIds : OnRun(t, q) => q = r
  BY DEF OnRun
<1>3. \A places : t.at \notin places => ~Busy(r, places)
  BY <1>1 DEF Busy
<1> QED BY <1>1, <1>2, <1>3 DEF BooksInv

LEMMA Arriving ==
    ASSUME BooksInv, Undisturbed', NEW h \in Handlers, At(h, "idle"),
           \A g \in Handlers : g # h => task'[g] = task[g],
           NEW n, n = task'[h], NEW r \in RunIds, OnRun(n, r)
    PROVE  /\ \A g \in Handlers : g # h => ~OnRun(task[g], r)
           /\ \A q \in RunIds : ~OnRun(task[h], q)
           /\ Tallied(r) /\ AllShown(r)
<1>1. \A g \in Handlers : g # h => ~OnRun(task[g], r)
  BY DEF Undisturbed
<1>2. \A q \in RunIds : ~OnRun(task[h], q)
  BY DEF OnRun, At
<1>3. \A places : ~Busy(r, places)
  BY <1>1, <1>2 DEF Busy
<1> QED BY <1>1, <1>2, <1>3 DEF BooksInv

\* What only looks at runs, items and instances does not change when they do not.
LEMMA Still ==
    ASSUME UNCHANGED <<runs, items, instances>>
    PROVE  /\ \A r : Only(r)
           /\ \A t : Current(t) => Current(t)'
           /\ \A r : Tallied(r) => Tallied(r)'
           /\ \A r : AllShown(r) => AllShown(r)'
<1>1. \A r, i : (Started(r, i)' <=> Started(r, i)) /\ (Sole(r, i)' <=> Sole(r, i))
  BY DEF Started, Sole
<1>2. \A r, i : AwaitsDecision(r, i)' <=> AwaitsDecision(r, i)
  BY <1>1 DEF AwaitsDecision
<1>3. \A r, row, i : /\ Submits(r, row, i)' <=> Submits(r, row, i)
                     /\ Follows(r, row, i)' <=> Follows(r, row, i)
  BY <1>1, <1>2 DEF Submits, Follows
<1>4. \A r : Mutable(r)' <=> Mutable(r)
  BY DEF Mutable
<1>5. \A t : Current(t) => Current(t)'
  BY <1>2, <1>3, <1>4 DEF Current
<1>6. \A r : AllShown(r) => AllShown(r)'
  BY <1>1 DEF AllShown
<1> QED BY <1>5, <1>6 DEF Only, Tallied

\* A step between two database calls, or one that ends the request, keeps the books.
LEMMA QuietBooks ==
    ASSUME TypeOK, BooksInv, Undisturbed, UNCHANGED <<runs, items, instances>>,
           NEW h \in Handlers, NEW t, t = task[h], NEW r \in RunIds, OnRun(t, r),
           NEW n \in Task, Continue(h, n), Current(n), n = Idle \/ OnRun(n, r),
           t.at \in Recalculating => n.at \in Recalculating,
           t.at \in Announcing => n.at \in Announcing
    PROVE  BooksInv'
<1>1. task'[h] = n /\ \A g \in Handlers : g # h => task'[g] = task[g]
  BY ContinueTyped DEF TypeOK
<1>2. Only(r) /\ Current(n)' /\ (Tallied(r) => Tallied(r)') /\ (AllShown(r) => AllShown(r)')
  BY Still
<1>3. Idle.at \notin Recalculating /\ Idle.at \notin Announcing
  BY DEF Idle, Recalculating, Announcing
<1>4. /\ ~(OnRun(n, r) /\ n.at \in Recalculating) => Tallied(r)'
      /\ ~(OnRun(n, r) /\ n.at \in Announcing) => AllShown(r)'
  BY <1>2, <1>3, Alone
<1>5. \A g \in Handlers : g # h => task'[g] = task[g] /\ ~OnRun(task[g], r)
  BY <1>1, Alone
<1>6. \A q \in RunIds : OnRun(t, q) => q = r
  BY Alone
<1> QED BY <1>1, <1>2, <1>4, <1>5, <1>6, BooksStay

\* The first step of a request reads what is in the tables.
LEMMA ArrivalBooks ==
    ASSUME TypeOK, BooksInv, Undisturbed', UNCHANGED <<runs, items, instances>>,
           NEW h \in Handlers, At(h, "idle"), NEW n \in Task, Continue(h, n), Current(n),
           NEW r \in RunIds, OnRun(n, r)
    PROVE  BooksInv'
<1>1. task'[h] = n /\ \A g \in Handlers : g # h => task'[g] = task[g]
  BY ContinueTyped DEF TypeOK
<1>2. Only(r) /\ Current(n)' /\ (Tallied(r) => Tallied(r)') /\ (AllShown(r) => AllShown(r)')
  BY Still
<1>3. Tallied(r)' /\ AllShown(r)'
  BY <1>1, <1>2, Arriving
<1>4. \A g \in Handlers : g # h => task'[g] = task[g] /\ ~OnRun(task[g], r)
  BY <1>1, Arriving
<1>5. \A q \in RunIds : OnRun(task[h], q) => q = r
  BY <1>1, Arriving
<1> QED BY <1>1, <1>2, <1>3, <1>4, <1>5, BooksStay

\* Requests about workflow definitions are about no run.
LEMMA DefinitionBooks ==
    ASSUME TypeOK, BooksInv, UNCHANGED <<runs, items, instances>>,
           NEW h \in Handlers, task[h].at \in {"idle", "define_save"},
           NEW n \in Task, Continue(h, n), n.at \in {"idle", "define_save"}
    PROVE  BooksInv'
<1>1. task'[h] = n /\ \A g \in Handlers : g # h => task'[g] = task[g]
  BY ContinueTyped DEF TypeOK
<1>2. \A m \in Handlers : task[m].at \notin {"idle", "define_save"} => task'[m] = task[m]
  BY <1>1
<1>3. \A r, places : places \in {Recalculating, Announcing} /\ Busy(r, places) => Busy(r, places)'
  BY <1>2 DEF Busy, Recalculating, Announcing
<1>4. Current(n)
  BY DEF Current, Drafting, Recalculating, HoldsCurrent
<1>5. \A m \in Handlers : Current(task[m])'
  <2> TAKE m \in Handlers
  <2>1. PICK k : k = task'[m]
    OBVIOUS
  <2>2. Current(k)
    BY <1>1, <1>4, <2>1 DEF BooksInv
  <2>3. Current(k)'
    BY <2>2, Still
  <2> QED BY <2>1, <2>3
<1>6. \A r \in RunIds : (Tallied(r) => Tallied(r)') /\ (AllShown(r) => AllShown(r)')
  BY Still
<1> QED BY <1>3, <1>5, <1>6 DEF BooksInv


-----------------------------------------------------------------------------
(***************************************************************************)
(* The lifecycle, one kind of step at a time.                              *)
(***************************************************************************)
Phase == [r \in RunIds |-> IF runs[r] = None THEN "absent" ELSE runs[r].status]

LifeStep == Lifecycle!Next \/ UNCHANGED <<Phase, items>>

LEMMA StillLives ==
    ASSUME UNCHANGED <<runs, items>>
    PROVE  LifeStep
BY DEF LifeStep, Phase

\* Saving a row sets the phase of its run.
LEMMA SavedPhase ==
    ASSUME TypeOK, NEW r \in RunIds, NEW row \in Run, runs' = [runs EXCEPT ![r] = row]
    PROVE  Phase' = [Phase EXCEPT ![r] = row.status]
<1>1. row # None
  BY PayrollAssumption
<1>2. \A q \in RunIds : runs'[q] = IF q = r THEN row ELSE runs[q]
  BY DEF TypeOK
<1> DEFINE after == [Phase EXCEPT ![r] = row.status]
<1>3. \A q \in RunIds : Phase'[q] = after[q]
  BY <1>1, <1>2 DEF Phase
<1>4. DOMAIN after = RunIds
  BY DEF Phase
<1>5. Phase' = [q \in RunIds |-> Phase'[q]]
  BY DEF Phase
<1>6. after = [q \in RunIds |-> after[q]]
  BY <1>4
<1> QED BY <1>3, <1>5, <1>6

LEMMA PhaseOf ==
    ASSUME TypeOK, NEW r \in RunIds
    PROVE  Phase[r] = IF runs[r] = None THEN "absent" ELSE runs[r].status
BY DEF Phase

LEMMA Opens ==
    ASSUME TypeOK, NEW r \in RunIds, NEW row \in Run, row.status = "draft", runs[r] = None,
           runs' = [runs EXCEPT ![r] = row], items' = items
    PROVE  LifeStep
<1>1. Phase[r] = "absent" /\ Phase' = [Phase EXCEPT ![r] = "draft"]
  BY SavedPhase, PhaseOf
<1>2. Lifecycle!Open(r)
  BY <1>1 DEF Lifecycle!Open, Lifecycle!Become, Phase
<1> QED BY <1>2 DEF LifeStep, Lifecycle!Next

LEMMA Amends ==
    ASSUME TypeOK, TypeOK', NEW r \in RunIds, Mutable(r), runs' = runs,
           \A q \in RunIds : q # r => items'[q] = items[q]
    PROVE  LifeStep
<1>1. Phase[r] = "draft" /\ Phase' = Phase
  BY PhaseOf DEF Mutable, Phase
<1>2. PICK table \in ItemTable : table = items'[r]
  BY DEF TypeOK
<1>3. items' = [items EXCEPT ![r] = table]
  BY <1>2 DEF TypeOK
<1>4. Lifecycle!Amend(r)
  BY <1>1, <1>3 DEF Lifecycle!Amend, Phase
<1> QED BY <1>4 DEF LifeStep, Lifecycle!Next

LEMMA Submission ==
    ASSUME TypeOK, NEW r \in RunIds, NEW row \in Run, row.status = "pending_approval",
           Mutable(r), PaysSomebody(r), runs' = [runs EXCEPT ![r] = row], items' = items
    PROVE  LifeStep
<1>1. Phase[r] = "draft" /\ Phase' = [Phase EXCEPT ![r] = "pending_approval"]
  BY SavedPhase, PhaseOf DEF Mutable
<1>2. items[r] # NoItems
  BY DEF PaysSomebody, Paid, NoItems
<1>3. Lifecycle!Submit(r)
  BY <1>1, <1>2 DEF Lifecycle!Submit, Lifecycle!Become, Phase
<1> QED BY <1>3 DEF LifeStep, Lifecycle!Next

LEMMA Decides ==
    ASSUME TypeOK, NEW r \in RunIds, NEW row \in Run, row.status \in {"approved", "rejected"},
           runs[r] # None, runs[r].status = "pending_approval",
           runs' = [runs EXCEPT ![r] = row], items' = items
    PROVE  LifeStep
<1>1. Phase[r] = "pending_approval" /\ Phase' = [Phase EXCEPT ![r] = row.status]
  BY SavedPhase, PhaseOf
<1>2. Lifecycle!Decide(r)
  BY <1>1 DEF Lifecycle!Decide, Lifecycle!Become, Phase
<1> QED BY <1>2 DEF LifeStep, Lifecycle!Next

LEMMA SameStatus ==
    ASSUME TypeOK, NEW r \in RunIds, NEW row \in Run, runs[r] # None,
           row.status = runs[r].status, runs' = [runs EXCEPT ![r] = row], items' = items
    PROVE  LifeStep
<1>1. Phase' = [Phase EXCEPT ![r] = Phase[r]]
  BY SavedPhase, PhaseOf
<1>2. Phase' = Phase
  BY <1>1 DEF Phase
<1> QED BY <1>2 DEF LifeStep


-----------------------------------------------------------------------------
(***************************************************************************)
(* The steps, one by one.                                                  *)
(***************************************************************************)
LEMMA Moves ==
    ASSUME TypeOK, TypeOK', NEW h \in Handlers, NEW next, Continue(h, next)
    PROVE  /\ next \in Task /\ task'[h] = next
           /\ \A g \in Handlers : g # h => task'[g] = task[g]
BY DEF TypeOK, Continue

\* Nothing has been started for a run that does not exist or is a draft.
LEMMA NothingStarted ==
    ASSUME IInv, NEW r \in RunIds, NEW i \in InstanceIds, Started(r, i)
    PROVE  runs[r] # None /\ (AllShown(r) => runs[r].status # "draft")
<1>1. instances[i] \in WorkflowInstance /\ instances[i].reference = r /\ PaysSomebody(r)
  BY DEF IInv, TypeOK, Justified, InstanceRowJustified, Started
<1>2. items[r] # NoItems
  BY <1>1 DEF PaysSomebody, Paid, NoItems
<1>3. RunStatusFor(instances[i].status) # "draft"
  BY <1>1 DEF WorkflowInstance, Instance, RunStatusFor
<1> QED BY <1>2, <1>3 DEF IInv, Justified, AllShown

LEMMA CreateBooks ==
    ASSUME IInv, TypeOK', BooksInv, Undisturbed', NEW h \in Handlers,
           NEW u \in Users, NEW r \in RunIds, CreatePayrollRun(h, u, r)
    PROVE  BooksInv' /\ LifeStep
<1> DEFINE n == [at |-> "create_items", run |-> r]
           row == [status |-> "draft", workflowInstanceId |-> None, totals |-> Totals(NoItems)]
<1>1. /\ At(h, "idle") /\ runs[r] = None /\ runs' = [runs EXCEPT ![r] = row]
      /\ Continue(h, n) /\ UNCHANGED <<items, instances>>
  BY DEF CreatePayrollRun
<1>2. row \in Run /\ row.status = "draft" /\ row.totals = Totals(NoItems)
  BY TotalsTyped, PayrollAssumption DEF Run, RunStatus
<1> HIDE DEF row
<1>3. n \in Task /\ task'[h] = n /\ \A g \in Handlers : g # h => task'[g] = task[g]
  BY <1>1, Moves DEF IInv
<1>4. /\ runs'[r] = row /\ row # None
      /\ \A q \in RunIds : q # r => runs'[q] = runs[q]
  BY <1>1, <1>2, PayrollAssumption DEF IInv, TypeOK
<1>5. OnRun(n, r)
  BY DEF OnRun
<1>6. /\ \A g \in Handlers : g # h => task'[g] = task[g] /\ ~OnRun(task[g], r)
      /\ \A q \in RunIds : OnRun(task[h], q) => q = r
  BY <1>1, <1>3, <1>5, Arriving
<1>7. Only(r)
  BY <1>1, <1>4 DEF Only
<1>8. Current(n)'
  BY <1>2, <1>4 DEF Current, Mutable, HoldsCurrent
<1>9. Tallied(r)'
  BY <1>1, <1>2, <1>4 DEF IInv, Justified, Tallied
<1>10. AllShown(r)'
  <2>1. \A i \in InstanceIds : ~Started(r, i)
    BY <1>1, NothingStarted
  <2> QED BY <1>1, <2>1 DEF AllShown, Started
<1>11. BooksInv'
  BY <1>3, <1>6, <1>7, <1>8, <1>9, <1>10, BooksStay DEF IInv
<1>12. LifeStep
  BY <1>1, <1>2, Opens DEF IInv
<1> QED BY <1>11, <1>12

LEMMA CreateItemsBooks ==
    ASSUME IInv, TypeOK', BooksInv, Undisturbed, NEW h \in Handlers, CreatePayrollItems(h)
    PROVE  BooksInv' /\ LifeStep
<1> PICK t : t = task[h]
  OBVIOUS
<1> PICK r : r = t.run
  OBVIOUS
<1> DEFINE m == [at |-> "recalc_read", run |-> r]
<1>1. t \in Task /\ t.at = "create_items" /\ r \in RunIds /\ Current(t) /\ TaskJustified(t)
  BY TaskFields DEF IInv, TypeOK, CreatePayrollItems, At, BooksInv, Justified
<1>2. OnRun(t, r) /\ Mutable(r) /\ items[r] = NoItems
  BY <1>1 DEF OnRun, Current, Drafting, TaskJustified
<1>3. PICK eligible \in SUBSET Employees :
         /\ items' = [items EXCEPT ![r] = FirstItems(eligible)]
         /\ IF eligible = {} THEN Finish(h) ELSE Continue(h, m)
  BY DEF CreatePayrollItems
<1>4. UNCHANGED <<runs, instances>>
  BY DEF CreatePayrollItems
<1>5. /\ items'[r] = FirstItems(eligible)
      /\ \A q \in RunIds : q # r => items'[q] = items[q]
  BY <1>1, <1>3 DEF IInv, TypeOK
<1>6. Only(r)
  BY <1>4, <1>5 DEF Only
<1>7. /\ \A g \in Handlers : g # h => ~OnRun(task[g], r)
      /\ \A q \in RunIds : OnRun(t, q) => q = r
      /\ Tallied(r) /\ AllShown(r)
  BY <1>1, <1>2, Alone DEF Recalculating, Announcing
<1>8. AllShown(r)'
  BY <1>4, <1>7 DEF AllShown, Started
<1>9. LifeStep
  BY <1>1, <1>2, <1>4, <1>5, Amends DEF IInv
<1>10. CASE eligible = {}
  <2>1. task'[h] = Idle /\ \A g \in Handlers : g # h => task'[g] = task[g]
    BY <1>3, <1>10, FinishTyped DEF IInv, TypeOK
  <2>2. FirstItems({}) = NoItems
    BY DEF FirstItems, NoItems
  <2>3. Tallied(r)'
    BY <1>2, <1>4, <1>5, <1>7, <1>10, <2>2 DEF Tallied
  <2>4. Current(Idle)'
    BY DEF Current, Idle, Drafting, Recalculating, HoldsCurrent
  <2>5. BooksInv'
    BY <1>6, <1>7, <1>8, <2>1, <2>3, <2>4, BooksStay DEF IInv
  <2> QED BY <1>9, <2>5
<1>11. CASE eligible # {}
  <2>1. m \in Task /\ task'[h] = m /\ \A g \in Handlers : g # h => task'[g] = task[g]
    BY <1>3, <1>11, Moves DEF IInv
  <2>2. OnRun(m, r) /\ m.at \in Recalculating
    BY DEF OnRun, Recalculating
  <2>3. Current(m)'
    BY <1>2, <1>4 DEF Current, Mutable, HoldsCurrent
  <2>4. BooksInv'
    BY <1>6, <1>7, <1>8, <2>1, <2>2, <2>3, BooksStay DEF IInv
  <2> QED BY <1>9, <2>4
<1> QED BY <1>10, <1>11


LEMMA IdleCurrent == Current(Idle) /\ Current(Idle)' /\ Idle \in Task
BY DEF Current, Idle, Drafting, Recalculating, HoldsCurrent, Task

\* recalculatePayrollRunTotals reads.
LEMMA RecalcBooks ==
    ASSUME IInv, TypeOK', BooksInv, Undisturbed, NEW h \in Handlers,
           RecalcReadRun(h) \/ RecalcReadItems(h)
    PROVE  BooksInv' /\ LifeStep
<1> PICK t : t = task[h]
  OBVIOUS
<1> PICK r : r = t.run
  OBVIOUS
<1>1. /\ t \in Task /\ t.at \in {"recalc_read", "recalc_items"} /\ r \in RunIds /\ Current(t)
      /\ t.at = "recalc_items" => t.row \in Run
  BY TaskFields
     DEF IInv, TypeOK, RecalcReadRun, RecalcReadItems, At, BooksInv, HoldsRunRow
<1>2. OnRun(t, r) /\ Mutable(r) /\ t.at \notin Announcing
  BY <1>1 DEF OnRun, Current, Drafting, Recalculating, Announcing
<1>3. UNCHANGED <<runs, items, instances>>
  BY DEF RecalcReadRun, RecalcReadItems, tables
<1>4. PICK n : /\ Continue(h, n) /\ n.at \in {"recalc_items", "recalc_save"} /\ n.run = r
               /\ n.at = "recalc_items" => n.row = runs[r]
               /\ n.at = "recalc_save" => n.row = [runs[r] EXCEPT !.totals = Totals(items[r])]
  <2>1. CASE RecalcReadRun(h)
    BY <2>1 DEF RecalcReadRun
  <2>2. CASE RecalcReadItems(h)
    <3>1. t.at = "recalc_items" /\ t.row = runs[r]
      BY <1>1, <2>2 DEF RecalcReadItems, At, Current, HoldsCurrent
    <3> QED BY <2>2, <3>1 DEF RecalcReadItems
  <2> QED BY <2>1, <2>2
<1>5. n \in Task
  BY <1>4, Moves DEF IInv
<1>6. Current(n)
  BY <1>2, <1>4 DEF Current, HoldsCurrent
<1>7. OnRun(n, r) /\ n.at \in Recalculating
  BY <1>4 DEF OnRun, Recalculating
<1>8. BooksInv'
  BY <1>1, <1>2, <1>3, <1>4, <1>5, <1>6, <1>7, QuietBooks DEF IInv
<1> QED BY <1>3, <1>8, StillLives

\* ... and saves: only the totals of the run are different.
LEMMA RecalcSaveBooks ==
    ASSUME IInv, TypeOK', BooksInv, Undisturbed, NEW h \in Handlers, RecalcSave(h)
    PROVE  BooksInv' /\ LifeStep
<1> PICK t : t = task[h]
  OBVIOUS
<1> PICK r : r = t.run
  OBVIOUS
<1>1. /\ t \in Task /\ t.at = "recalc_save" /\ r \in RunIds /\ t.row \in Run /\ Current(t)
  BY TaskFields DEF IInv, TypeOK, RecalcSave, At, BooksInv, HoldsRunRow
<1>2. /\ OnRun(t, r) /\ Mutable(r) /\ t.at \notin Announcing
      /\ t.row = [runs[r] EXCEPT !.totals = Totals(items[r])]
  BY <1>1 DEF OnRun, Current, Drafting, Recalculating, Announcing
<1>3. PICK row \in Run : row = t.row
  BY <1>1
<1>4. runs[r] \in Run /\ runs[r] # None
  BY <1>1, <1>2 DEF IInv, TypeOK, Mutable
<1>5. /\ row.status = runs[r].status
      /\ row.workflowInstanceId = runs[r].workflowInstanceId
      /\ row.totals = Totals(items[r])
  BY <1>2, <1>3, <1>4 DEF Run
<1>6. /\ runs' = [runs EXCEPT ![r] = row] /\ Finish(h)
      /\ UNCHANGED <<items, instances>>
  BY <1>3 DEF RecalcSave
<1>7. runs'[r] = row /\ \A q \in RunIds : q # r => runs'[q] = runs[q]
  BY <1>1, <1>6 DEF IInv, TypeOK
<1>8. task'[h] = Idle /\ \A g \in Handlers : g # h => task'[g] = task[g]
  BY <1>6, FinishTyped DEF IInv, TypeOK
<1>9. /\ \A g \in Handlers : g # h => ~OnRun(task[g], r)
      /\ \A q \in RunIds : OnRun(t, q) => q = r
      /\ AllShown(r)
  BY <1>1, <1>2, Alone
<1>10. Only(r)
  BY <1>6, <1>7 DEF Only
<1>11. Tallied(r)' /\ AllShown(r)'
  BY <1>5, <1>6, <1>7, <1>9 DEF Tallied, AllShown, Started
<1>12. BooksInv'
  BY <1>8, <1>9, <1>10, <1>11, IdleCurrent, BooksStay DEF IInv
<1>13. LifeStep
  BY <1>1, <1>4, <1>5, <1>6, SameStatus DEF IInv
<1> QED BY <1>12, <1>13

LEMMA EditBooks ==
    ASSUME IInv, TypeOK', BooksInv, Undisturbed', NEW h \in Handlers,
           NEW u \in Users, NEW r \in RunIds, NEW e \in Employees, NEW dto \in ItemEdit,
           UpdatePayrollItem(h, u, r, e, dto)
    PROVE  BooksInv' /\ LifeStep
<1> DEFINE n == [at |-> "edit_read", run |-> r, employee |-> e, dto |-> dto]
<1>1. /\ At(h, "idle") /\ Mutable(r) /\ Continue(h, n)
      /\ UNCHANGED <<runs, items, instances>>
  BY DEF UpdatePayrollItem, tables
<1>2. n \in Task
  BY <1>1, Moves DEF IInv
<1>3. Current(n) /\ OnRun(n, r)
  BY <1>1 DEF Current, OnRun, HoldsCurrent
<1>4. BooksInv'
  BY <1>1, <1>2, <1>3, ArrivalBooks DEF IInv
<1> QED BY <1>1, <1>4, StillLives

LEMMA EditReadBooks ==
    ASSUME IInv, TypeOK', BooksInv, Undisturbed, NEW h \in Handlers, EditReadItem(h)
    PROVE  BooksInv' /\ LifeStep
<1> PICK t : t = task[h]
  OBVIOUS
<1> PICK r : r = t.run
  OBVIOUS
<1>1. /\ t \in Task /\ t.at = "edit_read" /\ r \in RunIds /\ Current(t)
  BY TaskFields DEF IInv, TypeOK, EditReadItem, At, BooksInv
<1>2. OnRun(t, r) /\ Mutable(r) /\ t.at \notin Announcing /\ t.at \notin Recalculating
  BY <1>1 DEF OnRun, Current, Drafting, Recalculating, Announcing
<1>3. UNCHANGED <<runs, items, instances>>
  BY DEF EditReadItem, tables
<1>4. PICK n : Continue(h, n) /\ (n = Idle \/ (n.at = "edit_save" /\ n.run = r))
  <2>1. PICK item : Finish(h) \/ Continue(h, [at |-> "edit_save", run |-> r,
                                              employee |-> t.employee, item |-> item])
    BY DEF EditReadItem
  <2> DEFINE m == [at |-> "edit_save", run |-> r, employee |-> t.employee, item |-> item]
  <2>2. m.at = "edit_save" /\ m.run = r
    OBVIOUS
  <2> QED BY <2>1, <2>2 DEF Finish
<1>5. n \in Task
  BY <1>4, Moves DEF IInv
<1>6. Current(n) /\ (n = Idle \/ OnRun(n, r))
  BY <1>2, <1>4, IdleCurrent DEF Current, OnRun, HoldsCurrent
<1>7. BooksInv'
  BY <1>1, <1>2, <1>3, <1>4, <1>5, <1>6, QuietBooks DEF IInv
<1> QED BY <1>3, <1>7, StillLives

LEMMA EditSaveBooks ==
    ASSUME IInv, TypeOK', BooksInv, Undisturbed, NEW h \in Handlers, EditSaveItem(h)
    PROVE  BooksInv' /\ LifeStep
<1> PICK t : t = task[h]
  OBVIOUS
<1> PICK r : r = t.run
  OBVIOUS
<1> DEFINE m == [at |-> "recalc_read", run |-> r]
<1>1. /\ t \in Task /\ t.at = "edit_save" /\ r \in RunIds /\ Current(t)
  BY TaskFields DEF IInv, TypeOK, EditSaveItem, At, BooksInv
<1>2. OnRun(t, r) /\ Mutable(r) /\ t.at \notin Announcing
  BY <1>1 DEF OnRun, Current, Drafting, Announcing
<1>3. UNCHANGED <<runs, instances>> /\ Continue(h, m)
  BY DEF EditSaveItem
<1>4. \A q \in RunIds : q # r => items'[q] = items[q]
  BY <1>1 DEF IInv, TypeOK, EditSaveItem
<1>5. m \in Task /\ task'[h] = m /\ \A g \in Handlers : g # h => task'[g] = task[g]
  BY <1>3, Moves DEF IInv
<1>6. /\ \A g \in Handlers : g # h => ~OnRun(task[g], r)
      /\ \A q \in RunIds : OnRun(t, q) => q = r
      /\ AllShown(r)
  BY <1>1, <1>2, Alone
<1>7. Only(r)
  BY <1>3, <1>4 DEF Only
<1>8. AllShown(r)'
  BY <1>3, <1>6 DEF AllShown, Started
<1>9. OnRun(m, r) /\ m.at \in Recalculating
  BY DEF OnRun, Recalculating
<1>10. Current(m)'
  BY <1>2, <1>3 DEF Current, Mutable, HoldsCurrent
<1>11. BooksInv'
  BY <1>5, <1>6, <1>7, <1>8, <1>9, <1>10, BooksStay DEF IInv
<1>12. LifeStep
  BY <1>1, <1>2, <1>3, <1>4, Amends DEF IInv
<1> QED BY <1>11, <1>12


LEMMA SubmitBooks ==
    ASSUME IInv, TypeOK', BooksInv, Undisturbed', NEW h \in Handlers,
           NEW u \in Users, NEW r \in RunIds, SubmitPayrollRun(h, u, r)
    PROVE  BooksInv' /\ LifeStep
<1> DEFINE n == [at |-> "submit_items", run |-> r, row |-> runs[r], user |-> u]
<1>1. /\ At(h, "idle") /\ Mutable(r) /\ Continue(h, n)
      /\ UNCHANGED <<runs, items, instances>>
  BY DEF SubmitPayrollRun, tables
<1>2. n \in Task
  BY <1>1, Moves DEF IInv
<1>3. Current(n) /\ OnRun(n, r)
  BY <1>1 DEF Current, OnRun
<1>4. BooksInv'
  BY <1>1, <1>2, <1>3, ArrivalBooks DEF IInv
<1> QED BY <1>1, <1>4, StillLives

\* From the check of the items to the check for a pending instance a submit only reads
\* runs, items and instances.
LEMMA SubmitReadBooks ==
    ASSUME IInv, TypeOK', BooksInv, Undisturbed, NEW h \in Handlers,
           \/ SubmitReadItems(h) \/ EnsureFindDefinition(h) \/ EnsureSaveDefinition(h)
           \/ StartFindDefinition(h) \/ StartCheckPending(h)
    PROVE  BooksInv' /\ LifeStep
<1> PICK t : t = task[h]
  OBVIOUS
<1> PICK r : r = t.run
  OBVIOUS
<1> DEFINE Places == {"submit_items", "ensure_find", "ensure_save", "start_find", "start_check"}
           Onward(m) == m.at \in Places \cup {"start_save"} /\ m.run = r /\ m.row = t.row
<1>1. /\ t \in Task /\ t.at \in Places /\ r \in RunIds /\ Current(t)
  BY TaskFields
     DEF IInv, TypeOK, SubmitReadItems, EnsureFindDefinition, EnsureSaveDefinition,
         StartFindDefinition, StartCheckPending, At, BooksInv, HoldsRunRow, PastItemCheck
<1>2. /\ OnRun(t, r) /\ Mutable(r) /\ t.row = runs[r]
      /\ t.at \notin Announcing /\ t.at \notin Recalculating
  BY <1>1 DEF OnRun, Current, Drafting, HoldsCurrent, Recalculating, Announcing
<1>3. UNCHANGED <<runs, items, instances>>
  BY DEF SubmitReadItems, EnsureFindDefinition, EnsureSaveDefinition, StartFindDefinition,
         StartCheckPending, tables
<1>4. PICK n : Continue(h, n) /\ (n = Idle \/ Onward(n))
  <2>1. ASSUME NEW place \in Places \cup {"start_save"},
               place = "start_save" => t.at = "start_check",
               place # "start_save" =>
                   t.at # "start_check" /\ place \in {"ensure_find", "ensure_save", "start_find"}
        PROVE  Onward([t EXCEPT !.at = place])
    BY <1>1, <2>1, SubmitMovesOn, StartMovesOn
  <2>2. CASE SubmitReadItems(h)
    <3>1. t.at = "submit_items"
      BY <2>2 DEF SubmitReadItems, At
    <3>2. Onward([t EXCEPT !.at = "ensure_find"])
      BY <2>1, <3>1
    <3> QED BY <2>2, <3>2 DEF SubmitReadItems, Finish
  <2>3. CASE EnsureFindDefinition(h)
    <3>1. t.at = "ensure_find"
      BY <2>3 DEF EnsureFindDefinition, At
    <3>2. PICK place \in {"ensure_save", "start_find"} :
             Continue(h, [t EXCEPT !.at = place])
      BY <2>3 DEF EnsureFindDefinition
    <3>3. Onward([t EXCEPT !.at = place])
      BY <2>1, <3>1
    <3> QED BY <3>2, <3>3
  <2>4. CASE EnsureSaveDefinition(h)
    <3>1. t.at = "ensure_save"
      BY <2>4 DEF EnsureSaveDefinition, At
    <3>2. Onward([t EXCEPT !.at = "start_find"])
      BY <2>1, <3>1
    <3> QED BY <2>4, <3>2 DEF EnsureSaveDefinition, Finish
  <2>5. CASE StartFindDefinition(h)
    <3>1. PICK steps : Finish(h) \/ Continue(h, [at |-> "start_check", run |-> r,
                              row |-> t.row, user |-> t.user, steps |-> steps])
      BY <2>5 DEF StartFindDefinition
    <3>2. Onward([at |-> "start_check", run |-> r, row |-> t.row, user |-> t.user,
                 steps |-> steps])
      OBVIOUS
    <3> QED BY <3>1, <3>2 DEF Finish
  <2>6. CASE StartCheckPending(h)
    <3>1. t.at = "start_check"
      BY <2>6 DEF StartCheckPending, At
    <3>2. Onward([t EXCEPT !.at = "start_save"])
      BY <2>1, <3>1
    <3> QED BY <2>6, <3>2 DEF StartCheckPending, Finish
  <2> QED BY <2>2, <2>3, <2>4, <2>5, <2>6
<1>5. n \in Task
  BY <1>4, Moves DEF IInv
<1>6. Current(n) /\ (n = Idle \/ OnRun(n, r))
  BY <1>2, <1>4, IdleCurrent DEF Current, OnRun
<1>7. BooksInv'
  BY <1>1, <1>2, <1>3, <1>4, <1>5, <1>6, QuietBooks DEF IInv
<1> QED BY <1>3, <1>7, StillLives

\* Nothing has been started for a draft: the new instance is its only one.
LEMMA StartBooks ==
    ASSUME IInv, TypeOK', BooksInv, Undisturbed, NEW h \in Handlers, StartSaveInstance(h)
    PROVE  BooksInv' /\ LifeStep
<1> PICK t : t = task[h]
  OBVIOUS
<1> PICK r : r = t.run
  OBVIOUS
<1>1. /\ t \in Task /\ t.at = "start_save" /\ r \in RunIds /\ t.row \in Run /\ Current(t)
  BY TaskFields DEF IInv, TypeOK, StartSaveInstance, At, BooksInv, HoldsRunRow, PastItemCheck
<1>2. /\ OnRun(t, r) /\ Mutable(r) /\ t.row = runs[r]
      /\ t.at \notin Announcing /\ t.at \notin Recalculating
  BY <1>1 DEF OnRun, Current, Drafting, HoldsCurrent, Recalculating, Announcing
<1>3. PICK new \in WorkflowInstance :
         /\ new = StartedInstance(t.run, t.user, t.steps)
         /\ new.reference = r /\ new.status = "pending"
  <2>1. t.user \in Users /\ t.steps \in Seq(StepDefinition) /\ Ordered(t.steps)
    BY <1>1, TaskFields DEF IInv, Justified, TaskJustified
  <2>2. StartedInstance(t.run, t.user, t.steps) \in WorkflowInstance
    BY <1>1, <2>1, StartedIsSound DEF WorkflowInstance
  <2> QED BY <2>2 DEF StartedInstance
<1>4. PICK i \in InstanceIds :
         /\ instances[i] = None /\ instances' = [instances EXCEPT ![i] = new]
         /\ Continue(h, [at |-> "submit_save", run |-> r,
                         row |-> [t.row EXCEPT !.status = "pending_approval",
                                               !.workflowInstanceId = i]])
  BY <1>3 DEF StartSaveInstance
<1> PICK row : row = [runs[r] EXCEPT !.status = "pending_approval", !.workflowInstanceId = i]
  OBVIOUS
<1> PICK n : n = [at |-> "submit_save", run |-> r, row |-> row]
  OBVIOUS
<1>5. n \in Task /\ task'[h] = n /\ \A g \in Handlers : g # h => task'[g] = task[g]
  BY <1>2, <1>4, Moves DEF IInv
<1>6. UNCHANGED <<runs, items>>
  BY DEF StartSaveInstance
<1>7. /\ instances'[i] = new /\ new # None
      /\ \A j \in InstanceIds : j # i => instances'[j] = instances[j]
  BY <1>4, PayrollAssumption DEF IInv, TypeOK
<1>8. /\ \A g \in Handlers : g # h => ~OnRun(task[g], r)
      /\ \A q \in RunIds : OnRun(t, q) => q = r
      /\ Tallied(r) /\ AllShown(r)
  BY <1>1, <1>2, Alone
<1>9. Only(r)
  BY <1>3, <1>4, <1>6, <1>7 DEF Only
<1>10. Tallied(r)'
  BY <1>6, <1>8 DEF Tallied
<1>11. \A j \in InstanceIds : ~Started(r, j)
  BY <1>1, <1>2, <1>8, NothingStarted DEF Mutable
<1>12. Sole(r, i)'
  BY <1>3, <1>7, <1>11 DEF Sole, Started
<1>13. Submits(r, row, i)'
  BY <1>3, <1>6, <1>7, <1>12 DEF Submits
<1>14. Mutable(r)'
  BY <1>2, <1>6 DEF Mutable
<1>15. /\ n.at = "submit_save" /\ n.run = r /\ n.row = row
       /\ OnRun(n, r) /\ n.at \in Announcing
  BY DEF OnRun, Announcing
<1>16. Current(n)'
  BY <1>13, <1>14, <1>15 DEF Current, HoldsCurrent
<1>17. BooksInv'
  BY <1>5, <1>8, <1>9, <1>10, <1>15, <1>16, BooksStay DEF IInv
<1> QED BY <1>6, <1>17, StillLives

\* The run learns of its instance: the two tables agree again.
LEMMA SubmitSaveBooks ==
    ASSUME IInv, TypeOK', BooksInv, Undisturbed, NEW h \in Handlers, SubmitSaveRun(h)
    PROVE  BooksInv' /\ LifeStep
<1> PICK t : t = task[h]
  OBVIOUS
<1> PICK r : r = t.run
  OBVIOUS
<1>1. /\ t \in Task /\ t.at = "submit_save" /\ r \in RunIds /\ t.row \in Run
      /\ Current(t) /\ TaskJustified(t)
  BY TaskFields
     DEF IInv, TypeOK, Justified, SubmitSaveRun, At, BooksInv, HoldsRunRow, PastItemCheck
<1>2. /\ OnRun(t, r) /\ Mutable(r) /\ PaysSomebody(r) /\ t.at \notin Recalculating
  BY <1>1 DEF OnRun, Current, Drafting, Recalculating, TaskJustified, PastItemCheck
<1>3. PICK i \in InstanceIds : Submits(r, t.row, i)
  BY <1>1 DEF Current
<1>4. PICK row \in Run : row = t.row
  BY <1>1
<1>5. runs[r] \in Run /\ runs[r] # None
  BY <1>1, <1>2 DEF IInv, TypeOK, Mutable
<1>6. /\ row.status = "pending_approval" /\ row.workflowInstanceId = i
      /\ row.totals = runs[r].totals
  BY <1>3, <1>4, <1>5 DEF Run, Submits
<1>7. /\ runs' = [runs EXCEPT ![r] = row] /\ Finish(h)
      /\ UNCHANGED <<items, instances>>
  BY <1>4 DEF SubmitSaveRun
<1>8. runs'[r] = row /\ \A q \in RunIds : q # r => runs'[q] = runs[q]
  BY <1>1, <1>7 DEF IInv, TypeOK
<1>9. task'[h] = Idle /\ \A g \in Handlers : g # h => task'[g] = task[g]
  BY <1>7, FinishTyped DEF IInv, TypeOK
<1>10. /\ \A g \in Handlers : g # h => ~OnRun(task[g], r)
       /\ \A q \in RunIds : OnRun(t, q) => q = r
       /\ Tallied(r)
  BY <1>1, <1>2, Alone
<1>11. Only(r)
  BY <1>7, <1>8 DEF Only
<1>12. Tallied(r)'
  BY <1>5, <1>6, <1>7, <1>8, <1>10 DEF Tallied
<1>13. AllShown(r)'
  <2>1. \A j \in InstanceIds : Started(r, j)' => j = i
    BY <1>3, <1>7 DEF Submits, Sole, Started
  <2>2. RunStatusFor(instances'[i].status) = "pending_approval"
    BY <1>3, <1>7 DEF Submits, RunStatusFor
  <2> QED BY <1>6, <1>8, <2>1, <2>2 DEF AllShown
<1>14. BooksInv'
  BY <1>9, <1>10, <1>11, <1>12, <1>13, IdleCurrent, BooksStay DEF IInv
<1>15. LifeStep
  BY <1>1, <1>2, <1>6, <1>7, Submission DEF IInv
<1> QED BY <1>14, <1>15

\* A reviewer finds the run waiting for the instance that is reviewed.
LEMMA ReviewBooks ==
    ASSUME IInv, TypeOK', BooksInv, Undisturbed', NEW h \in Handlers,
           NEW u \in Users, NEW i \in InstanceIds, NEW decision \in {"approved", "rejected"},
           ReviewInstance(h, u, i, decision)
    PROVE  BooksInv' /\ LifeStep
<1>1. PICK k \in DOMAIN instances[i].steps :
         /\ MayReview(u, instances[i], k)
         /\ Continue(h, [at |-> "review_save", instance |-> i,
                         row |-> Reviewed(instances[i], k, u, decision)])
  BY DEF ReviewInstance
<1>2. /\ At(h, "idle") /\ instances[i] # None /\ UNCHANGED <<runs, items, instances>>
  BY DEF ReviewInstance, tables
<1>3. instances[i] \in WorkflowInstance /\ InstanceRowJustified(instances[i])
  BY <1>2 DEF IInv, TypeOK, Justified
<1>4. PICK r \in RunIds : r = instances[i].reference
  BY <1>3 DEF WorkflowInstance, Instance
<1>5. PICK row : /\ row = Reviewed(instances[i], k, u, decision)
                 /\ row.reference = r
  BY <1>1, <1>3, <1>4, ReviewKeepsSound DEF WorkflowInstance, InstanceRowJustified
<1>6. PICK n : n = [at |-> "review_save", instance |-> i, row |-> row]
  OBVIOUS
<1>7. n \in Task /\ task'[h] = n /\ \A g \in Handlers : g # h => task'[g] = task[g]
  BY <1>1, <1>5, <1>6, Moves DEF IInv
<1>8. OnRun(n, r)
  BY <1>5, <1>6 DEF OnRun
<1>9. AllShown(r) /\ Started(r, i)
  BY <1>2, <1>4, <1>7, <1>8, Arriving DEF Started
<1>10. runs[r] # None
  BY <1>9, NothingStarted
<1>11. \A j \in InstanceIds : Started(r, j) => runs[r].workflowInstanceId = j
  BY <1>9 DEF AllShown
<1>12. runs[r].status = "pending_approval"
  BY <1>1, <1>9 DEF AllShown, MayReview, RunStatusFor
<1>13. AwaitsDecision(r, i)
  BY <1>9, <1>10, <1>11, <1>12 DEF AwaitsDecision, Sole
<1>14. Current(n)
  BY <1>5, <1>6, <1>13 DEF Current, Drafting, Recalculating, HoldsCurrent
<1>15. BooksInv'
  BY <1>1, <1>2, <1>5, <1>6, <1>7, <1>8, <1>14, ArrivalBooks DEF IInv
<1> QED BY <1>2, <1>15, StillLives

LEMMA ReviewSaveBooks ==
    ASSUME IInv, TypeOK', BooksInv, Undisturbed, NEW h \in Handlers, ReviewSaveInstance(h)
    PROVE  BooksInv' /\ LifeStep
<1> PICK t : t = task[h]
  OBVIOUS
<1> PICK i : i = t.instance
  OBVIOUS
<1>1. /\ t \in Task /\ t.at = "review_save" /\ i \in InstanceIds /\ t.row \in WorkflowInstance
      /\ Current(t)
  BY TaskFields DEF IInv, TypeOK, ReviewSaveInstance, At, BooksInv
<1>2. PICK row \in WorkflowInstance : row = t.row
  BY <1>1
<1>3. PICK r \in RunIds : r = row.reference
  BY <1>2 DEF WorkflowInstance, Instance
<1>4. /\ OnRun(t, r) /\ AwaitsDecision(r, i)
      /\ t.at \notin Announcing /\ t.at \notin Recalculating
  BY <1>1, <1>2, <1>3 DEF OnRun, Current, Recalculating, Announcing
<1>5. PICK n : n = [at |-> "sync_read", row |-> row]
  OBVIOUS
<1>6. /\ instances' = [instances EXCEPT ![i] = row] /\ Continue(h, n)
      /\ UNCHANGED <<runs, items>>
  BY <1>2, <1>5 DEF ReviewSaveInstance
<1>7. n \in Task /\ task'[h] = n /\ \A g \in Handlers : g # h => task'[g] = task[g]
  BY <1>6, Moves DEF IInv
<1>8. /\ instances'[i] = row /\ row # None
      /\ \A j \in InstanceIds : j # i => instances'[j] = instances[j]
  BY <1>1, <1>6, PayrollAssumption DEF IInv, TypeOK
<1>9. /\ \A g \in Handlers : g # h => ~OnRun(task[g], r)
      /\ \A q \in RunIds : OnRun(t, q) => q = r
      /\ Tallied(r)
  BY <1>1, <1>4, Alone
<1>10. instances[i].reference = r
  BY <1>4 DEF AwaitsDecision, Sole, Started
<1>11. Only(r)
  BY <1>3, <1>6, <1>8, <1>10 DEF Only
<1>12. Tallied(r)'
  BY <1>6, <1>9 DEF Tallied
<1>13. Sole(r, i)'
  BY <1>3, <1>4, <1>8 DEF AwaitsDecision, Sole, Started
<1>14. AwaitsDecision(r, i)'
  BY <1>4, <1>6, <1>13 DEF AwaitsDecision
<1>15. Current(n)'
  BY <1>1, <1>3, <1>5, <1>8, <1>14 DEF Current, Drafting, Recalculating, HoldsCurrent
<1>16. OnRun(n, r) /\ n.at \in Announcing
  BY <1>3, <1>5 DEF OnRun, Announcing
<1>17. BooksInv'
  BY <1>7, <1>9, <1>11, <1>12, <1>15, <1>16, BooksStay DEF IInv
<1> QED BY <1>6, <1>17, StillLives

\* syncReferenceStatus finds the run that waits for the decision.
LEMMA SyncReadBooks ==
    ASSUME IInv, TypeOK', BooksInv, Undisturbed, NEW h \in Handlers, SyncReadRun(h)
    PROVE  BooksInv' /\ LifeStep
<1> PICK t : t = task[h]
  OBVIOUS
<1>1. /\ t \in Task /\ t.at = "sync_read" /\ t.row \in WorkflowInstance /\ Current(t)
  BY TaskFields DEF IInv, TypeOK, SyncReadRun, At, BooksInv
<1>2. PICK r \in RunIds : r = t.row.reference
  BY <1>1 DEF WorkflowInstance, Instance
<1>3. PICK i \in InstanceIds : AwaitsDecision(r, i) /\ instances[i] = t.row
  BY <1>1, <1>2 DEF Current
<1>4. OnRun(t, r) /\ t.at \notin Recalculating
  BY <1>1, <1>2 DEF OnRun, Recalculating
<1>5. PICK row : row = [runs[r] EXCEPT !.status = RunStatusFor(instances[i].status)]
  OBVIOUS
<1>6. PICK n : n = [at |-> "sync_save", run |-> r, row |-> row]
  OBVIOUS
<1>7. UNCHANGED <<runs, items, instances>> /\ Continue(h, n)
  BY <1>2, <1>3, <1>5, <1>6 DEF SyncReadRun, tables, AwaitsDecision
<1>8. n \in Task
  BY <1>7, Moves DEF IInv
<1>9. Follows(r, row, i)
  BY <1>3, <1>5 DEF Follows
<1>10. Current(n) /\ OnRun(n, r) /\ n.at \in Announcing
  BY <1>6, <1>9 DEF Current, OnRun, Drafting, Recalculating, HoldsCurrent, Announcing
<1>11. BooksInv'
  BY <1>4, <1>7, <1>8, <1>10, QuietBooks DEF IInv
<1> QED BY <1>7, <1>11, StillLives

LEMMA SyncSaveBooks ==
    ASSUME IInv, TypeOK', BooksInv, Undisturbed, NEW h \in Handlers, SyncSaveRun(h)
    PROVE  BooksInv' /\ LifeStep
<1> PICK t : t = task[h]
  OBVIOUS
<1> PICK r : r = t.run
  OBVIOUS
<1>1. /\ t \in Task /\ t.at = "sync_save" /\ r \in RunIds /\ t.row \in Run /\ Current(t)
  BY TaskFields DEF IInv, TypeOK, SyncSaveRun, At, BooksInv, HoldsRunRow
<1>2. OnRun(t, r) /\ t.at \notin Recalculating
  BY <1>1 DEF OnRun, Recalculating
<1>3. PICK i \in InstanceIds : Follows(r, t.row, i)
  BY <1>1 DEF Current
<1>4. PICK row \in Run : row = t.row
  BY <1>1
<1>5. /\ runs[r] \in Run /\ runs[r] # None /\ runs[r].status = "pending_approval"
      /\ runs[r].workflowInstanceId = i /\ Sole(r, i)
  BY <1>1, <1>3 DEF IInv, TypeOK, Follows, AwaitsDecision
<1>6. /\ row.status = RunStatusFor(instances[i].status) /\ row.workflowInstanceId = i
      /\ row.totals = runs[r].totals
  BY <1>3, <1>4, <1>5 DEF Run, Follows
<1>7. /\ runs' = [runs EXCEPT ![r] = row] /\ Finish(h)
      /\ UNCHANGED <<items, instances>>
  BY <1>4 DEF SyncSaveRun
<1>8. runs'[r] = row /\ \A q \in RunIds : q # r => runs'[q] = runs[q]
  BY <1>1, <1>7 DEF IInv, TypeOK
<1>9. task'[h] = Idle /\ \A g \in Handlers : g # h => task'[g] = task[g]
  BY <1>7, FinishTyped DEF IInv, TypeOK
<1>10. /\ \A g \in Handlers : g # h => ~OnRun(task[g], r)
       /\ \A q \in RunIds : OnRun(t, q) => q = r
       /\ Tallied(r)
  BY <1>1, <1>2, Alone
<1>11. Only(r)
  BY <1>7, <1>8 DEF Only
<1>12. Tallied(r)'
  BY <1>5, <1>6, <1>7, <1>8, <1>10 DEF Tallied
<1>13. AllShown(r)'
  <2>1. \A j \in InstanceIds : Started(r, j)' => j = i
    BY <1>5, <1>7 DEF Sole, Started
  <2> QED BY <1>6, <1>7, <1>8, <2>1 DEF AllShown
<1>14. BooksInv'
  BY <1>9, <1>10, <1>11, <1>12, <1>13, IdleCurrent, BooksStay DEF IInv
<1>15. instances[i].status \in {"pending", "approved", "rejected"}
  BY <1>5 DEF IInv, TypeOK, Sole, Started, WorkflowInstance, Instance
<1>16. CASE instances[i].status = "pending"
  <2>1. row.status = runs[r].status
    BY <1>5, <1>6, <1>16 DEF RunStatusFor
  <2>2. LifeStep
    BY <1>1, <1>5, <1>7, <2>1, SameStatus DEF IInv
  <2> QED BY <1>14, <2>2
<1>17. CASE instances[i].status # "pending"
  <2>1. row.status \in {"approved", "rejected"}
    BY <1>6, <1>15, <1>17 DEF RunStatusFor
  <2>2. LifeStep
    BY <1>1, <1>5, <1>7, <2>1, Decides DEF IInv
  <2> QED BY <1>14, <2>2
<1> QED BY <1>16, <1>17


LEMMA DefineBooks ==
    ASSUME IInv, TypeOK', BooksInv, NEW h \in Handlers,
           \/ DefineSave(h)
           \/ \E u \in Users, d \in DefinitionIds, code \in OptionalCode,
                 active \in OptionalFlag, draft \in StepDrafts \cup {None} :
                  UpdateDefinition(h, u, d, code, active, draft)
    PROVE  BooksInv' /\ LifeStep
<1>1. UNCHANGED <<runs, items, instances>> /\ task[h].at \in {"idle", "define_save"}
  BY DEF DefineSave, UpdateDefinition, tables, At
<1>2. PICK n : Continue(h, n) /\ n.at \in {"idle", "define_save"}
  <2>1. CASE DefineSave(h)
    <3>1. Continue(h, Idle) /\ Idle.at = "idle"
      BY <2>1 DEF DefineSave, Finish, Idle
    <3> QED BY <3>1
  <2>2. CASE \E u \in Users, d \in DefinitionIds, code \in OptionalCode,
                active \in OptionalFlag, draft \in StepDrafts \cup {None} :
                 UpdateDefinition(h, u, d, code, active, draft)
    <3>1. PICK d, row : Continue(h, [at |-> "define_save", definition |-> d, row |-> row])
      BY <2>2 DEF UpdateDefinition
    <3> QED BY <3>1
  <2> QED BY <2>1, <2>2
<1>3. n \in Task
  BY <1>2, Moves DEF IInv
<1>4. BooksInv'
  BY <1>1, <1>2, <1>3, DefinitionBooks DEF IInv
<1> QED BY <1>1, <1>4, StillLives

\* A step that leaves every handler, run, item and instance as it is.
LEMMA IdleBooks ==
    ASSUME BooksInv, UNCHANGED <<runs, items, instances, task>>
    PROVE  BooksInv' /\ LifeStep
<1>1. \A h \in Handlers : Current(task[h])'
  <2> TAKE h \in Handlers
  <2>1. PICK t : t = task[h]
    OBVIOUS
  <2>2. Current(t)'
    BY <2>1, Still DEF BooksInv
  <2> QED BY <2>1, <2>2
<1>2. \A r, places : Busy(r, places) => Busy(r, places)'
  BY DEF Busy
<1>3. \A r \in RunIds : (Tallied(r) => Tallied(r)') /\ (AllShown(r) => AllShown(r)')
  BY Still
<1>4. BooksInv'
  BY <1>1, <1>2, <1>3 DEF BooksInv
<1> QED BY <1>4, StillLives

\* Every undisturbed step keeps the books and is a step of the lifecycle, or none.
LEMMA BooksNext ==
    ASSUME IInv, TypeOK', BooksInv, Undisturbed, Undisturbed', [Next]_vars
    PROVE  BooksInv' /\ LifeStep
<1>1. ASSUME NEW h \in Handlers, Begin(h) PROVE BooksInv' /\ LifeStep
  BY <1>1, CreateBooks, SubmitBooks, EditBooks, ReviewBooks, DefineBooks DEF Begin
<1>2. ASSUME NEW h \in Handlers, Proceed(h) PROVE BooksInv' /\ LifeStep
  <2>1. CASE CreatePayrollItems(h) \/ EditReadItem(h) \/ EditSaveItem(h)
    BY <2>1, CreateItemsBooks, EditReadBooks, EditSaveBooks
  <2>2. CASE RecalcReadRun(h) \/ RecalcReadItems(h) \/ RecalcSave(h)
    BY <2>2, RecalcBooks, RecalcSaveBooks
  <2>3. CASE \/ SubmitReadItems(h) \/ EnsureFindDefinition(h) \/ EnsureSaveDefinition(h)
             \/ StartFindDefinition(h) \/ StartCheckPending(h)
    BY <2>3, SubmitReadBooks
  <2>4. CASE StartSaveInstance(h) \/ SubmitSaveRun(h)
    BY <2>4, StartBooks, SubmitSaveBooks
  <2>5. CASE ReviewSaveInstance(h) \/ SyncReadRun(h) \/ SyncSaveRun(h)
    BY <2>5, ReviewSaveBooks, SyncReadBooks, SyncSaveBooks
  <2>6. CASE DefineSave(h)
    BY <2>6, DefineBooks
  <2> QED BY <1>2, <2>1, <2>2, <2>3, <2>4, <2>5, <2>6 DEF Proceed
<1>3. ASSUME NEW h \in Handlers, Fail(h) PROVE FALSE
  BY <1>3 DEF Fail, Undisturbed
<1>4. ASSUME NEW u \in Users, NEW d \in DefinitionIds,
             NEW code \in {"payroll-approval", "other"}, NEW active \in BOOLEAN,
             NEW draft \in StepDrafts, CreateDefinition(u, d, code, active, draft)
      PROVE  BooksInv' /\ LifeStep
  BY <1>4, IdleBooks DEF CreateDefinition
<1>5. CASE UNCHANGED vars
  BY <1>5, IdleBooks DEF vars
<1> QED BY <1>1, <1>2, <1>3, <1>4, <1>5 DEF Next

LEMMA BooksInit == Init => BooksInv
<1> SUFFICES ASSUME Init PROVE BooksInv
  OBVIOUS
<1>1. \A h \in Handlers : Current(task[h])
  BY IdleCurrent DEF Init
<1>2. \A r \in RunIds : Tallied(r) /\ AllShown(r)
  BY DEF Init, Tallied, AllShown, Started
<1> QED BY <1>1, <1>2 DEF BooksInv

LEMMA BooksInvariance == Spec /\ []Undisturbed => []BooksInv
<1>1. Init => BooksInv
  BY BooksInit
<1>2. IInv /\ IInv' /\ BooksInv /\ Undisturbed /\ Undisturbed' /\ [Next]_vars => BooksInv'
  BY BooksNext DEF IInv
<1> QED BY <1>1, <1>2, Invariance, PTL DEF Spec

-----------------------------------------------------------------------------
(***************************************************************************)
(* The theorems                                                            *)
(***************************************************************************)

\* A service that takes one request at a time and never fails is undisturbed.
SerialService ==
    /\ ~FailuresHappen
    /\ \A g, h \in Handlers : g = h

\* submitPayrollRun, reviewInstance and syncReferenceStatus: as long as no two requests are
\* about the same run at once and none dies half way, whenever no request is in flight every
\* instance is the one its run is linked to, and the run shows the status of the instance.
THEOREM RunsAreShown == Spec /\ []Undisturbed => []RunShowsItsInstance
<1>1. IInv /\ BooksInv => RunShowsItsInstance
  <2> SUFFICES ASSUME IInv, BooksInv, Quiescent, NEW i \in InstanceIds, instances[i] # None
               PROVE  /\ runs[instances[i].reference].workflowInstanceId = i
                      /\ runs[instances[i].reference].status = RunStatusFor(instances[i].status)
    BY DEF RunShowsItsInstance
  <2>1. PICK r \in RunIds : r = instances[i].reference
    BY DEF IInv, TypeOK, WorkflowInstance, Instance
  <2>2. ~Busy(r, Announcing)
    BY DEF Busy, Quiescent, At, Announcing
  <2>3. AllShown(r) /\ Started(r, i)
    BY <2>1, <2>2 DEF BooksInv, Started
  <2> QED BY <2>1, <2>3 DEF AllShown
<1> QED BY <1>1, Invariance, BooksInvariance, PTL

\* createPayrollRun, updatePayrollItem and recalculatePayrollRunTotals: on the same condition
\* the totals of every run are those of its items whenever no request is in flight.
THEOREM TotalsAreKept == Spec /\ []Undisturbed => []TotalsMatchItems
<1>1. BooksInv => TotalsMatchItems
  <2> SUFFICES ASSUME BooksInv, Quiescent, NEW r \in RunIds, runs[r] # None
               PROVE  runs[r].totals = Totals(items[r])
    BY DEF TotalsMatchItems
  <2>1. ~Busy(r, Recalculating)
    BY DEF Busy, Quiescent, At, Recalculating
  <2> QED BY <2>1 DEF BooksInv, Tallied
<1> QED BY <1>1, BooksInvariance, PTL

\* PayrollService and WorkflowsService: on the same condition every run goes through the
\* lifecycle of PayrollLifecycle: it is opened as a draft, its items change only while it
\* is one, it is submitted with somebody to pay, and it is decided once, for good.
THEOREM LifecycleKept == Spec /\ []Undisturbed => LifecycleSpec
<1>1. Init => Lifecycle!Init
  BY DEF Init, Lifecycle!Init
<1>2. LifeStep => [Lifecycle!Next]_(Lifecycle!vars)
  BY DEF LifeStep, Phase, Lifecycle!vars
<1>3. IInv /\ IInv' /\ BooksInv /\ Undisturbed /\ Undisturbed' /\ [Next]_vars
      => [Lifecycle!Next]_(Lifecycle!vars)
  <2> SUFFICES ASSUME IInv, IInv', BooksInv, Undisturbed, Undisturbed', [Next]_vars
               PROVE  LifeStep
    BY <1>2
  <2> QED BY BooksNext DEF IInv
<1> QED BY <1>1, <1>3, Invariance, BooksInvariance, PTL
       DEF Spec, LifecycleSpec, Lifecycle!Spec

\* And so it is of a service that takes one request at a time and never fails.
LEMMA SerialUndisturbed == SerialService => (Spec => []Undisturbed)
<1> SUFFICES ASSUME SerialService PROVE Spec => []Undisturbed
  OBVIOUS
<1>1. Init => Undisturbed
  BY DEF SerialService, Undisturbed
<1>2. [Next]_vars => Undisturbed'
  BY DEF SerialService, Undisturbed
<1> QED BY <1>1, <1>2, PTL DEF Spec

\* PayrollService and WorkflowsService, one request at a time and each completing: the run is
\* in step with its approval and with its items, and goes through the lifecycle.
THEOREM SerialRuns ==
    SerialService => (Spec => []RunShowsItsInstance /\ []TotalsMatchItems /\ LifecycleSpec)
BY SerialUndisturbed, RunsAreShown, TotalsAreKept, LifecycleKept, PTL
=============================================================================

------------------------------ MODULE PlanProofs ------------------------------
(***************************************************************************)
(* The records of the control plane and the files, for every instance: any *)
(* requests, plans, workers, files, attempts and faults.                   *)
(*                                                                         *)
(* Lineage is inductive: every plan, draft and apply names rows that exist *)
(* and never change what they name, an execution that no claim reached has *)
(* no record and no thread, and a plan being applied has its one applier.  *)
(* Filed rests on it: the journal says of every file what the application  *)
(* did to it.  From the two follow that records are final, that a draft    *)
(* has one open plan and a workspace one unsettled one, that no effect is  *)
(* forgotten, and that an outside edit is never overwritten.               *)
(*                                                                         *)
(* Most lemmas say which transactions write which columns (TaskFrame,      *)
(* PlanFrame) and how one column may move in one step (PlanMoves,          *)
(* ExecutionsMove, FileMoves).                                             *)
(***************************************************************************)
EXTENDS FenceProofs

\* The rows of task t have been inserted.
Started(t) == status[t] # "none"

\* No longer of use to the owner: never made, withdrawn or expired.
PlanShut == {"none", "revoked", "expired"}

\* A task has executions only once it was submitted.
Begun == \A t \in Tasks : ~Started(t) => current[t] = 0

\* A plan names the execution of the submitted request that proposed it.
Origin == \A p \in Plans :
  IF plan[p] = "none" THEN planExec[p] = None
  ELSE planExec[p] \in Executions /\ TaskOf(p) \in Requests /\ Started(TaskOf(p))

\* Only a submitted request that continues no draft opens one of its own.
DraftRoots == \A d \in Requests : draft[d] # "none" => target[d] = None /\ Started(d)

\* The plan of a draft was proposed for that draft,
DraftPlans == \A d \in Requests :
  draftPlan[d] # None => planExec[draftPlan[d]] # None /\ DraftOf(TaskOf(draftPlan[d])) = d

\* plans are proposed only for drafts that are open to planning,
Planned == \A p \in Plans :
  planExec[p] # None => draft[DraftOf(TaskOf(p))] \notin {"none", "pending"}

\* and the one that is not withdrawn or expired is the draft's latest.
Latest == \A p \in Plans : plan[p] \notin PlanShut => draftPlan[DraftOf(TaskOf(p))] = p

\* An apply is the child of the task whose plan it applies.
ApplyParent == \A c \in Applies : Started(c) =>
  target[c] \in Plans /\ planExec[target[c]] # None /\ parent[c] = TaskOf(target[c])

Records == Begun /\ Origin /\ DraftRoots /\ DraftPlans /\ Planned /\ Latest /\ ApplyParent

-----------------------------------------------------------------------------
\* What no transaction undoes: a submitted task, its spec and its parent,
TasksStay == \A t \in Tasks : Started(t) => /\ Started(t)' /\ target'[t] = target[t]
                                            /\ parent'[t] = parent[t]
\* and what most transactions keep to: executions only of submitted tasks,
CountsStarted == \A t \in Tasks : current'[t] # current[t] => Started(t)'
\* applies only for proposed plans,
NewApplies == \A c \in Applies : Started(c)' /\ ~Started(c) =>
  target'[c] \in Plans /\ planExec[target'[c]] # None /\ parent'[c] = TaskOf(target'[c])
\* no new plan, and a closed plan stays closed,
PlansMove == /\ UNCHANGED <<planExec, draftPlan>>
             /\ \A p \in Plans : /\ plan'[p] = "none" <=> plan[p] = "none"
                                 /\ plan'[p] \notin PlanShut => plan[p] \notin PlanShut
\* and drafts that leave their read scope for good.
DraftsMove == \A d \in Requests : draft'[d] # draft[d] =>
  draft[d] # "none" /\ draft'[d] \notin {"none", "pending"}

\* A proposed plan belongs to a submitted request and to a draft.
LEMMA PlanRoots ==
  ASSUME Coherent, Records, NEW p \in Plans, planExec[p] # None
  PROVE  /\ planExec[p] \in Executions /\ TaskOf(p) \in Requests /\ TaskOf(p) \in Tasks
         /\ Started(TaskOf(p)) /\ DraftOf(TaskOf(p)) \in Requests
BY DEF Records, Origin, Coherent, RequestTargets, TaskOf, DraftOf, Tasks

\* Such a transaction keeps the records in order.
LEMMA RecordsKept ==
  ASSUME TypeOK, Coherent, Records, TasksStay, CountsStarted, NewApplies, PlansMove, DraftsMove
  PROVE  Records'
<1>1. \A p \in Plans : planExec[p] # None =>
        /\ planExec[p] \in Executions /\ TaskOf(p) \in Requests /\ TaskOf(p) \in Tasks
        /\ Started(TaskOf(p)) /\ TaskOf(p)' = TaskOf(p) /\ DraftOf(TaskOf(p))' = DraftOf(TaskOf(p))
  BY DEF Records, Origin, TasksStay, PlansMove, TaskOf, DraftOf, Tasks, Started
<1>2. Begun'
  BY DEF Records, Begun, TasksStay, CountsStarted
<1>10. \A p \in Plans : plan[p] # "none" => planExec[p] # None
  BY LedgerAssumption DEF Records, Origin
<1>3. Origin'
  BY <1>1, <1>10 DEF Records, Origin, TasksStay, PlansMove, Started, TaskOf
<1>4. DraftRoots'
  BY DEF Records, DraftRoots, TasksStay, DraftsMove, Tasks
<1>5. DraftPlans'
  BY <1>1 DEF Records, DraftPlans, PlansMove, TypeOK, DraftTypeOK
<1>6. \A p \in Plans : planExec[p] # None => DraftOf(TaskOf(p)) \in Requests
  BY <1>1 DEF DraftOf, Coherent, RequestTargets
<1>7. Planned'
  BY <1>1, <1>6 DEF Records, Planned, PlansMove, DraftsMove, DraftOf, TaskOf
<1>8. Latest'
  BY <1>1, <1>10 DEF Records, Latest, Origin, PlansMove, PlanShut, DraftOf, TaskOf
<1>9. ApplyParent'
  BY <1>1 DEF Records, ApplyParent, TasksStay, NewApplies, PlansMove, Tasks
<1> QED
  BY <1>2, <1>3, <1>4, <1>5, <1>7, <1>8, <1>9 DEF Records

\* What leaves these columns alone is such a transaction.
Orderly == TasksStay /\ CountsStarted /\ NewApplies /\ PlansMove /\ DraftsMove
Rows    == <<status, current, target, parent, plan, planExec, draft, draftPlan>>

\* So is one that writes none of the columns.
LEMMA OrderlyUnmoved == UNCHANGED Rows => Orderly
BY DEF Rows, Orderly, TasksStay, CountsStarted, NewApplies, PlansMove, DraftsMove, Started

-----------------------------------------------------------------------------
\* An UPDATE of submitted tasks, to a status that leaves them submitted.
Moves(before, after) == \A u \in Tasks :
  after[u] # before[u] => before[u] # "none" /\ after[u] # "none"

\* Withdrawing plans, ending reviews and settling closed plans are such updates.
LEMMA WithdrawnMoves == TypeOK => \A S : Moves(status, Withdrawn(S))
BY DEF TypeOK, TaskTypeOK, Moves, Withdrawn, QueuedIn, ActiveIn, Assign

\* Ending the review of an execution updates the tasks in review only.
LEMMA ReviewMoves ==
  TypeOK => \A S, ended : ended # "none" => Moves(status, ReviewStatus(S, status, ended))
BY DEF TypeOK, TaskTypeOK, Moves, ReviewStatus, Assign

\* _settle_closed_plan updates the tasks it is given, which are submitted, and their
\* children that were queued or running.
LEMMA SettledMoves ==
  ASSUME NEW S, NEW closed, NEW st \in [Tasks -> TaskStatus], NEW el, NEW ex, NEW ap, NEW pl,
         \A t \in S : st[t] # "none"
  PROVE  Moves(st, Settled(S, closed, st, el, ex, ap, pl).status)
<1>1. PICK A, B, C, D :
        /\ Settled(S, closed, st, el, ex, ap, pl).status =
             Assign(Assign(Assign(Assign(st, A, "cancelled"), B, "cancelling"), C, "cancelled"), D, "blocked")
        /\ \A t \in A : st[t] = "queued"
        /\ \A t \in B : st[t] \in {"running", "cancelling"}
        /\ C \subseteq S /\ D \subseteq S
  BY SettledRows
<1> QED
  BY <1>1 DEF Moves, Assign

\* A transaction that submits nothing and plans nothing.
LEMMA OrderlyMoves ==
  ASSUME UNCHANGED <<target, parent, planExec, draftPlan>>, Moves(status, status'),
         CountsStarted, DraftsMove,
         \A p \in Plans : plan'[p] = "none" <=> plan[p] = "none",
         \A p \in Plans : plan'[p] \notin PlanShut => plan[p] \notin PlanShut
  PROVE  Orderly
<1>1. \A t \in Tasks : Started(t) <=> Started(t)'
  BY DEF Moves, Started
<1>2. TasksStay /\ NewApplies
  BY <1>1 DEF TasksStay, NewApplies, Tasks
<1>3. PlansMove
  BY Zenon DEF PlansMove
<1> QED
  BY <1>2, <1>3, Zenon DEF Orderly

-----------------------------------------------------------------------------
\* Only the threads themselves, claim() and the death of a worker move a thread.
LEMMA ThreadFrame ==
  ASSUME [Next]_vars
  PROVE  \/ UNCHANGED <<pc, reply, using>>
         \/ \E w \in Workers : Crash(w) \/ \E t \in Tasks : Claim(t, w)
         \/ \E e \in Executions : Thread(e)
<1>1. ASSUME NEW w \in Workers, Process(w), ~Crash(w), ~\E t \in Tasks : Claim(t, w)
      PROVE  UNCHANGED <<pc, reply, using>>
  BY <1>1, Zenon DEF Process, StartWorker, Heartbeat, HeartbeatLapses, StopWorker, CloseWorker,
     threadVars
<1>2. ASSUME NEW k \in Watchers, Watcher(k) PROVE UNCHANGED <<pc, reply, using>>
  BY <1>2, Zenon DEF Watcher, Poll, ClaimDelivery, Send, SettleDelivery, StopWatching, Watch,
     ledgerVars, threadVars
<1>3. CASE Owner
  <2>1. CASE \E t \in Tasks : Dismiss(t) \/ AcknowledgeDelivery(t) \/ Cancel(t) \/ RecordStartFailure(t)
    BY <2>1, Zenon DEF Dismiss, AcknowledgeDelivery, Cancel, RecordStartFailure, ledgerVars, threadVars
  <2>2. CASE \E t \in Tasks, w \in Workers : Submit(t, w) \/ SubmitUnlaunched(t, w) \/ Resume(t, w)
    BY <2>2, ZenonT(30) DEF Submit, SubmitUnlaunched, Resume, threadVars
  <2>3. CASE \/ \E p \in Plans : Revoke(p) \/ Resolve(p)
             \/ \E p \in Plans, c \in Applies, w \in Workers : Approve(p, c, w)
    BY <2>3, ZenonT(30) DEF Revoke, Resolve, Approve, threadVars
  <2>4. CASE \/ \E d \in Requests : CloseDraft(d)
             \/ \E d, c \in Requests, w \in Workers : OpenDraft(d, c, w)
             \/ \E e \in Executions, k \in {"approved", "rejected", "expired"} : DecideApproval(e, k)
    BY <2>4, ZenonT(30) DEF CloseDraft, OpenDraft, DecideApproval, threadVars
  <2>5. CASE \E p \in Plans : Observe(p) \/ Withdraw(p)
    BY <2>5, Zenon DEF Observe, Withdraw, threadVars
  <2> QED
    BY <1>3, <2>1, <2>2, <2>3, <2>4, <2>5, Zenon DEF Owner
<1>4. CASE Maintenance
  BY <1>4, Zenon DEF Maintenance, Recover, SettleExpired, MaintainDrafts, threadVars
<1>5. CASE Clock
  BY <1>5, Zenon DEF Clock, ClaimExpires, PlanExpires, DraftExpires, OutsideEdit, threadVars
<1>6. ASSUME NEW e \in Executions, Monitor(e) PROVE UNCHANGED <<pc, reply, using>>
  BY <1>6, Zenon DEF Monitor
<1>7. CASE UNCHANGED vars
  BY <1>7, Zenon DEF vars, threadVars
<1> QED
  BY <1>1, <1>2, <1>3, <1>4, <1>5, <1>6, <1>7, Zenon DEF Next

\* A thread that is about to settle or finish has an outcome to report.
Concluded == \A e \in Executions : /\ pc[e] = "finish" => reply[e] \in Outcomes
                                   /\ pc[e] = "undo" => reply[e] \in {"blocked", "failed"}
                                   /\ pc[e] = "settle" => reply[e] = "cancelled"

\* perform() ends with an outcome,
LEMMA ConcludeKeeps ==
  ASSUME TypeOK, Concluded, NEW e \in Executions, NEW r \in Outcomes, Conclude(e, r)
  PROVE  Concluded'
BY DEF TypeOK, ThreadTypeOK, Concluded, Conclude

\* and until then the thread has other things to do.
LEMMA AdvanceKeeps ==
  ASSUME TypeOK, Concluded, NEW e \in Executions,
         NEW v \in Threads \ {"undo", "finish", "settle"}, pc' = [pc EXCEPT ![e] = v], UNCHANGED reply
  PROVE  Concluded'
BY DEF TypeOK, ThreadTypeOK, Concluded

\* Only a thread that concludes has an outcome to report.
LEMMA ConcludedNext == TypeOK /\ Concluded /\ [Next]_vars => Concluded'
<1> SUFFICES ASSUME TypeOK, Concluded, [Next]_vars PROVE Concluded'
  OBVIOUS
<1>1. CASE UNCHANGED <<pc, reply, using>>
  BY <1>1 DEF Concluded
<1>2. ASSUME NEW w \in Workers, Crash(w) PROVE Concluded'
  BY <1>2 DEF Crash, Concluded, Assign, TypeOK, ThreadTypeOK
<1>3. ASSUME NEW w \in Workers, NEW t \in Tasks, Claim(t, w) PROVE Concluded'
  BY <1>3 DEF Claim, Concluded, TypeOK, ThreadTypeOK
<1>4. ASSUME NEW e \in Executions, Thread(e) PROVE Concluded'
  <2> USE DEF Outcomes, Threads
  <2>1. CASE Start(e)
    BY <2>1, ConcludeKeeps, AdvanceKeeps DEF Start
  <2>2. CASE ModelReturns(e)
    BY <2>2, ConcludeKeeps, AdvanceKeeps, WorkerAssumption DEF ModelReturns
  <2>3. CASE RequestScope(e) \/ OpenOwnDraft(e) \/ Preview(e)
    BY <2>3, ConcludeKeeps, AdvanceKeeps DEF RequestScope, OpenOwnDraft, Preview
  <2>4. CASE Propose(e) \/ Clear(e)
    <3>1. (\E r \in {"blocked", "succeeded"} : Conclude(e, r))
          \/ (pc' = [pc EXCEPT ![e] = "preview"] /\ UNCHANGED reply)
      BY <2>4, Zenon DEF Propose, Clear
    <3> QED
      BY <3>1, ConcludeKeeps, AdvanceKeeps
  <2>5. CASE Apply(e)
    <3>1. CASE ApplyBreaks(e)
      BY <3>1 DEF ApplyBreaks, Concluded, TypeOK, ThreadTypeOK
    <3>2. CASE ApplyUndo(e)
      BY <3>2 DEF ApplyUndo, Concluded, TypeOK, ThreadTypeOK
    <3>3. CASE ~ApplyBreaks(e) /\ ~ApplyUndo(e)
      <4>1. \/ \E r \in {"failed", "blocked", "succeeded"} : Conclude(e, r)
            \/ UNCHANGED reply /\ (UNCHANGED pc \/ pc' = [pc EXCEPT ![e] = "apply"])
        BY <2>5, <3>3, Zenon DEF Apply, ApplyBegin, ApplyCommit, Mutate, JournalApplied
      <4>2. CASE UNCHANGED <<pc, reply>>
        BY <4>2 DEF Concluded
      <4> QED
        BY <4>1, <4>2, ConcludeKeeps, AdvanceKeeps
    <3> QED
      BY <3>1, <3>2, <3>3
  <2>6. CASE Settle(e)
    BY <2>6 DEF Settle, Concluded, TypeOK, ThreadTypeOK
  <2>7. CASE Finish(e)
    BY <2>7, AdvanceKeeps DEF Finish
  <2> QED
    BY <1>4, <2>1, <2>2, <2>3, <2>4, <2>5, <2>6, <2>7 DEF Thread, Request
<1> QED
  BY <1>1, <1>2, <1>3, <1>4, ThreadFrame
-----------------------------------------------------------------------------
\* The transactions that write tasks, executions or approvals.
TaskStep ==
  \/ Recover \/ SettleExpired \/ MaintainDrafts
  \/ \E t \in Tasks : Cancel(t) \/ RecordStartFailure(t)
  \/ \E t \in Tasks, w \in Workers : Claim(t, w) \/ Submit(t, w) \/ SubmitUnlaunched(t, w) \/ Resume(t, w)
  \/ \E p \in Plans : Revoke(p) \/ Resolve(p)
  \/ \E p \in Plans, c \in Applies, w \in Workers : Approve(p, c, w)
  \/ \E d \in Requests : CloseDraft(d)
  \/ \E d, c \in Requests, w \in Workers : OpenDraft(d, c, w)
  \/ \E e \in Executions, k \in {"approved", "rejected", "expired"} : DecideApproval(e, k)
  \/ \E e \in Executions : Propose(e) \/ Clear(e) \/ Finish(e)
TaskRows == <<status, eligible, generation, attempts, current, target, parent, sequence, execution,
              approval, scoped>>

\* The transactions of TaskStep are all that write the rows of tasks, executions and reviews;
\* model calls, file operations, deliveries and the clock do not.
LEMMA TaskFrame == [Next]_vars => TaskStep \/ UNCHANGED TaskRows
<1> SUFFICES ASSUME [Next]_vars, ~TaskStep PROVE UNCHANGED TaskRows
  OBVIOUS
<1>1. ASSUME NEW w \in Workers, Process(w) PROVE UNCHANGED TaskRows
  BY <1>1, Zenon DEF Process, StartWorker, Heartbeat, HeartbeatLapses, StopWorker, CloseWorker,
     Crash, TaskStep, TaskRows, taskVars, resultVars, reviewVars
<1>2. ASSUME NEW k \in Watchers, Watcher(k) PROVE UNCHANGED TaskRows
  BY <1>2, Zenon DEF Watcher, Poll, ClaimDelivery, Send, SettleDelivery, StopWatching, Watch,
     ledgerVars, TaskRows, taskVars, reviewVars
<1>3. CASE \E t \in Tasks : Dismiss(t) \/ AcknowledgeDelivery(t)
  BY <1>3, Zenon DEF Dismiss, AcknowledgeDelivery, ledgerVars, TaskRows, taskVars, resultVars, reviewVars
<1>4. CASE Clock
  BY <1>4, Zenon DEF Clock, ClaimExpires, PlanExpires, DraftExpires, OutsideEdit, TaskRows, taskVars,
     resultVars, reviewVars
<1>7. CASE \E p \in Plans : Observe(p) \/ Withdraw(p)
  BY <1>7, Zenon DEF Observe, Withdraw, TaskRows, taskVars, resultVars, reviewVars
<1>5. ASSUME NEW e \in Executions, Thread(e) \/ Monitor(e) PROVE UNCHANGED TaskRows
  <2>1. CASE Start(e) \/ ModelReturns(e) \/ RequestScope(e) \/ OpenOwnDraft(e) \/ Preview(e) \/ Settle(e)
             \/ Monitor(e)
    BY <2>1, Zenon DEF Start, ModelReturns, RequestScope, OpenOwnDraft, Preview, Settle, Monitor,
       TaskRows, taskVars, resultVars, reviewVars
  <2>2. CASE Apply(e)
    BY <2>2, Zenon DEF Apply, ApplyBegin, ApplyBreaks, ApplyCommit, ApplyUndo, Mutate, JournalApplied,
       TaskRows, taskVars, resultVars, reviewVars
  <2> QED
    BY <1>5, <2>1, <2>2, Zenon DEF Thread, Request, TaskStep
<1>6. CASE UNCHANGED vars
  BY <1>6, Zenon DEF vars, TaskRows, taskVars, resultVars, reviewVars
<1> QED
  BY <1>1, <1>2, <1>3, <1>4, <1>5, <1>6, <1>7, Zenon DEF Next, Owner, Maintenance, TaskStep

-----------------------------------------------------------------------------
\* An execution its task has not reached has left no trace.
Unreached(e) == e[2] > current[e[1]]
Beyond == \A e \in Executions : Unreached(e) =>
  execution[e] = "none" /\ pc[e] = "none" /\ approval[e] = "none" /\ e \notin scoped

\* Only an open execution changes its record; a new one is the task's current.
ExecutionsMove == \A e \in Executions : execution'[e] # execution[e] =>
  execution[e] \notin ExecTerminal /\ (execution[e] # "none" \/ e[2] = current'[e[1]])
\* Only a waiting approval changes, or that of the current execution.
ApprovalsMove == \A e \in Executions :
  /\ approval'[e] # approval[e] => approval[e] = "pending" \/ e[2] = current'[e[1]]
  /\ e \in scoped' => e \in scoped \/ e[2] = current'[e[1]]
\* Only the current execution gets a thread.
ThreadsMove == \A e \in Executions : pc'[e] # pc[e] => pc[e] # "none" \/ e[2] = current'[e[1]]
CurrentGrows == \A t \in Tasks : current[t] <= current'[t]

\* No step gives an execution that no claim has reached a record, a thread or a review.
LEMMA BeyondKept ==
  ASSUME TypeOK, TypeOK', Beyond, ExecutionsMove, ApprovalsMove, ThreadsMove, CurrentGrows
  PROVE  Beyond'
<1> SUFFICES ASSUME NEW e \in Executions, Unreached(e)'
             PROVE  execution'[e] = "none" /\ pc'[e] = "none" /\ approval'[e] = "none" /\ e \notin scoped'
  BY DEF Beyond
<1>1. e[1] \in Tasks /\ e[2] \in Int
  BY DEF Executions
<1>2. e[2] > current'[e[1]] /\ Unreached(e)
  BY <1>1 DEF CurrentGrows, Unreached, TypeOK, TaskTypeOK
<1>3. e[2] # current'[e[1]]
  BY <1>1, <1>2 DEF TypeOK, TaskTypeOK
<1> QED
  BY <1>2, <1>3 DEF Beyond, ExecutionsMove, ApprovalsMove, ThreadsMove

\* Ending reviews and settling closed plans only touch what is open.
LEMMA ReviewExecutionMoves ==
  ASSUME TypeOK, NEW S, NEW ended, NEW e \in Executions,
         ReviewExecution(S, ended)[e] # execution[e]
  PROVE  execution[e] = "awaiting_approval"
BY DEF ReviewExecution, Assign, TypeOK, ResultTypeOK

\* Asking applies to stop touches the running executions.
LEMMA AskedToStopMoves ==
  ASSUME TypeOK, NEW S, NEW e \in Executions, AskedToStop(S)[e] # execution[e]
  PROVE  execution[e] = "running" /\ AskedToStop(S)[e] = "cancelling"
BY DEF AskedToStop, Assign, TypeOK, ResultTypeOK

\* _settle_closed_plan writes to executions that run or wait and to pending approvals.
LEMMA SettledRowsMove ==
  ASSUME NEW S, NEW closed, NEW st, NEW el, NEW ex \in [Executions -> ExecStatus],
         NEW ap \in [Executions -> {"none", "pending", "approved", "rejected", "expired"}],
         NEW pl, NEW e \in Executions
  PROVE  /\ Settled(S, closed, st, el, ex, ap, pl).execution[e] # ex[e]
            => ex[e] \in {"running", "awaiting_approval"}
         /\ Settled(S, closed, st, el, ex, ap, pl).approval[e] # ap[e] => ap[e] = "pending"
<1>1. PICK A, B, C :
        /\ Settled(S, closed, st, el, ex, ap, pl).execution =
             Assign(Assign(Assign(ex, A, "cancelling"), B, "cancelled"), C, "lost")
        /\ \A r \in A : ex[r] = "running"
        /\ \A r \in B \cup C : ex[r] = "awaiting_approval"
  BY SettledRows
<1>2. PICK D : /\ Settled(S, closed, st, el, ex, ap, pl).approval = Assign(ap, D, closed)
               /\ \A r \in D : ap[r] = "pending"
  BY SettledRows
<1> QED
  BY <1>1, <1>2 DEF Assign

\* The same for the two passes of settle_expired.
LEMMA ExpiredRowsMove ==
  ASSUME TypeOK, SettleExpired, NEW e \in Executions
  PROVE  /\ execution'[e] # execution[e] => execution[e] \in {"running", "cancelling", "awaiting_approval"}
         /\ approval'[e] # approval[e] => approval[e] = "pending"
<1> DEFINE expired == {p \in Plans : plan[p] \in PlanOpen /\ ~planFresh[p]}
           after   == Assign(plan, expired, "expired")
           s1 == Settled({TaskOf(p) : p \in expired}, "expired",
                         status, eligible, execution, approval, after)
           s2 == Settled(Leftover(s1.status, s1.execution, after), "rejected",
                         s1.status, s1.eligible, s1.execution, s1.approval, after)
<1>1. execution' = s2.execution /\ approval' = s2.approval
  BY DEF SettleExpired
<1>2. TypedRows(s1)
  BY SettledTypes DEF TypeOK, TaskTypeOK, ResultTypeOK, ReviewTypeOK
<1>3. /\ s1.execution[e] # execution[e] => execution[e] \in {"running", "awaiting_approval"}
      /\ s1.approval[e] # approval[e] => approval[e] = "pending"
  BY SettledRowsMove DEF TypeOK, ResultTypeOK, ReviewTypeOK
<1> HIDE DEF s1
<1>4. /\ s2.execution[e] # s1.execution[e] => s1.execution[e] \in {"running", "awaiting_approval"}
      /\ s2.approval[e] # s1.approval[e] => s1.approval[e] = "pending"
  BY <1>2, SettledRowsMove DEF TypedRows
<1> HIDE DEF s2
<1> QED
  BY <1>1, <1>3, <1>4

-----------------------------------------------------------------------------
\* The worker's transactions submit and plan nothing.
LEMMA OrderlyWorker ==
  ASSUME TypeOK, Concluded, Records,
         \/ Recover \/ \E t \in Tasks, w \in Workers : Claim(t, w)
         \/ \E e \in Executions : Finish(e)
         \/ \E t \in Tasks : RecordStartFailure(t)
  PROVE  Orderly
<1>1. UNCHANGED <<target, parent, planExec, draftPlan, plan, draft>>
  BY Zenon DEF Recover, Claim, Finish, RecordStartFailure, planVars, draftVars
<1>2. Moves(status, status') /\ CountsStarted
  <2>1. CASE Recover
    BY <2>1 DEF Recover, Interrupted, Moves, Assign, TypeOK, TaskTypeOK, CountsStarted
  <2>2. ASSUME NEW t \in Tasks, NEW w \in Workers, Claim(t, w)
        PROVE  Moves(status, status') /\ CountsStarted
    <3>1. /\ status' = [status EXCEPT ![t] = "running"] /\ status[t] = "queued"
          /\ current' = [current EXCEPT ![t] = current[t] + 1]
      BY <2>2 DEF Claim, Claimable
    <3> QED
      BY <3>1 DEF Moves, TypeOK, TaskTypeOK, CountsStarted, Started
  <2>3. ASSUME NEW e \in Executions, Finish(e)
        PROVE  Moves(status, status') /\ CountsStarted
    <3>1. current' = current
      BY <2>3 DEF Finish
    <3>2. CASE UNCHANGED status
      BY <3>1, <3>2 DEF Moves, CountsStarted
    <3>3. CASE /\ ~Stale(e)
               /\ status' = [Assign(status, Completes(e), "completed")
                              EXCEPT ![e[1]] = StatusFor(FinalOutcome(e))]
      <4>8. pc[e] = "finish"
        BY <2>3, Zenon DEF Finish
      <4>6. reply[e] \in Outcomes
        BY <4>8 DEF Concluded
      <4>7. FinalOutcome(e) \in Outcomes
        BY <4>6 DEF FinalOutcome, Outcomes
      <4>1. StatusFor(FinalOutcome(e)) # "none"
        BY <4>7 DEF StatusFor, Outcomes
      <4>2. Moves(status, Assign(status, Completes(e), "completed"))
        BY DEF Moves, Assign, Completes, TypeOK, TaskTypeOK
      <4>3. e[1] \in Tasks /\ e[2] >= 1 /\ current[e[1]] = e[2]
        BY <3>3 DEF Stale, Executions
      <4>4. status[e[1]] # "none"
        BY <4>3 DEF Records, Begun, Started
      <4>5. \A u \in Tasks : status'[u] = IF u = e[1] THEN StatusFor(FinalOutcome(e))
                                         ELSE Assign(status, Completes(e), "completed")[u]
        BY <3>3 DEF Assign, TypeOK, TaskTypeOK
      <4> QED
        BY <3>1, <4>1, <4>2, <4>4, <4>5 DEF Moves, CountsStarted
    <3> QED
      BY <2>3, <3>2, <3>3 DEF Finish
  <2>4. ASSUME NEW t \in Tasks, RecordStartFailure(t)
        PROVE  Moves(status, status') /\ CountsStarted
    <3>1. status' = status /\ (current' = current \/ (status[t] = "blocked" /\ current' = [current EXCEPT ![t] = 1]))
      BY <2>4 DEF RecordStartFailure
    <3> QED
      BY <3>1 DEF Moves, TypeOK, TaskTypeOK, CountsStarted, Started
  <2> QED
    BY <2>1, <2>2, <2>3, <2>4
<1> QED
  BY <1>1, <1>2, OrderlyMoves DEF DraftsMove

-----------------------------------------------------------------------------
\* What a thread step, claim() and a crash do to the threads.
LEMMA ThreadsMoveNext ==
  ASSUME TypeOK, [Next]_vars
  PROVE  ThreadsMove
<1>1. CASE UNCHANGED <<pc, reply, using>>
  BY <1>1 DEF ThreadsMove
<1>2. ASSUME NEW w \in Workers, Crash(w) PROVE ThreadsMove
  BY <1>2 DEF Crash, ThreadsMove, Assign, TypeOK, ThreadTypeOK, Live, Resting
<1>3. ASSUME NEW w \in Workers, NEW t \in Tasks, Claim(t, w) PROVE ThreadsMove
  BY <1>3 DEF Claim, ThreadsMove, TypeOK, ThreadTypeOK, TaskTypeOK
<1>4. ASSUME NEW e \in Executions, Thread(e) PROVE ThreadsMove
  <2>1. pc[e] # "none" /\ (UNCHANGED pc \/ \E v : pc' = [pc EXCEPT ![e] = v])
    <3>1. CASE Start(e) \/ ModelReturns(e) \/ RequestScope(e) \/ OpenOwnDraft(e) \/ Preview(e)
      BY <3>1 DEF Start, ModelReturns, RequestScope, OpenOwnDraft, Preview, Conclude
    <3>2. CASE Propose(e)
      <4>1. pc[e] = "propose" /\ (pc' = [pc EXCEPT ![e] = "preview"] \/ Conclude(e, "blocked"))
        BY <3>2, Zenon DEF Propose
      <4> QED
        BY <4>1 DEF Conclude
    <3>3. CASE Clear(e)
      <4>1. pc[e] = "clear" /\ (Conclude(e, "succeeded") \/ Conclude(e, "blocked"))
        BY <3>3, Zenon DEF Clear
      <4> QED
        BY <4>1 DEF Conclude
    <3>4. CASE Apply(e)
      BY <3>4 DEF Apply, ApplyBegin, ApplyBreaks, ApplyCommit, ApplyUndo, Mutate, JournalApplied, Conclude
    <3>5. CASE Settle(e) \/ Finish(e)
      <4>1. pc[e] # "none" /\ \E v : pc' = [pc EXCEPT ![e] = v]
        BY <3>5 DEF Settle, Finish
      <4> QED
        BY <4>1
    <3> QED
      BY <1>4, <3>1, <3>2, <3>3, <3>4, <3>5, Zenon DEF Thread, Request
  <2> QED
    BY <2>1 DEF ThreadsMove, TypeOK, ThreadTypeOK
<1> QED
  BY <1>1, <1>2, <1>3, <1>4, ThreadFrame

\* No transaction changes the record of a closed execution, or decides a closed approval.
LEMMA ResultsMove ==
  ASSUME TypeOK, Beyond, TaskStep
  PROVE  ExecutionsMove /\ ApprovalsMove /\ CurrentGrows
<1> USE DEF ExecutionsMove, ApprovalsMove, CurrentGrows, ExecTerminal
<1> DEFINE Moved == ExecutionsMove /\ ApprovalsMove /\ CurrentGrows
           Closing == /\ UNCHANGED <<current, scoped>>
                      /\ \A e \in Executions :
                           /\ execution'[e] # execution[e]
                                => execution[e] \in {"running", "cancelling", "awaiting_approval"}
                           /\ approval'[e] # approval[e] => approval[e] = "pending"
<1>a. Closing => Moved
  BY DEF TypeOK, TaskTypeOK
<1> HIDE DEF Closing
<1>1. CASE Recover
  <2>1. UNCHANGED <<current, approval, scoped>>
    BY <1>1 DEF Recover, reviewVars
  <2> DEFINE S == {t \in Interrupted : current[t] > 0}
  <2>2. execution' = Assign(execution, {e \in CurrentOf(S) : execution[e] \notin ExecTerminal}, "lost")
    BY <1>1 DEF Recover
  <2>3. \A e \in Executions : execution'[e] # execution[e]
          => e \in CurrentOf(S) /\ execution[e] \notin ExecTerminal
    BY <2>2 DEF Assign, TypeOK, ResultTypeOK
  <2> QED
    BY <2>1, <2>3 DEF CurrentOf, TypeOK, TaskTypeOK
<1>2. CASE SettleExpired
  <2>1. UNCHANGED <<current, scoped>>
    BY <1>2 DEF SettleExpired
  <2> QED
    BY <1>2, <1>a, <2>1, ExpiredRowsMove DEF Closing
<1>3. ASSUME NEW p \in Plans, Revoke(p) PROVE Moved
  <2>1. UNCHANGED <<current, scoped>>
    BY <1>3 DEF Revoke
  <2>2. Closing
    BY <1>3, <2>1, SettledRowsMove DEF Closing, Revoke, TypeOK, ResultTypeOK, ReviewTypeOK
  <2> QED
    BY <2>2, <1>a
<1>4. CASE MaintainDrafts \/ \E d \in Requests : CloseDraft(d)
  <2>1. UNCHANGED <<current, scoped>> /\ \E S, ended : execution' = ReviewExecution(S, ended)
    BY <1>4, Zenon DEF MaintainDrafts, CloseDraft
  <2>2. \A e \in Executions : approval'[e] # approval[e] => approval[e] = "pending"
    BY <1>4 DEF MaintainDrafts, CloseDraft, PendingOf, Assign, TypeOK, ReviewTypeOK
  <2> QED
    BY <1>a, <2>1, <2>2, ReviewExecutionMoves DEF Closing
<1>5. ASSUME NEW d \in Requests, NEW c \in Requests, NEW w \in Workers, OpenDraft(d, c, w)
      PROVE  Moved
  <2>1. UNCHANGED <<current, scoped>> /\ execution' = ReviewExecution({d}, "completed")
        /\ approval' = Assign(approval, PendingOf({d}) \cap scoped, "approved")
    BY <1>5, Zenon DEF OpenDraft
  <2>2. \A e \in Executions : approval'[e] # approval[e] => approval[e] = "pending"
    BY <2>1 DEF PendingOf, Assign, TypeOK, ReviewTypeOK
  <2> QED
    BY <1>a, <2>1, <2>2, ReviewExecutionMoves DEF Closing
<1>6. ASSUME NEW e \in Executions, NEW d, NEW p, LinkPlan(e, d, p), UNCHANGED current PROVE Moved
  <2>1. UNCHANGED <<current, scoped>> /\ (\E S, ended : execution' = ReviewExecution(S, ended))
        /\ \E S : approval' = Assign(approval, PendingOf(S), "rejected")
    BY <1>6, Zenon DEF LinkPlan
  <2>2. \A x \in Executions : approval'[x] # approval[x] => approval[x] = "pending"
    BY <2>1 DEF PendingOf, Assign, TypeOK, ReviewTypeOK
  <2> QED
    BY <1>a, <2>1, <2>2, ReviewExecutionMoves DEF Closing
<1>7. CASE \E e \in Executions : Propose(e) \/ Clear(e)
  <2>1. UNCHANGED current
    BY <1>7, Zenon DEF Propose, Clear
  <2>2. UNCHANGED <<execution, approval, scoped>> \/ \E e \in Executions : \E d, p : LinkPlan(e, d, p)
    BY <1>7, ZenonT(30) DEF Propose, Clear, resultVars, reviewVars
  <2> QED
    BY <1>6, <2>1, <2>2 DEF TypeOK, TaskTypeOK
<1>8. ASSUME NEW t \in Tasks, Cancel(t) PROVE Moved
  <2>1. UNCHANGED <<current, scoped>>
    BY <1>8 DEF Cancel
  <2>2. \A e \in Executions : approval'[e] # approval[e] => approval[e] = "pending"
    BY <1>8 DEF Cancel, Assign, TypeOK, ReviewTypeOK
  <2>3. \A e \in Executions : execution'[e] # execution[e]
          => execution[e] \in {"running", "cancelling", "awaiting_approval"}
    <3>1. CASE Attended(t)
      <4>1. execution' = [AskedToStop(AppliesOf(t)) EXCEPT ![<<t, current[t]>>] = "cancelling"]
        BY <1>8, <3>1 DEF Cancel
      <4>2. execution[<<t, current[t]>>] \in {"running", "cancelling"}
        BY <3>1 DEF Attended
      <4>3. AskedToStop(AppliesOf(t)) \in [Executions -> ExecStatus]
        BY WithdrawnTypes
      <4> QED
        BY <4>1, <4>2, <4>3, AskedToStopMoves
    <3>2. CASE ~Attended(t)
      <4>1. \E v : execution' = Assign(AskedToStop(AppliesOf(t)),
                       {e \in ExecutionsOf(t) : execution[e] \notin ExecTerminal}, v)
        BY <1>8, <3>2 DEF Cancel
      <4>3. AskedToStop(AppliesOf(t)) \in [Executions -> ExecStatus]
        BY WithdrawnTypes
      <4>4. \A e \in Executions : execution[e] \in ExecStatus
        BY DEF TypeOK, ResultTypeOK
      <4> QED
        BY <4>1, <4>3, <4>4, AskedToStopMoves DEF Assign, ExecutionsOf, ExecStatus
    <3> QED
      BY <3>1, <3>2
  <2> QED
    BY <1>a, <2>1, <2>2, <2>3 DEF Closing
<1>9. ASSUME NEW t \in Tasks, RecordStartFailure(t) PROVE Moved
  <2>1. UNCHANGED <<approval, scoped>>
    BY <1>9 DEF RecordStartFailure, reviewVars
  <2>2. CASE UNCHANGED <<current, execution>>
    BY <2>1, <2>2 DEF TypeOK, TaskTypeOK
  <2>3. CASE /\ current[t] = 0 /\ current' = [current EXCEPT ![t] = 1]
             /\ execution' = [execution EXCEPT ![<<t, 1>>] = "failed"]
    <3>1. <<t, 1>> \in Executions
      BY LedgerAssumption DEF Executions, MaxExecs
    <3>2. execution[<<t, 1>>] = "none"
      BY <2>3, <3>1 DEF Beyond, Unreached
    <3> QED
      BY <2>1, <2>3, <3>1, <3>2 DEF TypeOK, TaskTypeOK, ResultTypeOK
  <2> QED
    BY <1>9, <2>2, <2>3 DEF RecordStartFailure
<1>10. ASSUME NEW t \in Tasks, NEW w \in Workers, Claim(t, w) PROVE Moved
  <2> DEFINE n == current[t] + 1
  <2>1. /\ UNCHANGED <<approval, scoped>>
        /\ current' = [current EXCEPT ![t] = n]
        /\ execution' = [execution EXCEPT ![<<t, n>>] = "running"]
    BY <1>10 DEF Claim, reviewVars
  <2>2. execution[<<t, n>>] = "none" \/ <<t, n>> \notin Executions
    BY DEF Beyond, Unreached, TypeOK, TaskTypeOK
  <2> QED
    BY <2>1, <2>2 DEF TypeOK, TaskTypeOK, ResultTypeOK
<1>11. ASSUME NEW e \in Executions, Finish(e) PROVE Moved
  <2>1. UNCHANGED current
    BY <1>11 DEF Finish
  <2>2. CASE UNCHANGED <<execution, approval, scoped>>
    BY <2>1, <2>2 DEF TypeOK, TaskTypeOK
  <2>3. CASE /\ ~Stale(e)
             /\ \E r : execution' = [execution EXCEPT ![e] = r]
             /\ UNCHANGED approval \/ \E a : approval' = [approval EXCEPT ![e] = a]
             /\ scoped' \subseteq scoped \cup {e}
    BY <2>1, <2>3 DEF Stale, TypeOK, TaskTypeOK, ResultTypeOK, ReviewTypeOK
  <2>4. UNCHANGED <<execution, approval, scoped>>
        \/ /\ ~Stale(e)
           /\ \E r : execution' = [execution EXCEPT ![e] = r]
           /\ UNCHANGED approval \/ \E a : approval' = [approval EXCEPT ![e] = a]
           /\ scoped' = scoped \/ scoped' = scoped \cup {e}
    BY <1>11, Zenon DEF Finish, reviewVars
  <2> QED
    BY <2>2, <2>3, <2>4
<1>12. CASE \E e \in Executions, k \in {"approved", "rejected", "expired"} : DecideApproval(e, k)
  BY <1>12 DEF DecideApproval, resultVars, TypeOK, ReviewTypeOK, TaskTypeOK
<1>13. CASE \E p \in Plans, c \in Applies, w \in Workers : Approve(p, c, w)
  <2>1. UNCHANGED <<current, execution, scoped>>
        /\ \E t : approval' = Assign(approval, PendingOf({t}) \ scoped, "approved")
    BY <1>13, Zenon DEF Approve, resultVars
  <2> QED
    BY <2>1 DEF Assign, PendingOf, TypeOK, TaskTypeOK, ReviewTypeOK
<1>14. CASE \/ \E t \in Tasks, w \in Workers : Submit(t, w) \/ SubmitUnlaunched(t, w) \/ Resume(t, w)
            \/ \E p \in Plans : Resolve(p)
  <2>1. UNCHANGED <<current, execution, approval, scoped>>
    BY <1>14, Zenon DEF Submit, SubmitUnlaunched, Resume, Resolve, resultVars, reviewVars
  <2> QED
    BY <2>1 DEF TypeOK, TaskTypeOK
<1> QED
  BY <1>1, <1>2, <1>3, <1>4, <1>5, <1>7, <1>8, <1>9, <1>10, <1>11, <1>12, <1>13, <1>14, Zenon
     DEF TaskStep

-----------------------------------------------------------------------------
\* The two passes of settle_expired only move submitted tasks.
LEMMA ExpiredStatusMoves ==
  ASSUME TypeOK, Records, SettleExpired
  PROVE  Moves(status, status')
<1> DEFINE expired == {p \in Plans : plan[p] \in PlanOpen /\ ~planFresh[p]}
           after   == Assign(plan, expired, "expired")
           s1 == Settled({TaskOf(p) : p \in expired}, "expired",
                         status, eligible, execution, approval, after)
           left == Leftover(s1.status, s1.execution, after)
           s2 == Settled(left, "rejected",
                         s1.status, s1.eligible, s1.execution, s1.approval, after)
<1>1. status' = s2.status
  BY DEF SettleExpired
<1>2. TypedRows(s1)
  BY SettledTypes DEF TypeOK, TaskTypeOK, ResultTypeOK, ReviewTypeOK
<1>3. \A p \in Plans : plan[p] \in PlanOpen => status[TaskOf(p)] # "none"
  BY DEF Records, Origin, Started, PlanOpen
<1>4. \A t \in {TaskOf(p) : p \in expired} : status[t] # "none"
  BY <1>3
<1>5. Moves(status, s1.status)
  BY <1>4, SettledMoves DEF TypeOK, TaskTypeOK
<1> HIDE DEF s1
<1>6. \A t \in left : s1.status[t] # "none"
  BY DEF Leftover, TaskTerminal
<1> HIDE DEF left
<1>7. Moves(s1.status, s2.status)
  BY <1>2, <1>6, SettledMoves DEF TypedRows
<1> HIDE DEF s2
<1> QED
  BY <1>1, <1>5, <1>7 DEF Moves

\* The owner's decisions and the maintenance pass submit and plan nothing.
LEMMA OrderlyOwner ==
  ASSUME TypeOK, Beyond, Records,
         \/ SettleExpired \/ MaintainDrafts
         \/ \E t \in Tasks : Cancel(t)
         \/ \E t \in Tasks, w \in Workers : Resume(t, w)
         \/ \E p \in Plans : Revoke(p) \/ Resolve(p)
         \/ \E d \in Requests : CloseDraft(d)
         \/ \E e \in Executions, k \in {"approved", "rejected", "expired"} : DecideApproval(e, k)
  PROVE  Orderly
<1> USE DEF PlanShut, PlanOpen
<1>1. UNCHANGED <<target, parent, planExec, draftPlan, current>>
  BY Zenon DEF SettleExpired, MaintainDrafts, Cancel, Resume, Revoke, Resolve, CloseDraft,
     DecideApproval, planVars, draftVars
<1>2. CountsStarted
  BY <1>1 DEF CountsStarted
<1> DEFINE PlansStay == /\ \A p \in Plans : plan'[p] = "none" <=> plan[p] = "none"
                        /\ \A p \in Plans : plan'[p] \notin PlanShut => plan[p] \notin PlanShut
           Goal == Moves(status, status') /\ PlansStay /\ DraftsMove
<1>3. \A S, v : v \in {"revoked", "expired"} /\ (\A p \in S : p \in Plans => plan[p] \in PlanOpen)
                /\ plan' = Assign(plan, S, v) => PlansStay
  BY DEF Assign, TypeOK, PlanTypeOK
<1>4. UNCHANGED plan => PlansStay
  OBVIOUS
<1>5. UNCHANGED draft => DraftsMove
  BY DEF DraftsMove
<1> HIDE DEF PlansStay
<1>6. ASSUME SettleExpired PROVE Goal
  <2> DEFINE expired == {p \in Plans : plan[p] \in PlanOpen /\ ~planFresh[p]}
  <2>1. plan' = Assign(plan, expired, "expired") /\ UNCHANGED draft
    BY <1>6, Zenon DEF SettleExpired, draftVars
  <2>2. PlansStay
    BY <1>3, <2>1
  <2> QED
    BY <1>5, <1>6, <2>1, <2>2, ExpiredStatusMoves
<1>7. ASSUME MaintainDrafts PROVE Goal
  <2>1. /\ status' = ReviewStatus(Lapsed, status, "cancelled")
        /\ draft' = Assign(draft, Lapsed, "closed") /\ UNCHANGED plan
    BY <1>7, Zenon DEF MaintainDrafts, planVars
  <2>2. DraftsMove
    BY <2>1 DEF Lapsed, DraftsMove, Assign, TypeOK, DraftTypeOK
  <2> QED
    BY <1>4, <2>1, <2>2, ReviewMoves
<1>8. ASSUME NEW t \in Tasks, Cancel(t) PROVE Goal
  <2>1. plan' = Assign(plan, OpenPlans(t), "revoked") /\ UNCHANGED draft
    BY <1>8, Zenon DEF Cancel, draftVars
  <2>2. status[t] # "none"
        /\ \E v \in {"cancelling", "blocked", "cancelled"} :
             status' = [Withdrawn(AppliesOf(t)) EXCEPT ![t] = v]
    BY <1>8 DEF Cancel
  <2>3. Withdrawn(AppliesOf(t)) \in [Tasks -> TaskStatus] /\ Moves(status, Withdrawn(AppliesOf(t)))
    BY WithdrawnTypes, WithdrawnMoves
  <2>4. Moves(status, status')
    BY <2>2, <2>3 DEF Moves
  <2> QED
    BY <1>3, <1>5, <2>1, <2>4 DEF OpenPlans
<1>9. ASSUME NEW t \in Tasks, NEW w \in Workers, Resume(t, w) PROVE Goal
  <2>1. status[t] # "none" /\ status' = [status EXCEPT ![t] = "queued"] /\ UNCHANGED <<plan, draft>>
    BY <1>9 DEF Resume, planVars, draftVars
  <2> QED
    BY <1>4, <1>5, <2>1 DEF Moves, TypeOK, TaskTypeOK
<1>10. ASSUME NEW p \in Plans, Revoke(p) PROVE Goal
  <2> DEFINE after == [plan EXCEPT ![p] = "revoked"]
  <2>1. /\ plan[p] \in PlanOpen /\ plan' = after /\ UNCHANGED draft
        /\ status' = Settled({TaskOf(p)}, "rejected", status, eligible, execution, approval, after).status
    BY <1>10 DEF Revoke, draftVars
  <2>2. \A t \in {TaskOf(p)} : status[t] # "none"
    BY <2>1 DEF Records, Origin, Started
  <2>3. Moves(status, status')
    BY <2>1, <2>2, SettledMoves DEF TypeOK, TaskTypeOK
  <2>4. PlansStay
    BY <2>1 DEF PlansStay, TypeOK, PlanTypeOK
  <2> QED
    BY <1>5, <2>1, <2>3, <2>4
<1>11. ASSUME NEW p \in Plans, Resolve(p) PROVE Goal
  <2>1. /\ plan[p] \in {"applying", "uncertain", "applied"}
        /\ \E v \in {"applied", "reconciled"} : plan' = [plan EXCEPT ![p] = v]
    BY <1>11 DEF Resolve
  <2>2. PlansStay
    BY <2>1 DEF PlansStay, TypeOK, PlanTypeOK
  <2>3. status[TaskOf(p)] # "none"
    BY <2>1 DEF Records, Origin, Started
  <2>4. \A u \in Tasks : status'[u] # status[u]
          => /\ status'[u] \in {"completed", "blocked", "cancelled"}
             /\ u = TaskOf(p) \/ status[u] \in {"blocked", "failed"}
    BY <1>11 DEF Resolve
  <2>5. Moves(status, status')
    BY <2>3, <2>4 DEF Moves
  <2>6. \E S, v : draft' = Assign(draft, {d \in S : draft[d] = "ready"}, v) /\ v \in {"applied", "closed"}
    <3> DEFINE t == TaskOf(p)
               after    == [plan EXCEPT ![p] = IF shown[p] = planPaths[p] THEN "applied" ELSE "reconciled"]
               known    == {e \in Executions : /\ execution[e] = "lost"
                                               /\ \/ e = planExec[p] /\ current[t] = e[2]
                                                  \/ e[1] \in Children(t) /\ target[e[1]] = p}
               noted    == [resolved EXCEPT ![p] = @ \cup known]
               doubt    == UnresolvedGiven(t, execution, after, noted, InDoubt)
               settled  == {d \in Requests : draftPlan[d] = p /\ draft[d] = "ready" /\ ~doubt}
    <3>1. draft' = Assign(draft, settled, IF shown[p] = planPaths[p] THEN "applied" ELSE "closed")
      BY <1>11 DEF Resolve
    <3>2. settled = {d \in settled : draft[d] = "ready"}
      OBVIOUS
    <3> HIDE DEF settled
    <3> QED
      BY <3>1, <3>2
  <2>7. DraftsMove
    BY <2>6 DEF DraftsMove, Assign, TypeOK, DraftTypeOK
  <2> QED
    BY <2>2, <2>5, <2>7
<1>12. ASSUME NEW d \in Requests, CloseDraft(d) PROVE Goal
  <2>1. /\ draft[d] \in {"pending", "ready"} /\ draft' = [draft EXCEPT ![d] = "closed"]
        /\ \E S : status' = ReviewStatus(S, status, "cancelled")
        /\ plan' = Assign(plan, {p \in Plans : p = draftPlan[d] /\ plan[p] = "pending"}, "revoked")
    BY <1>12, Zenon DEF CloseDraft
  <2>2. DraftsMove
    BY <2>1 DEF DraftsMove, TypeOK, DraftTypeOK
  <2> QED
    BY <1>3, <2>1, <2>2, ReviewMoves
<1>13. ASSUME NEW e \in Executions, NEW k, DecideApproval(e, k) PROVE Goal
  <2>1. /\ approval[e] = "pending" /\ UNCHANGED <<plan, draft>>
        /\ status' = status \/ status' = [status EXCEPT ![e[1]] = "blocked"]
    BY <1>13 DEF DecideApproval, planVars, draftVars
  <2>2. e[1] \in Tasks /\ e[2] >= 1 /\ e[2] \in Int
    BY DEF Executions
  <2>3. current[e[1]] # 0
    BY <2>1, <2>2 DEF Beyond, Unreached, TypeOK, TaskTypeOK
  <2>4. status[e[1]] # "none"
    BY <2>2, <2>3 DEF Records, Begun, Started
  <2>5. Moves(status, status')
    BY <2>1, <2>4 DEF Moves, TypeOK, TaskTypeOK
  <2> QED
    BY <1>4, <1>5, <2>1, <2>5
<1> HIDE DEF Goal
<1>14. Goal
  BY <1>6, <1>7, <1>8, <1>9, <1>10, <1>11, <1>12, <1>13, Zenon
<1> QED
  BY <1>1, <1>2, <1>14, OrderlyMoves DEF Goal, PlansStay

-----------------------------------------------------------------------------
\* _submit_conn adds one task, an apply with its plan and that plan's task.
LEMMA InsertTaskMoves ==
  ASSUME TypeOK, NEW t \in Tasks, NEW w, NEW up, NEW tgt, NEW before \in [Tasks -> TaskStatus],
         InsertTask(t, w, up, tgt, before), Moves(status, before), UNCHANGED current,
         t \in Applies => tgt \in Plans /\ planExec[tgt] # None /\ up = TaskOf(tgt)
  PROVE  TasksStay /\ CountsStarted /\ NewApplies
<1>1. /\ status[t] = "none" /\ status' = [before EXCEPT ![t] = "queued"]
      /\ target' = [target EXCEPT ![t] = tgt] /\ parent' = [parent EXCEPT ![t] = up]
  BY DEF InsertTask
<1>2. \A u \in Tasks \ {t} : /\ Started(u) <=> Started(u)'
                             /\ target'[u] = target[u] /\ parent'[u] = parent[u]
  BY <1>1 DEF Moves, Started, TypeOK, TaskTypeOK
<1>3. TasksStay
  BY <1>1, <1>2 DEF TasksStay, Started
<1>4. NewApplies
  BY <1>1, <1>2 DEF NewApplies, Tasks, TypeOK, TaskTypeOK
<1> QED
  BY <1>3, <1>4 DEF CountsStarted

\* Submissions, admitted applies and opened read scopes keep the order.
LEMMA OrderlySubmission ==
  ASSUME TypeOK, Coherent, Records,
         \/ \E t \in Tasks, w \in Workers : Submit(t, w) \/ SubmitUnlaunched(t, w)
         \/ \E p \in Plans, c \in Applies, w \in Workers : Approve(p, c, w)
         \/ \E d, c \in Requests, w \in Workers : OpenDraft(d, c, w)
  PROVE  Orderly
<1> DEFINE Inserted == TasksStay /\ CountsStarted /\ NewApplies
<1> HIDE DEF Inserted
<1>1. UNCHANGED <<planExec, draftPlan, current>>
  BY Zenon DEF Submit, SubmitUnlaunched, Approve, OpenDraft, planVars, draftVars
<1>2. ASSUME NEW t \in Tasks, NEW w \in Workers, Submit(t, w) \/ SubmitUnlaunched(t, w)
      PROVE  Orderly
  <2>1. UNCHANGED <<plan, draft>> /\ t \in Requests
        /\ \E d : InsertTask(t, w, None, d, status)
    BY <1>2, Zenon DEF Submit, SubmitUnlaunched, planVars, draftVars
  <2>2. Moves(status, status) /\ t \notin Applies /\ status \in [Tasks -> TaskStatus]
    BY <2>1, LedgerAssumption DEF Moves, TypeOK, TaskTypeOK
  <2>3. TasksStay /\ CountsStarted /\ NewApplies
    BY <1>1, <2>1, <2>2, InsertTaskMoves
  <2>4. PlansMove /\ DraftsMove
    BY <1>1, <2>1 DEF PlansMove, DraftsMove
  <2> QED
    BY <2>3, <2>4, Zenon DEF Orderly
<1>3. ASSUME NEW p \in Plans, NEW c \in Applies, NEW w \in Workers, Approve(p, c, w) PROVE Orderly
  <2>1. /\ plan[p] \in PlanOpen /\ plan' = [plan EXCEPT ![p] = "approved"] /\ UNCHANGED draft
        /\ InsertTask(c, w, TaskOf(p), p, status) /\ c \in Tasks
    BY <1>3 DEF Approve, draftVars, Tasks
  <2>2. Moves(status, status) /\ planExec[p] # None /\ status \in [Tasks -> TaskStatus]
    BY <2>1, LedgerAssumption DEF Moves, Coherent, PlannedByRequest, TypeOK, TaskTypeOK
  <2>3. TasksStay /\ CountsStarted /\ NewApplies
    BY <1>1, <2>1, <2>2, InsertTaskMoves
  <2>4. PlansMove /\ DraftsMove
    BY <1>1, <2>1 DEF PlansMove, DraftsMove, PlanOpen, PlanShut, TypeOK, PlanTypeOK
  <2> QED
    BY <2>3, <2>4, Zenon DEF Orderly
<1>4. ASSUME NEW d \in Requests, NEW c \in Requests, NEW w \in Workers, OpenDraft(d, c, w)
      PROVE  Orderly
  <2>1. /\ draft[d] = "pending" /\ draft' = [draft EXCEPT ![d] = "ready"] /\ UNCHANGED plan
        /\ InsertTask(c, w, d, d, ReviewStatus({d}, status, "completed")) /\ c \in Tasks
    BY <1>4 DEF OpenDraft, planVars, Tasks
  <2>2. /\ Moves(status, ReviewStatus({d}, status, "completed")) /\ c \notin Applies
        /\ ReviewStatus({d}, status, "completed") \in [Tasks -> TaskStatus]
    BY ReviewMoves, ReviewTypes, LedgerAssumption
  <2>3. TasksStay /\ CountsStarted /\ NewApplies
    BY <1>1, <2>1, <2>2, InsertTaskMoves
  <2>4. PlansMove /\ DraftsMove
    BY <1>1, <2>1 DEF PlansMove, DraftsMove, TypeOK, DraftTypeOK
  <2> QED
    BY <2>3, <2>4, Zenon DEF Orderly
<1> QED
  BY <1>2, <1>3, <1>4

-----------------------------------------------------------------------------
\* A running execution's task was submitted.
LEMMA OwnedStarted ==
  ASSUME TypeOK, Beyond, Records, NEW e \in Executions, pc[e] # "none"
  PROVE  e[1] \in Tasks /\ Started(e[1])
<1>1. e[1] \in Tasks /\ e[2] >= 1 /\ e[2] \in Int
  BY DEF Executions
<1>2. current[e[1]] # 0
  BY <1>1 DEF Beyond, Unreached, TypeOK, TaskTypeOK
<1> QED
  BY <1>1, <1>2 DEF Records, Begun

\* Only a request that continues no draft heads for a read scope or a draft of its own.
NoDraftYet == \A e \in Executions :
  pc[e] \in {"scope", "draft"} \/ (pc[e] = "model" /\ using[e] = None) => target[e[1]] = None

\* create opens a draft for the submitted request itself.
LEMMA RecordsCreateDraft ==
  ASSUME TypeOK, Coherent, Beyond, Records, NoDraftYet, NEW e \in Executions,
         RequestScope(e) \/ OpenOwnDraft(e)
  PROVE  TasksStay /\ Records'
<1> DEFINE t == e[1]
<1>1. t \in Requests /\ target[t] = None /\ pc[e] # "none"
  BY Zenon DEF RequestScope, OpenOwnDraft, Coherent, ThreadSubjects, NoDraftYet
<1>2. Started(t)
  BY <1>1, OwnedStarted
<1>8. UNCHANGED <<status, current, target, parent, plan, planExec, draftPlan>>
  BY Zenon DEF RequestScope, OpenOwnDraft, CreateDraft, taskVars, planVars, draftVars
<1>9. draft' = draft \/ (draft[t] = "none" /\ \E v \in {"pending", "ready"} : draft' = [draft EXCEPT ![t] = v])
  <2>1. UNCHANGED draftVars \/ \E reads \in BOOLEAN : CreateDraft(t, reads)
    BY Zenon DEF RequestScope, OpenOwnDraft
  <2> QED
    BY <2>1 DEF CreateDraft, draftVars
<1>3. /\ UNCHANGED <<status, current, target, parent, plan, planExec, draftPlan>>
      /\ draft' = draft \/ (draft[t] = "none" /\ \E v \in {"pending", "ready"} : draft' = [draft EXCEPT ![t] = v])
  BY <1>8, <1>9
<1>4. TasksStay
  BY <1>3 DEF TasksStay, Started
<1>5. Begun' /\ Origin' /\ DraftPlans' /\ Latest' /\ ApplyParent'
  BY <1>3 DEF Records, Begun, Origin, DraftPlans, Latest, ApplyParent, Started, TaskOf, DraftOf
<1>6. DraftRoots'
  BY <1>1, <1>2, <1>3 DEF Records, DraftRoots, Started, TypeOK, DraftTypeOK
<1>7. Planned'
  BY <1>1, <1>3, PlanRoots DEF Records, Planned, TaskOf, DraftOf, TypeOK, DraftTypeOK
<1> QED
  BY <1>4, <1>5, <1>6, <1>7 DEF Records

\* link_plan_conn gives a draft a new latest plan, or none, and shuts the earlier one.
LEMMA RecordsLinked ==
  ASSUME TypeOK, Coherent, Records, NEW e \in Executions, NEW d \in Requests,
         NEW p \in Plans \cup {None},
         e[1] \in Requests, Started(e[1]), DraftOf(e[1]) = d, draft[d] = "ready",
         UNCHANGED <<current, target, parent, draft>>, Moves(status, status'),
         draftPlan' = [draftPlan EXCEPT ![d] = p],
         IF p = None THEN planExec' = planExec
         ELSE plan[p] = "none" /\ plan'[p] # "none" /\ planExec' = [planExec EXCEPT ![p] = e],
         \A q \in Plans \ {p} : plan'[q] = "none" <=> plan[q] = "none",
         \A q \in Plans \ {p} : plan'[q] \notin PlanShut => plan[q] \notin PlanShut /\ q # draftPlan[d]
  PROVE  TasksStay /\ Records'
<1>0. None \notin Plans /\ None \notin Executions /\ None \notin Tasks /\ Requests \subseteq Tasks
  BY LedgerAssumption DEF Tasks
<1>1. \A t \in Tasks : Started(t) <=> Started(t)'
  BY DEF Moves, Started
<1>2. TasksStay
  BY <1>1 DEF TasksStay
<1>3. \A q \in Plans : planExec[q] # None =>
        /\ planExec[q] \in Executions /\ TaskOf(q) \in Requests /\ Started(TaskOf(q)) /\ plan[q] # "none"
        /\ planExec'[q] = planExec[q] /\ q # p
  BY <1>0 DEF Records, Origin, TypeOK, PlanTypeOK
<1>4. \A q \in Plans : planExec[q] # None => TaskOf(q)' = TaskOf(q) /\ DraftOf(TaskOf(q))' = DraftOf(TaskOf(q))
  BY <1>3 DEF TaskOf, DraftOf
<1>5. p # None => planExec'[p] = e /\ TaskOf(p)' = e[1] /\ DraftOf(TaskOf(p))' = d /\ p \in Plans
  BY DEF TypeOK, PlanTypeOK, TaskOf, DraftOf
<1>6. \A q \in Plans : plan[q] # "none" <=> planExec[q] # None
  BY <1>0 DEF Records, Origin
<1>7. Begun'
  BY <1>1 DEF Records, Begun
<1>8. Origin'
  <2> SUFFICES ASSUME NEW q \in Plans
               PROVE  IF plan'[q] = "none" THEN planExec'[q] = None
                      ELSE planExec'[q] \in Executions /\ planExec'[q][1] \in Requests /\ status'[planExec'[q][1]] # "none"
    BY DEF Origin, TaskOf, Started
  <2>1. CASE q = p
    BY <1>0, <1>1, <1>5, <2>1 DEF Started, TaskOf
  <2>2. CASE q # p /\ plan[q] # "none"
    BY <1>0, <1>1, <1>3, <1>6, <2>2 DEF Started, TaskOf
  <2>3. CASE q # p /\ plan[q] = "none"
    BY <1>6, <2>3 DEF TypeOK, PlanTypeOK
  <2> QED
    BY <2>1, <2>2, <2>3
<1>9. DraftRoots'
  BY <1>0, <1>1 DEF Records, DraftRoots
<1>10. DraftPlans'
  <2> SUFFICES ASSUME NEW x \in Requests, NEW q, q = draftPlan'[x], q # None
               PROVE  planExec'[q] # None /\ DraftOf(TaskOf(q))' = x
    BY DEF DraftPlans, DraftOf, TaskOf
  <2>1. CASE x = d
    BY <1>0, <1>5, <2>1 DEF TypeOK, DraftTypeOK
  <2>2. CASE x # d
    <3>1. q = draftPlan[x] /\ q \in Plans
      BY <2>2 DEF TypeOK, DraftTypeOK
    <3>2. planExec[q] # None /\ DraftOf(TaskOf(q)) = x
      BY <3>1 DEF Records, DraftPlans
    <3> QED
      BY <1>3, <1>4, <3>1, <3>2
  <2> QED
    BY <2>1, <2>2
<1>11. Planned'
  <2> SUFFICES ASSUME NEW q \in Plans, planExec'[q] # None
               PROVE  draft[DraftOf(TaskOf(q))'] \notin {"none", "pending"}
    BY DEF Planned, DraftOf, TaskOf
  <2>1. CASE q = p
    BY <1>0, <1>5, <2>1
  <2>2. CASE q # p
    <3>1. planExec[q] # None
      BY <2>2 DEF TypeOK, PlanTypeOK
    <3> QED
      BY <1>4, <3>1 DEF Records, Planned
  <2> QED
    BY <2>1, <2>2
<1>12. Latest'
  <2> SUFFICES ASSUME NEW q \in Plans, plan'[q] \notin PlanShut
               PROVE  draftPlan'[DraftOf(TaskOf(q))'] = q
    BY DEF Latest, DraftOf, TaskOf, PlanShut
  <2>1. CASE q = p
    BY <1>0, <1>5, <2>1 DEF TypeOK, DraftTypeOK
  <2>2. CASE q # p
    <3>1. plan[q] \notin PlanShut /\ q # draftPlan[d] /\ plan[q] # "none"
      BY <2>2 DEF PlanShut
    <3>2. draftPlan[DraftOf(TaskOf(q))] = q /\ DraftOf(TaskOf(q))' = DraftOf(TaskOf(q))
      BY <1>4, <1>6, <3>1 DEF Records, Latest
    <3> QED
      BY <3>1, <3>2 DEF TypeOK, DraftTypeOK
  <2> QED
    BY <2>1, <2>2
<1>13. ApplyParent'
  <2>1. \A c \in Applies : Started(c)' => /\ target[c] \in Plans /\ planExec[target[c]] # None
                                          /\ parent[c] = TaskOf(target[c])
    BY <1>1 DEF Records, ApplyParent, Tasks
  <2> QED
    BY <1>3, <1>4, <2>1 DEF ApplyParent, TaskOf
<1> QED
  BY <1>2, <1>7, <1>8, <1>9, <1>10, <1>11, <1>12, <1>13 DEF Records

\* The plan column once the open plans of the task and the draft's plan are withdrawn.
Replacing(e) == Assign(Assign(plan, OpenPlans(e[1]), "revoked"), Replaced(using[e]), "revoked")

\* link_plan_conn only withdraws plans that wait for the owner, the draft's among them.
LEMMA ReplacingMoves ==
  ASSUME TypeOK, NEW e \in Executions, NEW left,
         left = plan \/ left = Assign(plan, OpenPlans(e[1]), "revoked"),
         Linkable(e, using[e], left), NEW q \in Plans
  PROVE  LET new == Assign(left, Replaced(using[e]), "revoked")[q] IN
         /\ new = plan[q] \/ (plan[q] \in PlanOpen /\ new = "revoked")
         /\ q = draftPlan[using[e]] => new = "revoked"
<1> DEFINE prev == draftPlan[using[e]]
<1>1. left[q] = plan[q] \/ (plan[q] \in PlanOpen /\ left[q] = "revoked")
  BY DEF Assign, OpenPlans, PlanOpen, TypeOK, PlanTypeOK
<1>2. q = prev => left[q] \in {"pending", "revoked"}
  <2> SUFFICES ASSUME q = prev PROVE left[q] \in {"pending", "revoked"}
    OBVIOUS
  <2>1. prev # None
    BY LedgerAssumption
  <2>2. left[prev] = "pending" \/ (left[prev] = "revoked" /\ TaskOf(prev) = e[1])
    BY <2>1, Zenon DEF Linkable
  <2> QED
    BY <2>2
<1>3. Assign(left, Replaced(using[e]), "revoked")[q] = IF q = prev THEN "revoked" ELSE left[q]
  BY DEF Assign, Replaced, TypeOK, PlanTypeOK
<1> QED
  BY <1>1, <1>2, <1>3 DEF PlanOpen

\* What propose writes when its plan can be linked.
LEMMA ProposeWrites ==
  ASSUME TypeOK, Coherent, NEW e \in Executions, Propose(e),
         Linkable(e, using[e], Assign(plan, OpenPlans(e[1]), "revoked"))
  PROVE  \E p \in Plans, S \in SUBSET Paths :
           /\ plan[p] = "none"
           /\ plan' = [Replacing(e) EXCEPT ![p] = "pending"]
           /\ planExec' = [planExec EXCEPT ![p] = e]
           /\ planPaths' = [planPaths EXCEPT ![p] = S]
           /\ preimage' = [preimage EXCEPT ![p] = snapshot[using[e]]]
           /\ LinkPlan(e, using[e], p)
           /\ UNCHANGED reply /\ pc' = [pc EXCEPT ![e] = "preview"]
<1>1. using[e] \in Requests
  BY DEF Coherent, ThreadSubjects, Propose
<1>2. NewFiles(using[e]) \cup (IF draftReads[using[e]] THEN Reviewed ELSE {}) \subseteq Paths
  BY <1>1 DEF NewFiles, Reviewed, Paths, Created
<1> QED
  BY <1>2 DEF Propose, Replacing

\* A linkable thread plans for the draft it loaded.
LEMMA LinkableDraft ==
  ASSUME TypeOK, Coherent, NEW e \in Executions, pc[e] \in {"propose", "clear"}, NEW pl,
         Linkable(e, using[e], pl)
  PROVE  /\ using[e] \in Requests /\ e[1] \in Requests /\ Started(e[1]) /\ status[e[1]] = "running"
         /\ DraftOf(e[1]) = using[e] /\ draft[using[e]] = "ready"
<1>1. using[e] \in Requests /\ e[1] \in Requests /\ None \notin Requests
  BY LedgerAssumption DEF Coherent, ThreadSubjects, Tasks
<1>2. /\ OwnsExecution(e) /\ draft[using[e]] = "ready"
      /\ target[e[1]] = using[e] \/ (target[e[1]] = None /\ using[e] = e[1])
  BY Zenon DEF Linkable
<1>3. status[e[1]] = "running"
  BY <1>2 DEF OwnsExecution
<1> QED
  BY <1>1, <1>2, <1>3 DEF DraftOf, Started

\* propose stores the plan and links it, or changes no record.
LEMMA RecordsPropose ==
  ASSUME TypeOK, Coherent, Records, NEW e \in Executions, Propose(e)
  PROVE  TasksStay /\ Records'
<1> DEFINE left == Assign(plan, OpenPlans(e[1]), "revoked")
<1>1. pc[e] = "propose" /\ UNCHANGED <<current, target, parent>>
  BY Zenon DEF Propose
<1>2. CASE Linkable(e, using[e], left)
  <2>1. PICK p \in Plans, S \in SUBSET Paths :
           /\ plan[p] = "none"
           /\ plan' = [Replacing(e) EXCEPT ![p] = "pending"]
           /\ planExec' = [planExec EXCEPT ![p] = e]
           /\ LinkPlan(e, using[e], p)
    BY <1>2, ProposeWrites
  <2>2. /\ using[e] \in Requests /\ e[1] \in Requests /\ Started(e[1])
        /\ DraftOf(e[1]) = using[e] /\ draft[using[e]] = "ready"
    BY <1>1, <1>2, LinkableDraft
  <2>3. /\ UNCHANGED draft /\ draftPlan' = [draftPlan EXCEPT ![using[e]] = p]
        /\ \E S1 : status' = ReviewStatus(S1, status, "completed")
    BY <2>1, Zenon DEF LinkPlan
  <2>4. Moves(status, status')
    BY <2>3, ReviewMoves
  <2>5. \A q \in Plans \ {p} : plan'[q] = Replacing(e)[q]
    BY <2>1
  <2>6. \A q \in Plans \ {p} : \/ plan'[q] = plan[q] /\ q # draftPlan[using[e]]
                               \/ plan[q] # "none" /\ plan'[q] = "revoked"
    <3> SUFFICES ASSUME NEW q \in Plans \ {p}
                 PROVE  \/ plan'[q] = plan[q] /\ q # draftPlan[using[e]]
                        \/ plan[q] # "none" /\ plan'[q] = "revoked"
      OBVIOUS
    <3>1. /\ plan'[q] = plan[q] \/ (plan[q] \in PlanOpen /\ plan'[q] = "revoked")
          /\ q = draftPlan[using[e]] => plan'[q] = "revoked"
      BY <1>2, <2>5, ReplacingMoves DEF Replacing
    <3>2. plan'[q] = "revoked" => plan[q] # "none"
      BY <3>1 DEF PlanOpen
    <3> QED
      BY <3>1, <3>2 DEF PlanOpen
  <2>7. /\ \A q \in Plans \ {p} : plan'[q] = "none" <=> plan[q] = "none"
        /\ \A q \in Plans \ {p} : plan'[q] \notin PlanShut => plan[q] \notin PlanShut /\ q # draftPlan[using[e]]
    BY <2>6 DEF PlanShut
  <2>8. p # None /\ plan'[p] # "none"
    BY <2>1, LedgerAssumption DEF Replacing, Assign, TypeOK, PlanTypeOK
  <2> QED
    BY <1>1, <2>1, <2>2, <2>3, <2>4, <2>7, <2>8, RecordsLinked
<1>3. CASE ~Linkable(e, using[e], left)
  <2>1. UNCHANGED Rows
    BY <1>3, Zenon DEF Propose, Rows, draftVars
  <2> QED
    BY <2>1, OrderlyUnmoved, RecordsKept DEF Orderly
<1> QED
  BY <1>2, <1>3

\* Unlinking the plan of a draft does as well.
LEMMA RecordsClear ==
  ASSUME TypeOK, Coherent, Records, NEW e \in Executions, Clear(e)
  PROVE  TasksStay /\ Records'
<1>1. pc[e] = "clear" /\ UNCHANGED <<current, target, parent, planExec>>
  BY Zenon DEF Clear
<1>2. CASE Linkable(e, using[e], plan)
  <2>1. plan' = Assign(plan, Replaced(using[e]), "revoked") /\ LinkPlan(e, using[e], None)
    BY <1>2, Zenon DEF Clear
  <2>2. /\ using[e] \in Requests /\ e[1] \in Requests /\ Started(e[1])
        /\ DraftOf(e[1]) = using[e] /\ draft[using[e]] = "ready"
    BY <1>1, <1>2, LinkableDraft
  <2>3. /\ UNCHANGED draft /\ draftPlan' = [draftPlan EXCEPT ![using[e]] = None]
        /\ \E S1 : status' = ReviewStatus(S1, status, "completed")
    BY <2>1, Zenon DEF LinkPlan
  <2>4. Moves(status, status')
    BY <2>3, ReviewMoves
  <2>6. \A q \in Plans : /\ plan'[q] = plan[q] \/ (plan[q] \in PlanOpen /\ plan'[q] = "revoked")
                         /\ q = draftPlan[using[e]] => plan'[q] = "revoked"
    BY <1>2, <2>1, ReplacingMoves
  <2>7. /\ \A q \in Plans \ {None} : plan'[q] = "none" <=> plan[q] = "none"
        /\ \A q \in Plans \ {None} : plan'[q] \notin PlanShut => plan[q] \notin PlanShut /\ q # draftPlan[using[e]]
    BY <2>6 DEF PlanShut, PlanOpen
  <2> QED
    BY <1>1, <2>2, <2>3, <2>4, <2>7, RecordsLinked
<1>3. CASE ~Linkable(e, using[e], plan)
  <2>1. UNCHANGED Rows
    BY <1>3, Zenon DEF Clear, Rows, draftVars
  <2> QED
    BY <2>1, OrderlyUnmoved, RecordsKept DEF Orderly
<1> QED
  BY <1>2, <1>3

-----------------------------------------------------------------------------
\* A thread inside apply() holds the lock of its plan's workspace, and the plan is being applied.
Applier(e) == pc[e] \in {"apply", "undo"}
Applying == \A e \in Executions : Applier(e) =>
  /\ plan[target[e[1]]] = "applying"
  /\ lock[Root(target[e[1]])] = e

\* Only these steps write plans, drafts and files.
PlanStep == \/ TaskStep
            \/ \E e \in Executions : RequestScope(e) \/ OpenOwnDraft(e) \/ Apply(e)
            \/ \E w \in Workers : Crash(w)
            \/ \E s \in Workspaces, x \in Paths : OutsideEdit(s, x)
            \/ \E q \in Plans : Observe(q) \/ Withdraw(q)
PlanRows == <<plan, planExec, planPaths, preimage, journal, resolved, draft, draftPlan, fileVars>>

\* The transactions of PlanStep are all that write plans, drafts, journals and files.
LEMMA PlanFrame == [Next]_vars => PlanStep \/ UNCHANGED PlanRows
<1> SUFFICES ASSUME [Next]_vars, ~PlanStep PROVE UNCHANGED PlanRows
  OBVIOUS
<1>1. ASSUME NEW w \in Workers, Process(w) PROVE UNCHANGED PlanRows
  BY <1>1, Zenon DEF Process, StartWorker, Heartbeat, HeartbeatLapses, StopWorker, CloseWorker,
     TaskStep, PlanStep, PlanRows, planVars, draftVars
<1>2. ASSUME NEW k \in Watchers, Watcher(k) PROVE UNCHANGED PlanRows
  BY <1>2, Zenon DEF Watcher, Poll, ClaimDelivery, Send, SettleDelivery, StopWatching, Watch,
     ledgerVars, PlanRows, planVars, draftVars
<1>3. CASE \E t \in Tasks : Dismiss(t) \/ AcknowledgeDelivery(t)
  BY <1>3, Zenon DEF Dismiss, AcknowledgeDelivery, ledgerVars, PlanRows, planVars, draftVars
<1>4. CASE Clock
  BY <1>4, Zenon DEF Clock, ClaimExpires, PlanExpires, DraftExpires, PlanStep, PlanRows, planVars, draftVars
<1>5. ASSUME NEW e \in Executions, Thread(e) \/ Monitor(e) PROVE UNCHANGED PlanRows
  <2>1. CASE Start(e) \/ ModelReturns(e) \/ Preview(e) \/ Settle(e) \/ Monitor(e)
    BY <2>1, Zenon DEF Start, ModelReturns, Preview, Settle, Monitor, PlanRows, planVars, draftVars
  <2> QED
    BY <1>5, <2>1, Zenon DEF Thread, Request, PlanStep, TaskStep
<1>6. CASE UNCHANGED vars
  BY <1>6, Zenon DEF vars, PlanRows, planVars, draftVars
<1> QED
  BY <1>1, <1>2, <1>3, <1>4, <1>5, <1>6, Zenon DEF Next, Owner, Maintenance, PlanStep, TaskStep

\* The journalled application moves its plan on, and its draft with it.
LEMMA OrderlyApply ==
  ASSUME TypeOK, Coherent, Applying, NEW e \in Executions, Apply(e)
  PROVE  Orderly
<1> DEFINE p == target[e[1]]
<1> USE DEF PlanShut
<1>1. UNCHANGED <<status, current, target, parent, planExec, draftPlan>>
  BY Zenon DEF Apply, ApplyBegin, ApplyBreaks, ApplyCommit, ApplyUndo, Mutate, JournalApplied, taskVars,
     planVars, draftVars
<1>2. Moves(status, status') /\ CountsStarted
  BY <1>1 DEF Moves, CountsStarted
<1>3. CASE ApplyBegin(e)
  <2>1. UNCHANGED draft /\ p \in Plans
        /\ (UNCHANGED plan \/ (plan[p] = "approved" /\ plan' = [plan EXCEPT ![p] = "applying"]))
    BY <1>3 DEF ApplyBegin, ApplyEligible, draftVars, Coherent, ThreadSubjects
  <2> QED
    BY <1>1, <1>2, <2>1, OrderlyMoves DEF DraftsMove, TypeOK, PlanTypeOK
<1>4. CASE ApplyCommit(e)
  <2>1. /\ plan[p] = "applying" /\ plan' = [plan EXCEPT ![p] = "applied"] /\ p \in Plans
        /\ \E S : draft' = Assign(draft, {d \in S : draft[d] = "ready"}, "applied")
    <3>1. draft' = Assign(draft, {d \in Requests : draftPlan[d] = p /\ draft[d] = "ready"}, "applied")
          => \E S : draft' = Assign(draft, {d \in S : draft[d] = "ready"}, "applied")
      <4>1. {d \in Requests : draftPlan[d] = p /\ draft[d] = "ready"}
              = {d \in {x \in Requests : draftPlan[x] = p} : draft[d] = "ready"}
        OBVIOUS
      <4> QED
        BY <4>1
    <3> QED
      BY <1>4, <3>1 DEF ApplyCommit, ApplyEligible, Coherent, ThreadSubjects
  <2>2. DraftsMove
    BY <2>1 DEF DraftsMove, Assign, TypeOK, DraftTypeOK
  <2> QED
    BY <1>1, <1>2, <2>1, <2>2, OrderlyMoves DEF TypeOK, PlanTypeOK
<1>5. CASE ApplyUndo(e)
  <2>1. UNCHANGED draft /\ p \in Plans /\ plan' = [plan EXCEPT ![p] = "uncertain"] /\ plan[p] = "applying"
    BY <1>5 DEF ApplyUndo, draftVars, Applying, Applier, Coherent, ThreadSubjects
  <2> QED
    BY <1>1, <1>2, <2>1, OrderlyMoves DEF DraftsMove, TypeOK, PlanTypeOK
<1>6. ASSUME NEW x \in Paths, Mutate(e, x) \/ JournalApplied(e, x) PROVE Orderly
  <2>1. UNCHANGED <<plan, draft>>
    BY <1>6, Zenon DEF Mutate, JournalApplied, planVars, draftVars
  <2> QED
    BY <1>1, <2>1, OrderlyUnmoved DEF Rows
<1>7. CASE ApplyBreaks(e)
  <2>1. UNCHANGED <<plan, draft>>
    BY <1>7, Zenon DEF ApplyBreaks, planVars, draftVars
  <2> QED
    BY <1>1, <2>1, OrderlyUnmoved DEF Rows
<1> QED
  BY <1>3, <1>4, <1>5, <1>6, <1>7, Zenon DEF Apply

\* Every step keeps the records in order.
LEMMA RecordsNext ==
  ASSUME TypeOK, Coherent, Concluded, Beyond, Records, NoDraftYet, Applying, [Next]_vars
  PROVE  TasksStay /\ Records'
<1>1. Orderly => TasksStay /\ Records'
  BY RecordsKept DEF Orderly
<1>2. ASSUME NEW e \in Executions, RequestScope(e) \/ OpenOwnDraft(e) PROVE TasksStay /\ Records'
  BY <1>2, RecordsCreateDraft
<1>3. ASSUME NEW e \in Executions, Propose(e) \/ Clear(e) PROVE TasksStay /\ Records'
  BY <1>3, RecordsPropose, RecordsClear
<1>4. ASSUME NEW e \in Executions, Apply(e) PROVE Orderly
  BY <1>4, OrderlyApply
<1>5. CASE TaskStep
  <2>1. CASE \/ Recover \/ \E t \in Tasks, w \in Workers : Claim(t, w)
             \/ \E e \in Executions : Finish(e)
             \/ \E t \in Tasks : RecordStartFailure(t)
    BY <1>1, <2>1, OrderlyWorker
  <2>2. CASE \/ SettleExpired \/ MaintainDrafts
             \/ \E t \in Tasks : Cancel(t)
             \/ \E t \in Tasks, w \in Workers : Resume(t, w)
             \/ \E p \in Plans : Revoke(p) \/ Resolve(p)
             \/ \E d \in Requests : CloseDraft(d)
             \/ \E e \in Executions, k \in {"approved", "rejected", "expired"} : DecideApproval(e, k)
    BY <1>1, <2>2, OrderlyOwner
  <2>3. CASE \/ \E t \in Tasks, w \in Workers : Submit(t, w) \/ SubmitUnlaunched(t, w)
             \/ \E p \in Plans, c \in Applies, w \in Workers : Approve(p, c, w)
             \/ \E d, c \in Requests, w \in Workers : OpenDraft(d, c, w)
    BY <1>1, <2>3, OrderlySubmission
  <2> QED
    BY <1>3, <1>5, <2>1, <2>2, <2>3, Zenon DEF TaskStep
<1>6. CASE UNCHANGED TaskRows
  <2>1. CASE UNCHANGED PlanRows
    BY <1>1, <1>6, <2>1, OrderlyUnmoved DEF Rows, TaskRows, PlanRows
  <2>2. CASE \/ \E w \in Workers : Crash(w)
             \/ \E s \in Workspaces, x \in Paths : OutsideEdit(s, x)
             \/ \E q \in Plans : Observe(q) \/ Withdraw(q)
    <3>1. UNCHANGED Rows
      BY <2>2, Zenon DEF Crash, OutsideEdit, Observe, Withdraw, LetGo, Rows, taskVars, planVars, draftVars
    <3> QED
      BY <1>1, <3>1, OrderlyUnmoved
  <2> QED
    BY <1>1, <1>2, <1>4, <1>5, <2>1, <2>2, PlanFrame DEF PlanStep
<1> QED
  BY <1>5, <1>6, TaskFrame

\* What a plan was made of never changes.
PlansStay == \A p \in Plans : plan[p] # "none" =>
  /\ plan'[p] # "none" /\ planExec'[p] = planExec[p]
  /\ planPaths'[p] = planPaths[p] /\ preimage'[p] = preimage[p]

\* No transaction takes a plan back, moves it to another execution, or edits its changes.
LEMMA PlansStayNext ==
  ASSUME TypeOK, Coherent, Records, Records', [Next]_vars
  PROVE  PlansStay
<1>1. None \notin Executions /\ None \notin Plans
  BY LedgerAssumption
<1>2. \A p \in Plans : plan[p] # "none" => planExec[p] # None
  BY <1>1 DEF Records, Origin
<1>3. \A p \in Plans : planExec'[p] # None => plan'[p] # "none"
  BY DEF Records, Origin
<1>4. CASE UNCHANGED <<planExec, planPaths, preimage>>
  BY <1>2, <1>3, <1>4 DEF PlansStay
<1>5. ASSUME NEW e \in Executions, Propose(e),
             Linkable(e, using[e], Assign(plan, OpenPlans(e[1]), "revoked"))
      PROVE  PlansStay
  <2>1. PICK p \in Plans, S \in SUBSET Paths :
           /\ plan[p] = "none"
           /\ planExec' = [planExec EXCEPT ![p] = e]
           /\ planPaths' = [planPaths EXCEPT ![p] = S]
           /\ preimage' = [preimage EXCEPT ![p] = snapshot[using[e]]]
    BY <1>5, ProposeWrites
  <2> QED
    BY <1>2, <1>3, <2>1 DEF PlansStay, TypeOK, PlanTypeOK
<1>6. UNCHANGED <<planExec, planPaths, preimage>>
      \/ \E e \in Executions : Propose(e)
  <2> SUFFICES ASSUME ~\E e \in Executions : Propose(e) PROVE UNCHANGED <<planExec, planPaths, preimage>>
    OBVIOUS
  <2>7. CASE SettleExpired \/ \E t \in Tasks : Cancel(t)
    BY <2>7, Zenon DEF SettleExpired, Cancel
  <2>1. CASE \/ Recover \/ MaintainDrafts
             \/ \E t \in Tasks : RecordStartFailure(t)
             \/ \E t \in Tasks, w \in Workers : Claim(t, w) \/ Submit(t, w) \/ SubmitUnlaunched(t, w) \/ Resume(t, w)
    <3>1. CASE Recover \/ MaintainDrafts \/ \E t \in Tasks : RecordStartFailure(t)
      BY <3>1, Zenon DEF Recover, MaintainDrafts, RecordStartFailure, planVars
    <3>2. CASE \E t \in Tasks, w \in Workers : Claim(t, w) \/ Submit(t, w)
      BY <3>2, Zenon DEF Claim, Submit, planVars
    <3>3. CASE \E t \in Tasks, w \in Workers : SubmitUnlaunched(t, w) \/ Resume(t, w)
      BY <3>3, Zenon DEF SubmitUnlaunched, Resume, planVars
    <3> QED
      BY <2>1, <3>1, <3>2, <3>3
  <2>8. CASE \E p \in Plans : Revoke(p) \/ Resolve(p)
    BY <2>8, Zenon DEF Revoke, Resolve
  <2>2. CASE \/ \E p \in Plans, c \in Applies, w \in Workers : Approve(p, c, w)
             \/ \E d \in Requests : CloseDraft(d)
             \/ \E d, c \in Requests, w \in Workers : OpenDraft(d, c, w)
             \/ \E e \in Executions, k \in {"approved", "rejected", "expired"} : DecideApproval(e, k)
    BY <2>2, Zenon DEF Approve, CloseDraft, OpenDraft, DecideApproval, planVars
  <2>3. CASE \E e \in Executions : Clear(e) \/ Finish(e) \/ RequestScope(e) \/ OpenOwnDraft(e)
    BY <2>3, Zenon DEF Clear, Finish, RequestScope, OpenOwnDraft, planVars
  <2>4. ASSUME NEW e \in Executions, Apply(e) PROVE UNCHANGED <<planExec, planPaths, preimage>>
    BY <2>4, Zenon DEF Apply, ApplyBegin, ApplyBreaks, ApplyCommit, ApplyUndo, Mutate, JournalApplied, planVars
  <2>5. CASE \/ \E w \in Workers : Crash(w)
             \/ \E s \in Workspaces, x \in Paths : OutsideEdit(s, x)
             \/ \E q \in Plans : Observe(q) \/ Withdraw(q)
    BY <2>5, Zenon DEF Crash, OutsideEdit, Observe, Withdraw, LetGo, planVars
  <2>6. CASE UNCHANGED PlanRows
    BY <2>6, Zenon DEF PlanRows
  <2> QED
    BY <2>1, <2>2, <2>3, <2>4, <2>5, <2>6, <2>7, <2>8, PlanFrame, Zenon DEF PlanStep, TaskStep
<1>7. ASSUME NEW e \in Executions, Propose(e),
             ~Linkable(e, using[e], Assign(plan, OpenPlans(e[1]), "revoked"))
      PROVE  UNCHANGED <<planExec, planPaths, preimage>>
  BY <1>7, Zenon DEF Propose
<1> QED
  BY <1>4, <1>5, <1>6, <1>7

\* Who changes the state of a plan, and how.
LEMMA PlanMoves ==
  ASSUME TypeOK, Coherent, Applying, [Next]_vars, NEW p \in Plans, plan'[p] # plan[p]
  PROVE  \/ plan[p] = "none" /\ plan'[p] = "pending"
         \/ plan[p] \in PlanOpen /\ plan'[p] \in {"approved", "revoked", "expired"}
         \/ \E e \in Executions : /\ target[e[1]] = p
                                  /\ \/ ApplyBegin(e) /\ plan[p] = "approved" /\ plan'[p] = "applying"
                                     \/ ApplyCommit(e) /\ plan[p] = "applying" /\ plan'[p] = "applied"
                                     \/ ApplyUndo(e) /\ plan[p] = "applying" /\ plan'[p] = "uncertain"
         \/ Resolve(p) /\ plan[p] \in {"applying", "uncertain", "applied"}
                       /\ plan'[p] \in {"applied", "reconciled"}
<1> DEFINE Closed == plan[p] \in PlanOpen /\ plan'[p] \in {"approved", "revoked", "expired"}
<1>1. \A S, v : v \in {"revoked", "expired"} /\ (\A q \in S : q \in Plans => plan[q] \in PlanOpen)
                /\ plan' = Assign(plan, S, v) => Closed
  BY DEF Assign, TypeOK, PlanTypeOK
<1>2. ASSUME SettleExpired PROVE Closed
  <2> DEFINE expired == {q \in Plans : plan[q] \in PlanOpen /\ ~planFresh[q]}
  <2>1. plan' = Assign(plan, expired, "expired")
    BY <1>2 DEF SettleExpired
  <2> QED
    BY <1>1, <2>1
<1>3. ASSUME NEW t \in Tasks, Cancel(t) PROVE Closed
  <2>1. plan' = Assign(plan, OpenPlans(t), "revoked")
    BY <1>3 DEF Cancel
  <2> QED
    BY <1>1, <2>1 DEF OpenPlans, PlanOpen
<1>4. ASSUME NEW d \in Requests, CloseDraft(d) PROVE Closed
  <2>1. plan' = Assign(plan, {q \in Plans : q = draftPlan[d] /\ plan[q] = "pending"}, "revoked")
    BY <1>4, Zenon DEF CloseDraft
  <2> QED
    BY <1>1, <2>1 DEF PlanOpen
<1>5. ASSUME NEW q \in Plans, Revoke(q) PROVE Closed
  BY <1>5 DEF Revoke, TypeOK, PlanTypeOK
<1>6. ASSUME NEW q \in Plans, NEW c, NEW w, Approve(q, c, w) PROVE Closed
  BY <1>6 DEF Approve, TypeOK, PlanTypeOK
<1>7. ASSUME NEW q \in Plans, Resolve(q)
      PROVE  Resolve(p) /\ plan[p] \in {"applying", "uncertain", "applied"} /\ plan'[p] \in {"applied", "reconciled"}
  <2>1. /\ plan[q] \in {"applying", "uncertain", "applied"}
        /\ \E v \in {"applied", "reconciled"} : plan' = [plan EXCEPT ![q] = v]
    BY <1>7 DEF Resolve
  <2>2. p = q
    BY <2>1 DEF TypeOK, PlanTypeOK
  <2> QED
    BY <1>7, <2>1, <2>2 DEF TypeOK, PlanTypeOK
<1>8. ASSUME NEW e \in Executions, Propose(e) PROVE Closed \/ (plan[p] = "none" /\ plan'[p] = "pending")
  <2>1. Linkable(e, using[e], Assign(plan, OpenPlans(e[1]), "revoked"))
    BY <1>8, Zenon DEF Propose
  <2>2. PICK q \in Plans : plan[q] = "none" /\ plan' = [Replacing(e) EXCEPT ![q] = "pending"]
    BY <1>8, <2>1, ProposeWrites
  <2>3. Replacing(e)[p] = plan[p] \/ (plan[p] \in PlanOpen /\ Replacing(e)[p] = "revoked")
    BY <2>1, ReplacingMoves DEF Replacing
  <2>4. p \in DOMAIN Replacing(e)
    BY DEF Replacing, Assign, TypeOK, PlanTypeOK
  <2> QED
    BY <2>2, <2>3, <2>4
<1>9. ASSUME NEW e \in Executions, Clear(e) PROVE Closed
  <2>1. Linkable(e, using[e], plan) /\ plan' = Assign(plan, Replaced(using[e]), "revoked")
    BY <1>9, Zenon DEF Clear
  <2> QED
    BY <2>1, ReplacingMoves
<1>10. ASSUME NEW e \in Executions, Apply(e)
       PROVE  /\ target[e[1]] = p
              /\ \/ ApplyBegin(e) /\ plan[p] = "approved" /\ plan'[p] = "applying"
                 \/ ApplyCommit(e) /\ plan[p] = "applying" /\ plan'[p] = "applied"
                 \/ ApplyUndo(e) /\ plan[p] = "applying" /\ plan'[p] = "uncertain"
  <2>1. CASE ApplyBegin(e)
    <3>1. plan[target[e[1]]] = "approved" /\ plan' = [plan EXCEPT ![target[e[1]]] = "applying"]
      BY <2>1 DEF ApplyBegin, ApplyEligible
    <3> QED
      BY <2>1, <3>1 DEF TypeOK, PlanTypeOK
  <2>2. CASE ApplyCommit(e)
    <3>1. plan[target[e[1]]] = "applying" /\ plan' = [plan EXCEPT ![target[e[1]]] = "applied"]
      BY <2>2 DEF ApplyCommit, ApplyEligible
    <3> QED
      BY <2>2, <3>1 DEF TypeOK, PlanTypeOK
  <2>3. CASE ApplyUndo(e)
    <3>1. plan[target[e[1]]] = "applying" /\ plan' = [plan EXCEPT ![target[e[1]]] = "uncertain"]
      BY <2>3 DEF ApplyUndo, Applying, Applier
    <3> QED
      BY <2>3, <3>1 DEF TypeOK, PlanTypeOK
  <2>4. \A x \in Paths : Mutate(e, x) \/ JournalApplied(e, x) => UNCHANGED plan
    BY Zenon DEF Mutate, JournalApplied, planVars
  <2>5. ApplyBreaks(e) => UNCHANGED plan
    BY Zenon DEF ApplyBreaks, planVars
  <2> QED
    BY <1>10, <2>1, <2>2, <2>3, <2>4, <2>5, Zenon DEF Apply
<1>11. \/ SettleExpired \/ \E t \in Tasks : Cancel(t)
       \/ \E q \in Plans : Revoke(q) \/ Resolve(q)
       \/ \E q \in Plans, c \in Applies, w \in Workers : Approve(q, c, w)
       \/ \E d \in Requests : CloseDraft(d)
       \/ \E e \in Executions : Propose(e) \/ Clear(e) \/ Apply(e)
  <2>1. CASE \/ Recover \/ MaintainDrafts
             \/ \E t \in Tasks : RecordStartFailure(t)
             \/ \E t \in Tasks, w \in Workers : Claim(t, w) \/ Submit(t, w) \/ SubmitUnlaunched(t, w) \/ Resume(t, w)
    <3>1. CASE Recover \/ MaintainDrafts \/ \E t \in Tasks : RecordStartFailure(t)
      BY <3>1, Zenon DEF Recover, MaintainDrafts, RecordStartFailure, planVars
    <3>2. CASE \E t \in Tasks, w \in Workers : Claim(t, w) \/ Submit(t, w)
      BY <3>2, Zenon DEF Claim, Submit, planVars
    <3>3. CASE \E t \in Tasks, w \in Workers : SubmitUnlaunched(t, w) \/ Resume(t, w)
      BY <3>3, Zenon DEF SubmitUnlaunched, Resume, planVars
    <3> QED
      BY <2>1, <3>1, <3>2, <3>3
  <2>2. CASE \/ \E d, c \in Requests, w \in Workers : OpenDraft(d, c, w)
             \/ \E e \in Executions, k \in {"approved", "rejected", "expired"} : DecideApproval(e, k)
             \/ \E e \in Executions : Finish(e) \/ RequestScope(e) \/ OpenOwnDraft(e)
    BY <2>2, Zenon DEF OpenDraft, DecideApproval, Finish, RequestScope, OpenOwnDraft, planVars
  <2>3. CASE \/ \E w \in Workers : Crash(w)
             \/ \E s \in Workspaces, x \in Paths : OutsideEdit(s, x)
             \/ \E q \in Plans : Observe(q) \/ Withdraw(q)
    BY <2>3, Zenon DEF Crash, OutsideEdit, Observe, Withdraw, LetGo, planVars
  <2>4. CASE UNCHANGED PlanRows
    BY <2>4, Zenon DEF PlanRows
  <2> QED
    BY <2>1, <2>2, <2>3, <2>4, PlanFrame, Zenon DEF PlanStep, TaskStep
<1> QED
  BY <1>2, <1>3, <1>4, <1>5, <1>6, <1>7, <1>8, <1>9, <1>10, <1>11, Zenon

\* A thread turns to files of its own only from a model call without a draft.
LEMMA NoDraftYetNext ==
  ASSUME TypeOK, Coherent, Beyond, Records, NoDraftYet, TasksStay, [Next]_vars
  PROVE  NoDraftYet'
<1> DEFINE Free(e) == pc[e] \in {"scope", "draft"} \/ (pc[e] = "model" /\ using[e] = None)
<1>1. ASSUME NEW e \in Executions, Free(e)' PROVE target[e[1]] = None /\ pc[e] # "none"
  <2>1. CASE UNCHANGED <<pc, reply, using>>
    BY <1>1, <2>1 DEF NoDraftYet
  <2>2. ASSUME NEW w \in Workers, Crash(w) PROVE target[e[1]] = None /\ pc[e] # "none"
    BY <1>1, <2>2 DEF Crash, NoDraftYet, Assign, TypeOK, ThreadTypeOK
  <2>3. ASSUME NEW w \in Workers, NEW t \in Tasks, Claim(t, w) PROVE target[e[1]] = None /\ pc[e] # "none"
    BY <1>1, <2>3 DEF Claim, NoDraftYet, TypeOK, ThreadTypeOK
  <2>4. ASSUME NEW x \in Executions, Thread(x) PROVE target[e[1]] = None /\ pc[e] # "none"
    <3>0. None \notin Requests
      BY LedgerAssumption DEF Tasks
    <3>1. CASE Start(x)
      BY <1>1, <3>0, <3>1 DEF Start, Conclude, NoDraftYet, Coherent, RequestTargets, ThreadSubjects,
         TypeOK, ThreadTypeOK, TaskTypeOK, Executions, Tasks
    <3>2. CASE ModelReturns(x)
      BY <1>1, <3>2 DEF ModelReturns, Conclude, NoDraftYet, TypeOK, ThreadTypeOK
    <3>3. CASE RequestScope(x) \/ OpenOwnDraft(x) \/ Preview(x) \/ Settle(x) \/ Finish(x)
      <4>1. /\ UNCHANGED using \/ (pc' = [pc EXCEPT ![x] = "propose"] /\ using' = [using EXCEPT ![x] = x[1]])
            /\ \E v \in {"settle", "finish", "done", "propose"} : pc' = [pc EXCEPT ![x] = v]
        BY <3>3 DEF RequestScope, OpenOwnDraft, Preview, Settle, Finish, Conclude
      <4> QED
        BY <1>1, <4>1 DEF NoDraftYet, TypeOK, ThreadTypeOK
    <3>4. CASE Propose(x) \/ Clear(x)
      <4>1. UNCHANGED using /\ (pc' = [pc EXCEPT ![x] = "preview"]
                                \/ Conclude(x, "blocked") \/ Conclude(x, "succeeded"))
        BY <3>4, Zenon DEF Propose, Clear, ThreadLocal
      <4> QED
        BY <1>1, <4>1 DEF Conclude, NoDraftYet, TypeOK, ThreadTypeOK
    <3>5. CASE Apply(x)
      <4>1. UNCHANGED using /\ (\/ UNCHANGED pc
                                \/ \E v \in {"apply", "undo", "finish"} : pc' = [pc EXCEPT ![x] = v]
                                \/ Conclude(x, "blocked") \/ Conclude(x, "succeeded") \/ Conclude(x, "failed"))
        BY <3>5, Zenon DEF Apply, ApplyBegin, ApplyBreaks, ApplyCommit, ApplyUndo, Mutate, JournalApplied,
           ThreadLocal
      <4> QED
        BY <1>1, <4>1 DEF Conclude, NoDraftYet, TypeOK, ThreadTypeOK
    <3> QED
      BY <2>4, <3>1, <3>2, <3>3, <3>4, <3>5 DEF Thread, Request
  <2> QED
    BY <2>1, <2>2, <2>3, <2>4, ThreadFrame
<1>2. ASSUME NEW e \in Executions, Free(e)' PROVE target'[e[1]] = None
  BY <1>1, <1>2, OwnedStarted DEF TasksStay
<1> QED
  BY <1>2 DEF NoDraftYet

-----------------------------------------------------------------------------
\* Workspace locks are taken when free, and freed by their holder or its death.
LEMMA LockMoves ==
  ASSUME TypeOK, [Next]_vars, NEW s \in Workspaces, lock'[s] # lock[s]
  PROVE  \/ \E x \in Executions : /\ s = Root(target[x[1]])
                                  /\ \/ ApplyBegin(x) /\ lock[s] = None
                                     \/ ApplyCommit(x) /\ plan' = [plan EXCEPT ![target[x[1]]] = "applied"]
                                                       /\ pc' = [pc EXCEPT ![x] = "finish"]
                                     \/ ApplyUndo(x)
         \/ \E w \in Workers : Crash(w) /\ runner[lock[s]] = w /\ lock[s] \in Executions
         \/ \E q \in Plans : /\ s = Root(q)
                             /\ \/ Observe(q) /\ lock[s] = None
                                \/ (Withdraw(q) \/ Resolve(q)) /\ lock[s] = q
<1>1. ASSUME NEW w \in Workers, Crash(w) PROVE runner[lock[s]] = w /\ lock[s] \in Executions
  BY <1>1 DEF Crash
<1>4. ASSUME NEW q \in Plans, Observe(q) \/ Withdraw(q) \/ Resolve(q)
      PROVE  /\ s = Root(q)
             /\ \/ Observe(q) /\ lock[s] = None
                \/ (Withdraw(q) \/ Resolve(q)) /\ lock[s] = q
  <2>1. \/ Observe(q) /\ lock[Root(q)] = None /\ lock' = [lock EXCEPT ![Root(q)] = q]
        \/ Withdraw(q) /\ LetGo(q)
        \/ Resolve(q) /\ LetGo(q)
    BY <1>4, Zenon DEF Observe, Withdraw, Resolve
  <2> QED
    BY <2>1 DEF LetGo, TypeOK, FileTypeOK
<1>2. ASSUME NEW x \in Executions, Apply(x)
      PROVE  /\ s = Root(target[x[1]])
             /\ \/ ApplyBegin(x) /\ lock[s] = None
                \/ ApplyCommit(x) /\ plan' = [plan EXCEPT ![target[x[1]]] = "applied"]
                                  /\ pc' = [pc EXCEPT ![x] = "finish"]
                \/ ApplyUndo(x)
  <2>1. CASE ApplyBegin(x)
    BY <2>1 DEF ApplyBegin, TypeOK, FileTypeOK
  <2>2. CASE ApplyCommit(x)
    BY <2>2 DEF ApplyCommit, Conclude, TypeOK, FileTypeOK
  <2>3. CASE ApplyUndo(x)
    BY <2>3 DEF ApplyUndo, TypeOK, FileTypeOK
  <2>4. \A y \in Paths : Mutate(x, y) \/ JournalApplied(x, y) => UNCHANGED lock
    BY Zenon DEF Mutate, JournalApplied, fileVars
  <2>5. ApplyBreaks(x) => UNCHANGED lock
    BY Zenon DEF ApplyBreaks, fileVars
  <2> QED
    BY <1>2, <2>1, <2>2, <2>3, <2>4, <2>5, Zenon DEF Apply
<1>3. \/ \E w \in Workers : Crash(w)
      \/ \E x \in Executions : Apply(x)
      \/ \E q \in Plans : Observe(q) \/ Withdraw(q) \/ Resolve(q)
  <2> SUFFICES ASSUME ~ \/ \E w \in Workers : Crash(w)
                        \/ \E x \in Executions : Apply(x)
                        \/ \E q \in Plans : Observe(q) \/ Withdraw(q) \/ Resolve(q)
               PROVE  UNCHANGED lock
    OBVIOUS
  <2>1. CASE \/ Recover \/ MaintainDrafts
             \/ \E t \in Tasks : RecordStartFailure(t)
             \/ \E t \in Tasks, w \in Workers : Claim(t, w) \/ Submit(t, w) \/ SubmitUnlaunched(t, w) \/ Resume(t, w)
    <3>1. CASE Recover \/ MaintainDrafts \/ \E t \in Tasks : RecordStartFailure(t)
      BY <3>1, Zenon DEF Recover, MaintainDrafts, RecordStartFailure, fileVars
    <3>2. CASE \E t \in Tasks, w \in Workers : Claim(t, w) \/ Submit(t, w)
      BY <3>2, Zenon DEF Claim, Submit, fileVars
    <3>3. CASE \E t \in Tasks, w \in Workers : SubmitUnlaunched(t, w) \/ Resume(t, w)
      BY <3>3, Zenon DEF SubmitUnlaunched, Resume, fileVars
    <3> QED
      BY <2>1, <3>1, <3>2, <3>3
  <2>2. CASE \/ SettleExpired \/ \E t \in Tasks : Cancel(t)
             \/ \E p \in Plans : Revoke(p)
    BY <2>2, Zenon DEF SettleExpired, Cancel, Revoke, fileVars
  <2>3. CASE \/ \E p \in Plans, c \in Applies, w \in Workers : Approve(p, c, w)
             \/ \E d \in Requests : CloseDraft(d)
             \/ \E d, c \in Requests, w \in Workers : OpenDraft(d, c, w)
             \/ \E e \in Executions, k \in {"approved", "rejected", "expired"} : DecideApproval(e, k)
             \/ \E r \in Workspaces, x \in Paths : OutsideEdit(r, x)
    BY <2>3, Zenon DEF Approve, CloseDraft, OpenDraft, DecideApproval, OutsideEdit, fileVars
  <2>4. CASE \E e \in Executions : Propose(e) \/ Clear(e) \/ Finish(e) \/ RequestScope(e) \/ OpenOwnDraft(e)
    BY <2>4, Zenon DEF Propose, Clear, Finish, RequestScope, OpenOwnDraft, fileVars
  <2>5. CASE UNCHANGED PlanRows
    BY <2>5, Zenon DEF PlanRows, fileVars
  <2> QED
    BY <2>1, <2>2, <2>3, <2>4, <2>5, PlanFrame, Zenon DEF PlanStep, TaskStep
<1> QED
  BY <1>1, <1>2, <1>3, <1>4, Zenon

\* A thread enters apply() only by journalling its plan, and leaves it by ending it.
LEMMA ApplierMoves ==
  ASSUME TypeOK, [Next]_vars, NEW e \in Executions, Applier(e)'
  PROVE  /\ Applier(e) \/ (ApplyBegin(e) /\ pc[e] = "begin")
         /\ ~ApplyUndo(e)
         /\ ~(ApplyCommit(e) /\ pc' = [pc EXCEPT ![e] = "finish"])
         /\ \A w \in Workers : Crash(w) => runner[e] # w
<1> USE DEF Applier
<1>1. ~ApplyUndo(e) /\ ~(ApplyCommit(e) /\ pc' = [pc EXCEPT ![e] = "finish"])
  BY DEF ApplyUndo, Conclude, TypeOK, ThreadTypeOK
<1>2. \A w \in Workers : Crash(w) => runner[e] # w /\ Applier(e)
  BY DEF Crash, Assign, Live, Resting, TypeOK, ThreadTypeOK
<1>3. CASE UNCHANGED <<pc, reply, using>>
  BY <1>1, <1>2, <1>3
<1>4. ASSUME NEW w \in Workers, NEW t \in Tasks, Claim(t, w) PROVE Applier(e)
  BY <1>4 DEF Claim, TypeOK, ThreadTypeOK
<1>5. ASSUME NEW x \in Executions, Thread(x) PROVE Applier(e) \/ (ApplyBegin(e) /\ pc[e] = "begin")
  <2>1. CASE Start(x) \/ ModelReturns(x) \/ RequestScope(x) \/ OpenOwnDraft(x) \/ Preview(x) \/ Settle(x) \/ Finish(x)
    <3>1. \E v \in Threads \ {"apply", "undo"} : pc' = [pc EXCEPT ![x] = v]
      BY <2>1 DEF Start, ModelReturns, RequestScope, OpenOwnDraft, Preview, Settle, Finish, Conclude, Threads
    <3> QED
      BY <3>1 DEF TypeOK, ThreadTypeOK
  <2>2. CASE Propose(x) \/ Clear(x)
    <3>1. pc' = [pc EXCEPT ![x] = "preview"] \/ Conclude(x, "blocked") \/ Conclude(x, "succeeded")
      BY <2>2, Zenon DEF Propose, Clear
    <3> QED
      BY <3>1 DEF Conclude, TypeOK, ThreadTypeOK
  <2>3. CASE Apply(x)
    <3>1. x = e => pc[e] \in {"apply", "undo"} \/ (ApplyBegin(e) /\ pc[e] = "begin")
      BY <2>3 DEF Apply, ApplyBegin, ApplyBreaks, ApplyCommit, ApplyUndo, Mutate, JournalApplied
    <3>2. \/ UNCHANGED pc
          \/ \E v \in {"apply", "undo", "finish"} : pc' = [pc EXCEPT ![x] = v]
          \/ Conclude(x, "blocked") \/ Conclude(x, "succeeded") \/ Conclude(x, "failed")
      BY <2>3, Zenon DEF Apply, ApplyBegin, ApplyBreaks, ApplyCommit, ApplyUndo, Mutate, JournalApplied,
         ThreadLocal
    <3> QED
      BY <3>1, <3>2 DEF Conclude, TypeOK, ThreadTypeOK
  <2> QED
    BY <1>5, <2>1, <2>2, <2>3 DEF Thread, Request
<1> QED
  BY <1>1, <1>2, <1>3, <1>4, <1>5, ThreadFrame

\* The lock and the state of the plan belong to the thread until it leaves apply().
LEMMA ApplyingNext ==
  ASSUME TypeOK, Coherent, Beyond, Records, Applying, TasksStay, PlansStay, [Next]_vars
  PROVE  Applying'
<1> SUFFICES ASSUME NEW e \in Executions, Applier(e)'
             PROVE  (plan[target[e[1]]] = "applying" /\ lock[Root(target[e[1]])] = e)'
  BY DEF Applying
<1> DEFINE p == target[e[1]]
<1>1. e[1] \in Tasks /\ p \in Plans /\ p' = p
  <2>1. pc[e] # "none" /\ p \in Plans
    BY ApplierMoves DEF Applier, Coherent, ThreadSubjects
  <2> QED
    BY <2>1, OwnedStarted DEF TasksStay
<1>2. plan[p] # "none" => /\ Root(p)' = Root(p) /\ Root(p) \in Workspaces
  BY <1>1, LedgerAssumption DEF PlansStay, Root, TaskOf, Records, Origin
<1>3. CASE Applier(e)
  <2>1. plan[p] = "applying" /\ lock[Root(p)] = e /\ Root(p)' = Root(p) /\ Root(p) \in Workspaces
    BY <1>2, <1>3 DEF Applying
  <2>2. e # None /\ e \notin Plans
    BY LedgerAssumption
  <2>3. plan'[p] = plan[p]
    <3> SUFFICES ASSUME plan'[p] # plan[p] PROVE FALSE
      OBVIOUS
    <3>1. CASE Resolve(p)
      <4>1. LetGo(p)
        BY <3>1, Zenon DEF Resolve
      <4> QED
        BY <1>1, <2>1, <2>2, <4>1 DEF LetGo
    <3>2. ASSUME NEW x \in Executions, target[x[1]] = p, (ApplyCommit(x) /\ plan'[p] = "applied") \/ ApplyUndo(x)
          PROVE  FALSE
      <4>1. Applier(x)
        BY <3>2 DEF ApplyCommit, ApplyUndo, Applier
      <4>2. x = e
        BY <2>1, <3>2, <4>1 DEF Applying
      <4>3. ApplyCommit(e) /\ plan'[p] # plan[p] => pc' = [pc EXCEPT ![e] = "finish"]
        BY DEF ApplyCommit, Conclude
      <4> QED
        BY <3>2, <4>2, <4>3, ApplierMoves
    <3> QED
      BY <1>1, <2>1, <3>1, <3>2, PlanMoves DEF PlanOpen
  <2>4. lock'[Root(p)] = lock[Root(p)]
    <3> SUFFICES ASSUME lock'[Root(p)] # lock[Root(p)] PROVE FALSE
      OBVIOUS
    <3>1. \A w \in Workers : ~(Crash(w) /\ runner[lock[Root(p)]] = w)
      BY <2>1, ApplierMoves
    <3>2. ASSUME NEW x \in Executions, Root(p) = Root(target[x[1]]),
                 (ApplyCommit(x) /\ pc' = [pc EXCEPT ![x] = "finish"]) \/ ApplyUndo(x)
          PROVE  FALSE
      <4>1. Applier(x)
        BY <3>2 DEF ApplyCommit, ApplyUndo, Applier
      <4>2. x = e
        BY <2>1, <3>2, <4>1 DEF Applying
      <4> QED
        BY <3>2, <4>2, ApplierMoves
    <3> QED
      BY <2>1, <2>2, <3>1, <3>2, LockMoves
  <2> QED
    BY <1>1, <2>1, <2>3, <2>4
<1>4. CASE ~Applier(e)
  <2>1. ApplyBegin(e) /\ pc[e] = "begin"
    BY <1>4, ApplierMoves
  <2>2. /\ plan[p] = "approved" /\ plan' = [plan EXCEPT ![p] = "applying"]
        /\ lock' = [lock EXCEPT ![Root(p)] = e]
    BY <2>1 DEF ApplyBegin, ApplyEligible, Conclude, Applier, TypeOK, ThreadTypeOK
  <2> QED
    BY <1>1, <1>2, <2>2 DEF TypeOK, PlanTypeOK, FileTypeOK
<1> QED
  BY <1>3, <1>4

-----------------------------------------------------------------------------
\* The inductive invariant of this module,
Lineage == /\ TypeOK /\ Coherent
           /\ Concluded /\ Beyond /\ Records /\ NoDraftYet /\ Applying

\* and what its steps never do.
Forward == /\ TasksStay /\ PlansStay /\ CurrentGrows
           /\ ExecutionsMove /\ ApprovalsMove /\ ThreadsMove

\* The empty ledger has no lineage to keep.
LEMMA LineageInit == Init => Lineage
<1> SUFFICES ASSUME Init PROVE Lineage
  OBVIOUS
<1>1. Concluded /\ Beyond
  BY DEF Init, Concluded, Beyond
<1>2. Records
  BY DEF Init, Records, Begun, Started, Origin, DraftRoots, DraftPlans, Planned, Latest, PlanShut,
     ApplyParent, Tasks
<1>3. NoDraftYet /\ Applying
  BY DEF Init, NoDraftYet, Applying, Applier
<1> QED
  BY <1>1, <1>2, <1>3, TypesInit DEF Lineage

\* Every step of every process keeps it.
LEMMA LineageNext ==
  ASSUME Lineage, [Next]_vars
  PROVE  Lineage' /\ Forward
<1> USE DEF Lineage
<1>1. TypeOK' /\ Coherent' /\ Concluded' /\ ThreadsMove
  BY TypesNext, ConcludedNext, ThreadsMoveNext
<1>2. ExecutionsMove /\ ApprovalsMove /\ CurrentGrows
  <2>1. CASE TaskStep
    BY <2>1, ResultsMove
  <2>2. CASE UNCHANGED TaskRows
    BY <2>2 DEF TaskRows, ExecutionsMove, ApprovalsMove, CurrentGrows, TypeOK, TaskTypeOK
  <2> QED
    BY <2>1, <2>2, TaskFrame
<1>3. Beyond'
  BY <1>1, <1>2, BeyondKept
<1>4. TasksStay /\ Records'
  BY RecordsNext
<1>5. PlansStay
  BY <1>4, PlansStayNext
<1>6. NoDraftYet' /\ Applying'
  BY <1>4, <1>5, NoDraftYetNext, ApplyingNext
<1> QED
  BY <1>1, <1>2, <1>3, <1>4, <1>5, <1>6 DEF Forward

\* The lineage is an invariant of every instance of the control plane.
LEMMA LineageAlways == Spec => []Lineage
<1>1. Init => Lineage
  BY LineageInit
<1>2. Lineage /\ [Next]_vars => Lineage'
  BY LineageNext
<1> QED
  BY <1>1, <1>2, PTL DEF Spec

\* No transaction of any process rewrites the record of an execution that ended: what
\* finish, recover or cancel said of it stays.
THEOREM TerminalExecutionsCorrect == Spec => TerminalExecutions
<1>1. Lineage /\ [Next]_vars =>
        \A e \in Executions : execution[e] \in ExecTerminal => execution'[e] = execution[e]
  BY LineageNext DEF Forward, ExecutionsMove
<1> QED
  BY <1>1, LineageAlways, PTL DEF Spec, TerminalExecutions

\* However proposals, feedback, decisions, expiry and applications interleave, a draft has
\* one plan that can still be decided on, applied or reconciled.
THEOREM OnePlanPerDraftCorrect == Spec => []OnePlanPerDraft
<1>1. Lineage => OnePlanPerDraft
  BY DEF Lineage, Records, Latest, PlanShut, OnePlanPerDraft
<1> QED
  BY <1>1, LineageAlways, PTL

-----------------------------------------------------------------------------
\* A plan nobody applied has no journal,
Unjournalled == \A p \in Plans : plan[p] \in {"none", "pending", "approved", "revoked", "expired"}
                                 => \A x \in Paths : journal[p][x] = "none"

\* and what the journal of a running application calls applied is in the file.
Written == \A e \in Executions : Applier(e) =>
  \A x \in Paths : journal[target[e[1]]][x] = "applied"
                   => disk[Root(target[e[1]])][x] = target[e[1]]

\* What observe() has found is found under the workspace lock, where no application
\* writes until resolve() has recorded it or given up.
Evidence == \A p \in Plans : \A x \in shown[p] :
  /\ plan[p] # "none" /\ lock[Root(p)] = p
  /\ disk[Root(p)][x] \in {p, "edited"}

\* With the properties they support, the second inductive invariant.
Filed == /\ Unjournalled /\ Written /\ Evidence
         /\ OneUnsettledPlan /\ EffectsRecorded /\ AppliedDraft

\* Files are written by applications and by other programs, the journal by applications.
LEMMA FileMoves ==
  ASSUME [Next]_vars
  PROVE  /\ \/ UNCHANGED disk
            \/ \E e \in Executions, x \in Paths : Mutate(e, x)
            \/ \E s \in Workspaces, x \in Paths : OutsideEdit(s, x)
         /\ \/ UNCHANGED journal
            \/ \E e \in Executions : ApplyBegin(e)
            \/ \E e \in Executions, x \in Paths : JournalApplied(e, x)
<1>1. CASE UNCHANGED <<disk, journal>>
  BY <1>1
<1>2. ASSUME NEW e \in Executions, Apply(e)
      PROVE  /\ UNCHANGED disk \/ \E x \in Paths : Mutate(e, x)
             /\ UNCHANGED journal \/ ApplyBegin(e) \/ \E x \in Paths : JournalApplied(e, x)
  BY <1>2, Zenon DEF Apply, ApplyBegin, ApplyBreaks, ApplyCommit, ApplyUndo, Mutate, JournalApplied, planVars, fileVars
<1>3. ASSUME NEW s \in Workspaces, NEW x \in Paths, OutsideEdit(s, x) PROVE UNCHANGED journal
  BY <1>3, Zenon DEF OutsideEdit, planVars
<1>4. UNCHANGED <<disk, journal>> \/ (\E e \in Executions : Apply(e))
      \/ \E s \in Workspaces, x \in Paths : OutsideEdit(s, x)
  <2> SUFFICES ASSUME ~\E e \in Executions : Apply(e),
                      ~\E s \in Workspaces, x \in Paths : OutsideEdit(s, x)
               PROVE  UNCHANGED <<disk, journal>>
    OBVIOUS
  <2>1. CASE \/ Recover \/ MaintainDrafts
             \/ \E t \in Tasks : RecordStartFailure(t)
             \/ \E t \in Tasks, w \in Workers : Claim(t, w) \/ Submit(t, w) \/ SubmitUnlaunched(t, w) \/ Resume(t, w)
    <3>1. CASE Recover \/ MaintainDrafts \/ \E t \in Tasks : RecordStartFailure(t)
      BY <3>1, Zenon DEF Recover, MaintainDrafts, RecordStartFailure, planVars, fileVars
    <3>2. CASE \E t \in Tasks, w \in Workers : Claim(t, w) \/ Submit(t, w)
      BY <3>2, Zenon DEF Claim, Submit, planVars, fileVars
    <3>3. CASE \E t \in Tasks, w \in Workers : SubmitUnlaunched(t, w) \/ Resume(t, w)
      BY <3>3, Zenon DEF SubmitUnlaunched, Resume, planVars, fileVars
    <3> QED
      BY <2>1, <3>1, <3>2, <3>3
  <2>2. CASE SettleExpired \/ \E t \in Tasks : Cancel(t)
    BY <2>2, Zenon DEF SettleExpired, Cancel, fileVars
  <2>3. CASE \E p \in Plans : Revoke(p) \/ Observe(p) \/ Withdraw(p) \/ Resolve(p)
    BY <2>3, Zenon DEF Revoke, Observe, Withdraw, Resolve, planVars, fileVars
  <2>4. CASE \/ \E p \in Plans, c \in Applies, w \in Workers : Approve(p, c, w)
             \/ \E d \in Requests : CloseDraft(d)
             \/ \E d, c \in Requests, w \in Workers : OpenDraft(d, c, w)
             \/ \E e \in Executions, k \in {"approved", "rejected", "expired"} : DecideApproval(e, k)
    BY <2>4, Zenon DEF Approve, CloseDraft, OpenDraft, DecideApproval, planVars, fileVars
  <2>5. CASE \E e \in Executions : Propose(e) \/ Clear(e) \/ Finish(e) \/ RequestScope(e) \/ OpenOwnDraft(e)
    BY <2>5, Zenon DEF Propose, Clear, Finish, RequestScope, OpenOwnDraft, planVars, fileVars
  <2>6. CASE \E w \in Workers : Crash(w)
    BY <2>6, Zenon DEF Crash, planVars
  <2>7. CASE UNCHANGED PlanRows
    BY <2>7, Zenon DEF PlanRows, fileVars
  <2> QED
    BY <2>1, <2>2, <2>3, <2>4, <2>5, <2>6, <2>7, PlanFrame, Zenon DEF PlanStep, TaskStep
<1> QED
  BY <1>1, <1>2, <1>3, <1>4, Zenon

\* The workspace of a proposed plan is its for good.
LEMMA RootStays ==
  ASSUME Lineage, Forward, NEW p \in Plans, plan[p] # "none"
  PROVE  Root(p) \in Workspaces /\ Root(p)' = Root(p) /\ plan'[p] # "none"
         /\ planPaths'[p] = planPaths[p] /\ preimage'[p] = preimage[p]
<1>1. TaskOf(p) \in Requests /\ TaskOf(p)' = TaskOf(p) /\ plan'[p] # "none"
      /\ planPaths'[p] = planPaths[p] /\ preimage'[p] = preimage[p]
  BY DEF Lineage, Records, Origin, Forward, PlansStay, TaskOf
<1> QED
  BY <1>1, LedgerAssumption DEF Root

\* Only an application that begins opens a journal.
LEMMA UnjournalledNext ==
  ASSUME Lineage, Unjournalled, [Next]_vars
  PROVE  Unjournalled'
<1> SUFFICES ASSUME NEW p \in Plans, NEW x \in Paths,
                    plan'[p] \in {"none", "pending", "approved", "revoked", "expired"}
             PROVE  journal'[p][x] = "none"
  BY DEF Unjournalled
<1>1. plan[p] \in {"none", "pending", "approved", "revoked", "expired"}
  BY PlanMoves DEF Lineage, PlanOpen
<1>2. journal[p][x] = "none"
  BY <1>1 DEF Unjournalled
<1>3. ASSUME NEW e \in Executions, ApplyBegin(e) PROVE journal'[p][x] = journal[p][x]
  BY <1>3 DEF ApplyBegin, Lineage, TypeOK, PlanTypeOK
<1>4. ASSUME NEW e \in Executions, NEW y \in Paths, JournalApplied(e, y)
      PROVE  journal'[p][x] = journal[p][x]
  <2>1. plan[target[e[1]]] = "applying"
    BY <1>4 DEF JournalApplied, Lineage, Applying, Applier
  <2> QED
    BY <1>1, <1>4, <2>1 DEF JournalApplied, Lineage, TypeOK, PlanTypeOK
<1> QED
  BY <1>2, <1>3, <1>4, FileMoves

\* An application begins where no other one is unsettled, with an empty journal.
LEMMA BeginWrites ==
  ASSUME Lineage, Unjournalled, NEW e \in Executions, ApplyBegin(e), plan' # plan
  PROVE  LET p == target[e[1]] IN
         /\ p \in Plans /\ plan[p] = "approved" /\ plan' = [plan EXCEPT ![p] = "applying"]
         /\ NoRival(p)
         /\ \A x \in Paths : journal[p][x] = "none"
         /\ journal' = [journal EXCEPT ![p] = Assign(@, planPaths[p], "prepared")]
         /\ UNCHANGED disk
<1> DEFINE p == target[e[1]]
<1>1. p \in Plans /\ plan[p] = "approved" /\ plan' = [plan EXCEPT ![p] = "applying"] /\ NoRival(p)
      /\ journal' = [journal EXCEPT ![p] = Assign(@, planPaths[p], "prepared")] /\ UNCHANGED disk
  BY DEF ApplyBegin, ApplyEligible, Lineage, Coherent, ThreadSubjects
<1> QED
  BY <1>1 DEF Unjournalled

\* _apply_eligible admits a plan to a workspace only when no other is unsettled there.
LEMMA OneUnsettledPlanNext ==
  ASSUME Lineage, Unjournalled, OneUnsettledPlan, [Next]_vars
  PROVE  OneUnsettledPlan'
<1> DEFINE Open(p) == plan[p] \in {"applying", "uncertain"}
<1> SUFFICES ASSUME NEW p \in Plans, NEW q \in Plans, p # q, Open(p)', Open(q)'
             PROVE  (Root(p) # Root(q))'
  BY DEF OneUnsettledPlan
<1>1. Forward
  BY LineageNext
<1>2. \A r \in Plans : Open(r)' /\ ~Open(r) =>
        \E e \in Executions : ApplyBegin(e) /\ r = target[e[1]] /\ plan[r] = "approved" /\ plan' # plan
  BY PlanMoves DEF Lineage, PlanOpen
<1>3. \A r \in Plans : Open(r) \/ plan[r] = "approved" => Root(r)' = Root(r)
  BY <1>1, RootStays
<1>4. \A r \in Plans, s \in Plans : r # s /\ Open(r)' /\ Open(s)' /\ ~Open(r)
        => Root(r) # Root(s) /\ Root(r)' = Root(r) /\ Root(s)' = Root(s)
  <2> SUFFICES ASSUME NEW r \in Plans, NEW s \in Plans, r # s, Open(r)', Open(s)', ~Open(r)
               PROVE  Root(r) # Root(s) /\ Root(r)' = Root(r) /\ Root(s)' = Root(s)
    OBVIOUS
  <2>1. PICK e \in Executions : ApplyBegin(e) /\ r = target[e[1]] /\ plan[r] = "approved" /\ plan' # plan
    BY <1>2
  <2>2. plan' = [plan EXCEPT ![r] = "applying"] /\ NoRival(r)
    BY <2>1, BeginWrites
  <2>3. Open(s)
    BY <2>2 DEF Lineage, TypeOK, PlanTypeOK
  <2> QED
    BY <1>3, <2>1, <2>2, <2>3 DEF NoRival
<1>5. CASE Open(p) /\ Open(q)
  BY <1>3, <1>5 DEF OneUnsettledPlan
<1> QED
  BY <1>4, <1>5

\* A guarded file operation acts for the only application of its workspace.
LEMMA MutateWrites ==
  ASSUME Lineage, NEW e \in Executions, NEW x \in Paths, Mutate(e, x)
  PROVE  LET p == target[e[1]] IN
         /\ p \in Plans /\ plan[p] = "applying" /\ pc[e] = "apply" /\ lock[Root(p)] = e
         /\ Root(p) \in Workspaces /\ x \in planPaths[p] /\ journal[p][x] = "prepared"
         /\ UNCHANGED <<plan, journal>>
         /\ Expected(p, x, disk[Root(p)][x])
         /\ \E v \in {"partial", p} : disk' = [disk EXCEPT ![Root(p)][x] = v]
<1> DEFINE p == target[e[1]]
<1>1. p \in Plans /\ plan[p] = "applying" /\ lock[Root(p)] = e /\ pc[e] = "apply"
  BY DEF Mutate, Lineage, Coherent, ThreadSubjects, Applying, Applier
<1>2. Root(p) \in Workspaces
  BY <1>1, LedgerAssumption DEF Lineage, Records, Origin, Root
<1> QED
  BY <1>1, <1>2 DEF Mutate, Turn, planVars

\* No effect is forgotten while the journal keeps growing.
LEMMA EffectsRecordedNext ==
  ASSUME Lineage, Unjournalled, EffectsRecorded, [Next]_vars
  PROVE  EffectsRecorded'
<1> DEFINE Known == {"applying", "uncertain", "applied", "reconciled"}
           Owner0(p, s, x, v) == /\ plan[p] \in Known /\ Root(p) = s
                                 /\ journal[p][x] # "none" /\ v \in {"partial", p}
<1> SUFFICES ASSUME NEW s \in Workspaces, NEW x \in Paths, disk'[s][x] \in {"partial"} \cup Plans
             PROVE  \E p \in Plans : Owner0(p, s, x, disk[s][x])'
  BY DEF EffectsRecorded
<1>1. Forward
  BY LineageNext
<1>2. \A p \in Plans : plan[p] \in Known => plan'[p] \in Known
  BY PlanMoves DEF Lineage, PlanOpen
<1>3. ASSUME NEW p \in Plans, journal[p][x] # "none" PROVE journal'[p][x] # "none"
  <2>1. ASSUME NEW e \in Executions, ApplyBegin(e) PROVE journal'[p][x] # "none"
    <3>1. UNCHANGED journal \/ journal' = [journal EXCEPT ![target[e[1]]] =
                                             Assign(@, planPaths[target[e[1]]], "prepared")]
      BY <2>1 DEF ApplyBegin
    <3> QED
      BY <1>3, <3>1 DEF Assign, Lineage, TypeOK, PlanTypeOK
  <2>2. ASSUME NEW e \in Executions, NEW y \in Paths, JournalApplied(e, y) PROVE journal'[p][x] # "none"
    BY <1>3, <2>2 DEF JournalApplied, Lineage, TypeOK, PlanTypeOK
  <2> QED
    BY <1>3, <2>1, <2>2, FileMoves
<1>4. ASSUME NEW p \in Plans, NEW v, Owner0(p, s, x, v)
      PROVE  plan'[p] \in Known /\ Root(p)' = s /\ journal'[p][x] # "none" /\ v \in {"partial", p}
  BY <1>1, <1>2, <1>3, <1>4, RootStays
<1>5. CASE disk'[s][x] = disk[s][x]
  <2>1. PICK p \in Plans : Owner0(p, s, x, disk[s][x])
    BY <1>5 DEF EffectsRecorded
  <2> QED
    BY <1>4, <1>5, <2>1
<1>6. ASSUME NEW e \in Executions, NEW y \in Paths, Mutate(e, y), disk'[s][x] # disk[s][x]
      PROVE  \E p \in Plans : Owner0(p, s, x, disk[s][x])'
  <2> DEFINE p == target[e[1]]
  <2>1. /\ p \in Plans /\ plan[p] = "applying" /\ journal[p][y] = "prepared"
        /\ \E v \in {"partial", p} : disk' = [disk EXCEPT ![Root(p)][y] = v]
    BY <1>6, MutateWrites
  <2>2. Root(p) = s /\ y = x /\ disk'[s][x] \in {"partial", p}
    BY <1>6, <2>1 DEF Lineage, TypeOK, FileTypeOK
  <2>3. Owner0(p, s, x, disk'[s][x])
    BY <2>1, <2>2
  <2> QED
    BY <1>4, <2>1, <2>3
<1>7. ASSUME NEW r \in Workspaces, NEW y \in Paths, OutsideEdit(r, y), disk'[s][x] # disk[s][x]
      PROVE  FALSE
  <2>1. disk'[s][x] = "edited"
    BY <1>7 DEF OutsideEdit, Lineage, TypeOK, FileTypeOK
  <2> QED
    BY <2>1, LedgerAssumption
<1> QED
  BY <1>5, <1>6, <1>7, FileMoves

\* Under its workspace lock an application finds its files as it left them.
LEMMA WrittenNext ==
  ASSUME Lineage, Unjournalled, Written, [Next]_vars
  PROVE  Written'
<1> SUFFICES ASSUME NEW e \in Executions, Applier(e)', NEW x \in Paths,
                    (journal[target[e[1]]][x] = "applied")'
             PROVE  (disk[Root(target[e[1]])][x] = target[e[1]])'
  BY DEF Written
<1> DEFINE p == target[e[1]]
<1>1. Forward
  BY LineageNext
<1>2. e[1] \in Tasks /\ p \in Plans /\ p' = p /\ plan[p] # "none"
  <2>1. pc[e] # "none" /\ p \in Plans
    BY ApplierMoves DEF Applier, Lineage, Coherent, ThreadSubjects
  <2>2. p' = p
    BY <1>1, <2>1, OwnedStarted DEF Lineage, Forward, TasksStay
  <2>3. plan'[p] = "applying"
    BY <2>2, LineageNext DEF Lineage, Applying
  <2> QED
    BY <2>1, <2>2, <2>3, OwnedStarted, PlanMoves DEF Lineage, PlanOpen
<1>3. Root(p) \in Workspaces /\ Root(p)' = Root(p)
  BY <1>1, <1>2, RootStays
<1>4. CASE ~Applier(e)
  <2>1. ApplyBegin(e) /\ pc'[e] # "finish"
    BY <1>4, ApplierMoves DEF Applier, Lineage
  <2>2. plan' # plan
    BY <1>2, <2>1 DEF ApplyBegin, ApplyEligible, Conclude, Lineage, TypeOK, PlanTypeOK, ThreadTypeOK
  <2>3. journal'[p][x] # "applied"
    <3>1. /\ journal[p][x] = "none" /\ journal[p] \in [Paths -> {"none", "prepared", "applied"}]
          /\ journal' = [journal EXCEPT ![p] = Assign(journal[p], planPaths[p], "prepared")]
      BY <1>2, <2>1, <2>2, BeginWrites DEF Lineage, TypeOK, PlanTypeOK
    <3>2. journal'[p] = Assign(journal[p], planPaths[p], "prepared")
      BY <1>2, <3>1 DEF Lineage, TypeOK, PlanTypeOK
    <3> QED
      BY <3>1, <3>2 DEF Assign
  <2> QED
    BY <1>2, <2>3
<1>5. CASE Applier(e)
  <2>1. plan[p] = "applying" /\ lock[Root(p)] = e /\ e # None
    BY <1>5, LedgerAssumption DEF Lineage, Applying
  <2>2. journal[p][x] = "applied" => disk[Root(p)][x] = p
    BY <1>5 DEF Written
  <2>3. journal'[p][x] = "applied" => disk[Root(p)][x] = p
    <3>1. ASSUME NEW f \in Executions, ApplyBegin(f) PROVE journal'[p][x] = journal[p][x]
      <4>1. UNCHANGED journal
            \/ (target[f[1]] # p /\ \E v : journal' = [journal EXCEPT ![target[f[1]]] = v])
        BY <2>1, <3>1 DEF ApplyBegin, ApplyEligible
      <4> QED
        BY <1>2, <4>1 DEF Lineage, TypeOK, PlanTypeOK
    <3>2. ASSUME NEW f \in Executions, NEW y \in Paths, JournalApplied(f, y)
          PROVE  journal'[p][x] = journal[p][x] \/ disk[Root(p)][x] = p
      BY <3>2 DEF JournalApplied, Lineage, TypeOK, PlanTypeOK
    <3> QED
      BY <2>2, <3>1, <3>2, FileMoves
  <2>4. disk[Root(p)][x] = p /\ journal'[p][x] = "applied" => disk'[Root(p)][x] = p
    <3>1. ASSUME NEW f \in Executions, NEW y \in Paths, Mutate(f, y), journal'[p][x] = "applied"
          PROVE  disk'[Root(p)][x] = disk[Root(p)][x]
      <4> DEFINE q == target[f[1]]
      <4>1. /\ lock[Root(q)] = f /\ journal[q][y] = "prepared" /\ UNCHANGED journal
            /\ Root(q) \in Workspaces
            /\ \E v \in {"partial", q} : disk' = [disk EXCEPT ![Root(q)][y] = v]
        BY <3>1, MutateWrites
      <4>2. Root(q) = Root(p) => q = p /\ y # x
        BY <2>1, <3>1, <4>1
      <4>3. ASSUME NEW v, disk' = [disk EXCEPT ![Root(q)][y] = v]
            PROVE  disk'[Root(p)][x] = disk[Root(p)][x]
        BY <1>3, <4>1, <4>2, <4>3 DEF Lineage, TypeOK, FileTypeOK
      <4> QED
        BY <4>1, <4>3
    <3>2. ASSUME NEW s \in Workspaces, NEW y \in Paths, OutsideEdit(s, y), disk[Root(p)][x] = p
          PROVE  disk'[Root(p)][x] = disk[Root(p)][x]
      <4>1. s = Root(p) => disk[s][y] \notin Plans
        BY <2>1, <3>2 DEF OutsideEdit
      <4> QED
        BY <1>2, <3>2, <4>1 DEF OutsideEdit, Lineage, TypeOK, FileTypeOK
    <3> QED
      BY <3>1, <3>2, FileMoves
  <2> QED
    BY <1>2, <1>3, <2>3, <2>4
<1> QED
  BY <1>4, <1>5

\* The evidence is collected by observe() and leaves with the lock.
LEMMA ShownMoves ==
  ASSUME [Next]_vars
  PROVE  UNCHANGED shown \/ \E q \in Plans : Observe(q) \/ Withdraw(q) \/ Resolve(q)
<1>1. CASE \/ Recover \/ MaintainDrafts
           \/ \E t \in Tasks : RecordStartFailure(t)
           \/ \E t \in Tasks, w \in Workers : Claim(t, w) \/ Submit(t, w) \/ SubmitUnlaunched(t, w) \/ Resume(t, w)
  <2>1. CASE Recover \/ MaintainDrafts \/ \E t \in Tasks : RecordStartFailure(t)
    BY <2>1, Zenon DEF Recover, MaintainDrafts, RecordStartFailure, fileVars
  <2>2. CASE \E t \in Tasks, w \in Workers : Claim(t, w) \/ Submit(t, w)
    BY <2>2, Zenon DEF Claim, Submit, fileVars
  <2>3. CASE \E t \in Tasks, w \in Workers : SubmitUnlaunched(t, w) \/ Resume(t, w)
    BY <2>3, Zenon DEF SubmitUnlaunched, Resume, fileVars
  <2> QED
    BY <1>1, <2>1, <2>2, <2>3
<1>2. CASE \/ SettleExpired \/ \E t \in Tasks : Cancel(t)
           \/ \E p \in Plans : Revoke(p)
  BY <1>2, Zenon DEF SettleExpired, Cancel, Revoke, fileVars
<1>3. CASE \/ \E p \in Plans, c \in Applies, w \in Workers : Approve(p, c, w)
           \/ \E d \in Requests : CloseDraft(d)
           \/ \E d, c \in Requests, w \in Workers : OpenDraft(d, c, w)
           \/ \E e \in Executions, k \in {"approved", "rejected", "expired"} : DecideApproval(e, k)
           \/ \E r \in Workspaces, x \in Paths : OutsideEdit(r, x)
  BY <1>3, Zenon DEF Approve, CloseDraft, OpenDraft, DecideApproval, OutsideEdit, fileVars
<1>4. CASE \E e \in Executions : Propose(e) \/ Clear(e) \/ Finish(e) \/ RequestScope(e) \/ OpenOwnDraft(e)
  BY <1>4, Zenon DEF Propose, Clear, Finish, RequestScope, OpenOwnDraft, fileVars
<1>5. ASSUME NEW e \in Executions, Apply(e) PROVE UNCHANGED shown
  BY <1>5, Zenon DEF Apply, ApplyBegin, ApplyBreaks, ApplyCommit, ApplyUndo, Mutate, JournalApplied, fileVars
<1>6. CASE \E w \in Workers : Crash(w)
  BY <1>6, Zenon DEF Crash
<1>7. CASE UNCHANGED PlanRows
  BY <1>7, Zenon DEF PlanRows, fileVars
<1> QED
  BY <1>1, <1>2, <1>3, <1>4, <1>5, <1>6, <1>7, PlanFrame, Zenon DEF PlanStep, TaskStep

\* While resolve() holds the lock only an outside edit reaches the files it has seen.
LEMMA EvidenceNext ==
  ASSUME Lineage, Evidence, [Next]_vars
  PROVE  Evidence'
<1> SUFFICES ASSUME NEW p \in Plans, NEW x \in shown'[p]
             PROVE  /\ plan'[p] # "none" /\ lock'[Root(p)'] = p
                    /\ disk'[Root(p)'][x] \in {p, "edited"}
  BY DEF Evidence
<1>0. Forward
  BY LineageNext
<1>1. CASE x \in shown[p]
  <2>1. /\ plan[p] # "none" /\ lock[Root(p)] = p /\ disk[Root(p)][x] \in {p, "edited"}
        /\ x \in Paths
    BY <1>1 DEF Evidence, Lineage, TypeOK, FileTypeOK
  <2>2. Root(p) \in Workspaces /\ Root(p)' = Root(p) /\ plan'[p] # "none"
    BY <1>0, <2>1, RootStays
  <2>3. p \notin Executions /\ p # None
    BY LedgerAssumption
  <2>4. lock'[Root(p)] = lock[Root(p)]
    <3> SUFFICES ASSUME lock'[Root(p)] # lock[Root(p)] PROVE FALSE
      OBVIOUS
    <3>1. \A y \in Executions : Root(p) = Root(target[y[1]]) => ~ApplyCommit(y) /\ ~ApplyUndo(y)
      BY <2>1, <2>3 DEF ApplyCommit, ApplyUndo, Lineage, Applying, Applier
    <3>2. ~Withdraw(p) /\ ~Resolve(p)
      <4>1. LetGo(p) => shown'[p] = {}
        BY DEF LetGo, Lineage, TypeOK, FileTypeOK
      <4> QED
        BY <4>1, Zenon DEF Withdraw, Resolve
    <3> QED
      BY <2>1, <2>2, <2>3, <3>1, <3>2, LockMoves DEF Lineage
  <2>5. disk'[Root(p)][x] \in {p, "edited"}
    <3>1. ASSUME NEW f \in Executions, NEW y \in Paths, Mutate(f, y)
          PROVE  disk'[Root(p)][x] = disk[Root(p)][x]
      <4> DEFINE q == target[f[1]]
      <4>1. /\ lock[Root(q)] = f /\ Root(q) \in Workspaces
            /\ \E v \in {"partial", q} : disk' = [disk EXCEPT ![Root(q)][y] = v]
        BY <3>1, MutateWrites
      <4>2. Root(q) # Root(p)
        BY <2>1, <2>3, <4>1
      <4> QED
        BY <2>1, <2>2, <4>1, <4>2 DEF Lineage, TypeOK, FileTypeOK
    <3>2. ASSUME NEW s \in Workspaces, NEW y \in Paths, OutsideEdit(s, y)
          PROVE  disk'[Root(p)][x] \in {disk[Root(p)][x], "edited"}
      BY <2>1, <2>2, <3>2 DEF OutsideEdit, Lineage, TypeOK, FileTypeOK
    <3> QED
      BY <2>1, <3>1, <3>2, FileMoves
  <2> QED
    BY <2>1, <2>2, <2>4, <2>5
<1>2. CASE x \notin shown[p]
  <2>1. ASSUME NEW q \in Plans, Withdraw(q) \/ Resolve(q) PROVE FALSE
    <3>1. LetGo(q)
      BY <2>1, Zenon DEF Withdraw, Resolve
    <3> QED
      BY <1>2, <3>1 DEF LetGo, Lineage, TypeOK, FileTypeOK
  <2>2. PICK q \in Plans : Observe(q)
    BY <1>2, <2>1, ShownMoves
  <2>3. p = q
    BY <1>2, <2>2 DEF Observe, Lineage, TypeOK, FileTypeOK
  <2>4. /\ plan[p] # "none" /\ lock' = [lock EXCEPT ![Root(p)] = p]
        /\ x \in Observed(p) /\ UNCHANGED disk
    BY <2>2, <2>3 DEF Observe, Lineage, TypeOK, FileTypeOK
  <2>5. Root(p) \in Workspaces /\ Root(p)' = Root(p) /\ plan'[p] # "none"
    BY <1>0, <2>4, RootStays
  <2> QED
    BY <2>4, <2>5 DEF Observed, Lineage, TypeOK, FileTypeOK
<1> QED
  BY <1>1, <1>2

-----------------------------------------------------------------------------
\* A draft is settled as applied with its plan, and keeps it.
LEMMA AppliedDraftMoves ==
  ASSUME Lineage, [Next]_vars, NEW d \in Requests
  PROVE  /\ draft[d] = "applied" => draftPlan'[d] = draftPlan[d]
         /\ draft'[d] = "applied" /\ draft[d] # "applied" =>
              /\ draftPlan'[d] = draftPlan[d] /\ draftPlan[d] \in Plans
              /\ plan'[draftPlan[d]] = "applied"
<1> DEFINE Settles == /\ draftPlan'[d] = draftPlan[d] /\ draftPlan[d] \in Plans
                      /\ plan'[draftPlan[d]] = "applied"
           Goal == /\ draft[d] = "applied" => draftPlan'[d] = draftPlan[d]
                   /\ draft'[d] = "applied" /\ draft[d] # "applied" => Settles
<1> USE DEF Lineage
<1>0. draft \in [Requests -> {"none", "pending", "ready", "closed", "applied"}]
      /\ draftPlan \in [Requests -> Plans \cup {None}]
  BY DEF TypeOK, DraftTypeOK
<1>1. CASE UNCHANGED <<draft, draftPlan>>
  BY <1>1
<1>2. ASSUME NEW e \in Executions, Propose(e) \/ Clear(e) PROVE Goal
  <2>1. UNCHANGED draft
    BY <1>2, Zenon DEF Propose, Clear, LinkPlan, draftVars
  <2>2. UNCHANGED draftPlan \/ (draft[using[e]] = "ready" /\ \E v : draftPlan' = [draftPlan EXCEPT ![using[e]] = v])
    <3>1. ASSUME NEW pl, NEW v, Linkable(e, using[e], pl), LinkPlan(e, using[e], v)
          PROVE  draft[using[e]] = "ready" /\ draftPlan' = [draftPlan EXCEPT ![using[e]] = v]
      BY <3>1, Zenon DEF Linkable, LinkPlan
    <3> QED
      BY <1>2, <3>1, Zenon DEF Propose, Clear, draftVars
  <2> QED
    BY <1>0, <2>1, <2>2
<1>3. ASSUME NEW e \in Executions, ApplyCommit(e) PROVE Goal
  <2>1. UNCHANGED <<draft, draftPlan>>
        \/ /\ UNCHANGED draftPlan /\ target[e[1]] \in Plans
           /\ plan' = [plan EXCEPT ![target[e[1]]] = "applied"]
           /\ draft' = Assign(draft, {x \in Requests : draftPlan[x] = target[e[1]] /\ draft[x] = "ready"},
                              "applied")
    BY <1>3 DEF ApplyCommit, Coherent, ThreadSubjects
  <2> QED
    BY <1>0, <2>1 DEF Assign, TypeOK, PlanTypeOK
<1>4. ASSUME NEW p \in Plans, Resolve(p) PROVE Goal
  <2>1. /\ UNCHANGED draftPlan
        /\ plan' = [plan EXCEPT ![p] = IF shown[p] = planPaths[p] THEN "applied" ELSE "reconciled"]
        /\ \E S : draft' = Assign(draft, {x \in Requests : draftPlan[x] = p /\ draft[x] = "ready" /\ x \in S},
                                  IF shown[p] = planPaths[p] THEN "applied" ELSE "closed")
    <3>1. \E b \in BOOLEAN : draft' = Assign(draft,
              {x \in Requests : draftPlan[x] = p /\ draft[x] = "ready" /\ b},
              IF shown[p] = planPaths[p] THEN "applied" ELSE "closed")
      BY <1>4, Zenon DEF Resolve, UnresolvedGiven
    <3>2. ASSUME NEW b \in BOOLEAN
          PROVE  \E S : {x \in Requests : draftPlan[x] = p /\ draft[x] = "ready" /\ b}
                        = {x \in Requests : draftPlan[x] = p /\ draft[x] = "ready" /\ x \in S}
      <4>1. CASE b
        <5>1. {x \in Requests : draftPlan[x] = p /\ draft[x] = "ready" /\ b}
                = {x \in Requests : draftPlan[x] = p /\ draft[x] = "ready" /\ x \in Requests}
          BY <4>1
        <5> QED
          BY <5>1
      <4>2. CASE ~b
        <5>1. {x \in Requests : draftPlan[x] = p /\ draft[x] = "ready" /\ b}
                = {x \in Requests : draftPlan[x] = p /\ draft[x] = "ready" /\ x \in {}}
          BY <4>2
        <5> QED
          BY <5>1
      <4> QED
        BY <4>1, <4>2
    <3>3. UNCHANGED draftPlan /\ plan' = [plan EXCEPT ![p] = IF shown[p] = planPaths[p] THEN "applied" ELSE "reconciled"]
      BY <1>4, Zenon DEF Resolve
    <3> QED
      BY <3>1, <3>2, <3>3
  <2> QED
    BY <1>0, <2>1 DEF Assign, TypeOK, PlanTypeOK
<1>5. CASE \/ MaintainDrafts \/ \E x \in Requests : CloseDraft(x)
           \/ \E x, c \in Requests, w \in Workers : OpenDraft(x, c, w)
           \/ \E e \in Executions : RequestScope(e) \/ OpenOwnDraft(e)
  <2>1. UNCHANGED draftPlan
    BY <1>5, Zenon DEF MaintainDrafts, CloseDraft, OpenDraft, RequestScope, OpenOwnDraft, CreateDraft, draftVars
  <2>2. \/ \E S : draft' = Assign(draft, S, "closed")
        \/ \E x \in Requests, v \in {"closed", "ready", "pending"} : draft' = [draft EXCEPT ![x] = v]
        \/ UNCHANGED draft
    <3>1. CASE \E e \in Executions : RequestScope(e) \/ OpenOwnDraft(e)
      <4>1. UNCHANGED draftVars \/ \E x \in Requests, reads \in BOOLEAN : CreateDraft(x, reads)
        BY <3>1, Zenon DEF RequestScope, OpenOwnDraft, Coherent, ThreadSubjects
      <4> QED
        BY <4>1 DEF CreateDraft, draftVars
    <3>2. CASE MaintainDrafts
      BY <3>2, Zenon DEF MaintainDrafts
    <3>3. ASSUME NEW x \in Requests, CloseDraft(x) \/ \E c \in Requests, w \in Workers : OpenDraft(x, c, w)
          PROVE  \E v \in {"closed", "ready", "pending"} : draft' = [draft EXCEPT ![x] = v]
      <4>1. draft' = [draft EXCEPT ![x] = "closed"] \/ draft' = [draft EXCEPT ![x] = "ready"]
        BY <3>3, Zenon DEF CloseDraft, OpenDraft
      <4> QED
        BY <4>1
    <3> QED
      BY <1>5, <3>1, <3>2, <3>3
  <2> QED
    BY <1>0, <2>1, <2>2 DEF Assign
<1>6. UNCHANGED <<draft, draftPlan>>
      \/ (\E e \in Executions : Propose(e) \/ Clear(e) \/ ApplyCommit(e)) \/ (\E p \in Plans : Resolve(p))
      \/ (\/ MaintainDrafts \/ \E x \in Requests : CloseDraft(x)
          \/ \E x, c \in Requests, w \in Workers : OpenDraft(x, c, w)
          \/ \E e \in Executions : RequestScope(e) \/ OpenOwnDraft(e))
  <2>1. CASE \/ Recover
             \/ \E t \in Tasks : RecordStartFailure(t)
             \/ \E t \in Tasks, w \in Workers : Claim(t, w) \/ Resume(t, w)
    BY <2>1, ZenonT(30) DEF Recover, RecordStartFailure, Claim, Resume, draftVars
  <2>7. CASE \E t \in Tasks, w \in Workers : Submit(t, w) \/ SubmitUnlaunched(t, w)
    BY <2>7, Zenon DEF Submit, SubmitUnlaunched, draftVars
  <2>2. CASE SettleExpired \/ \E t \in Tasks : Cancel(t)
    BY <2>2, Zenon DEF SettleExpired, Cancel, draftVars
  <2>3. CASE \E p \in Plans : Revoke(p)
    BY <2>3, Zenon DEF Revoke, draftVars
  <2>4. CASE \/ \E p \in Plans, c \in Applies, w \in Workers : Approve(p, c, w)
             \/ \E e \in Executions, k \in {"approved", "rejected", "expired"} : DecideApproval(e, k)
             \/ \E e \in Executions : Finish(e)
             \/ \E w \in Workers : Crash(w)
             \/ \E s \in Workspaces, x \in Paths : OutsideEdit(s, x)
             \/ \E q \in Plans : Observe(q) \/ Withdraw(q)
    BY <2>4, Zenon DEF Approve, DecideApproval, Finish, Crash, OutsideEdit, Observe, Withdraw, LetGo, draftVars
  <2>5. ASSUME NEW e \in Executions, Apply(e), ~ApplyCommit(e) PROVE UNCHANGED <<draft, draftPlan>>
    BY <2>5, Zenon DEF Apply, ApplyBegin, ApplyBreaks, ApplyUndo, Mutate, JournalApplied, draftVars
  <2>6. CASE UNCHANGED PlanRows
    BY <2>6, Zenon DEF PlanRows
  <2> QED
    BY <2>1, <2>2, <2>3, <2>4, <2>5, <2>6, <2>7, PlanFrame, Zenon DEF PlanStep, TaskStep
<1> QED
  BY <1>1, <1>2, <1>3, <1>4, <1>5, <1>6, Zenon

\* commit() and resolve() settle a draft together with its plan, which stays applied.
LEMMA AppliedDraftNext ==
  ASSUME Lineage, AppliedDraft, [Next]_vars
  PROVE  AppliedDraft'
<1> SUFFICES ASSUME NEW d \in Requests, draft'[d] = "applied"
             PROVE  draftPlan'[d] # None /\ plan'[draftPlan'[d]] \in {"applied", "reconciled"}
  BY DEF AppliedDraft
<1>1. None \notin Plans
  BY LedgerAssumption
<1>2. CASE draft[d] = "applied"
  <2>1. draftPlan'[d] = draftPlan[d] /\ draftPlan[d] \in Plans /\ plan[draftPlan[d]] \in {"applied", "reconciled"}
    BY <1>2, AppliedDraftMoves DEF AppliedDraft, Lineage, TypeOK, DraftTypeOK
  <2>2. plan'[draftPlan[d]] \in {"applied", "reconciled"}
    BY <2>1, PlanMoves DEF Lineage, PlanOpen
  <2> QED
    BY <1>1, <2>1, <2>2
<1>3. CASE draft[d] # "applied"
  BY <1>1, <1>3, AppliedDraftMoves
<1> QED
  BY <1>2, <1>3

-----------------------------------------------------------------------------
\* The files of the empty ledger are nobody's work.
LEMMA FiledInit == Init => Filed
<1> SUFFICES ASSUME Init PROVE Filed
  OBVIOUS
<1>1. Unjournalled /\ OneUnsettledPlan
  BY DEF Init, Unjournalled, OneUnsettledPlan
<1>2. Written /\ Evidence
  BY DEF Init, Written, Evidence, Applier
<1>3. EffectsRecorded
  <2>1. \A s \in Workspaces, x \in Paths : disk[s][x] \in {"absent", "original"}
    BY DEF Init
  <2> QED
    BY <2>1, LedgerAssumption DEF EffectsRecorded
<1>4. AppliedDraft
  BY DEF Init, AppliedDraft
<1> QED
  BY <1>1, <1>2, <1>3, <1>4 DEF Filed

\* The second invariant, on top of the lineage.
LEMMA FiledAlways == Spec => [](Lineage /\ Filed)
<1>1. Init => Lineage /\ Filed
  BY LineageInit, FiledInit
<1>2. Lineage /\ Filed /\ [Next]_vars => (Lineage /\ Filed)'
  BY LineageNext, UnjournalledNext, WrittenNext, EvidenceNext, OneUnsettledPlanNext,
     EffectsRecordedNext, AppliedDraftNext DEF Filed
<1> QED
  BY <1>1, <1>2, PTL DEF Spec

\* apply() refuses to begin while another application of the workspace is unsettled, and only
\* its thread or the owner's reconciliation settles one.
THEOREM OneUnsettledPlanCorrect == Spec => []OneUnsettledPlan
<1>1. Filed => OneUnsettledPlan
  BY DEF Filed
<1> QED
  BY <1>1, FiledAlways, PTL

\* Whatever crashes, every half-made or written file belongs to a journalled plan of its
\* workspace that the owner is still told about.
THEOREM EffectsRecordedCorrect == Spec => []EffectsRecorded
<1>1. Filed => EffectsRecorded
  BY DEF Filed
<1> QED
  BY <1>1, FiledAlways, PTL

\* A draft shown as applied names the plan that was applied for it, through every
\* reconciliation of that plan.
THEOREM AppliedDraftCorrect == Spec => []AppliedDraft
<1>1. Filed => AppliedDraft
  BY DEF Filed
<1> QED
  BY <1>1, FiledAlways, PTL

\* commit() records a plan as applied over files that all hold what it writes, resolve()
\* over files that held it when they were compared.
LEMMA AppliedMeansWrittenStep ==
  ASSUME Lineage, Written, Evidence, [Next]_vars,
         NEW p \in Plans, plan[p] # "applied", plan'[p] = "applied", NEW x \in planPaths[p]
  PROVE  \/ disk'[Root(p)][x] = p
         \/ x \in shown[p] /\ disk'[Root(p)][x] = "edited"
<1>0. x \in Paths
  BY DEF Lineage, TypeOK, PlanTypeOK
<1>1. ASSUME NEW e \in Executions, target[e[1]] = p, ApplyCommit(e) PROVE disk'[Root(p)][x] = p
  <2>1. Applier(e) /\ journal[p][x] = "applied" /\ UNCHANGED disk
    BY <1>1 DEF ApplyCommit, Applier
  <2> QED
    BY <1>0, <1>1, <2>1 DEF Written
<1>2. CASE Resolve(p)
  <2>1. /\ plan' = [plan EXCEPT ![p] = IF shown[p] = planPaths[p] THEN "applied" ELSE "reconciled"]
        /\ UNCHANGED disk
    BY <1>2, Zenon DEF Resolve
  <2>2. x \in shown[p]
    BY <2>1 DEF Lineage, TypeOK, PlanTypeOK
  <2> QED
    BY <2>1, <2>2 DEF Evidence
<1> QED
  BY <1>1, <1>2, PlanMoves DEF Lineage, PlanOpen

\* commit() marks a plan as applied only with all of its files holding what the plan
\* writes; resolve() only with all of them found so, under the workspace lock, and not
\* touched since by anything but an edit made outside the agent.
THEOREM AppliedMeansWrittenCorrect == Spec => AppliedMeansWritten
<1>1. Lineage /\ Filed /\ [Next]_vars =>
        \A p \in Plans : plan[p] # "applied" /\ plan'[p] = "applied" =>
          \A x \in planPaths[p] : \/ disk'[Root(p)][x] = p
                                  \/ x \in shown[p] /\ disk'[Root(p)][x] = "edited"
  BY AppliedMeansWrittenStep DEF Filed
<1> QED
  BY <1>1, FiledAlways, PTL DEF Spec, AppliedMeansWritten

\* A file operation replaces an outside edit only by a plan that was made from that edit.
LEMMA EditsSurviveStep ==
  ASSUME Lineage, [Next]_vars, NEW s \in Workspaces, NEW x \in Paths,
         disk[s][x] = "edited", disk'[s][x] \in Plans
  PROVE  preimage[disk'[s][x]][x] = "edited"
<1>1. "edited" \notin Plans /\ "partial" \notin Plans
  BY LedgerAssumption
<1>2. ASSUME NEW e \in Executions, NEW y \in Paths, Mutate(e, y)
      PROVE  preimage[disk'[s][x]][x] = "edited"
  <2> DEFINE p == target[e[1]]
  <2>1. /\ Expected(p, y, disk[Root(p)][y])
        /\ \E v \in {"partial", p} : disk' = [disk EXCEPT ![Root(p)][y] = v]
    BY <1>1, <1>2, MutateWrites
  <2>2. Root(p) = s /\ y = x /\ disk'[s][x] = p
    BY <1>1, <2>1 DEF Lineage, TypeOK, FileTypeOK
  <2> QED
    BY <2>1, <2>2 DEF Expected
<1>3. ASSUME NEW r \in Workspaces, NEW y \in Paths, OutsideEdit(r, y) PROVE FALSE
  BY <1>1, <1>3 DEF OutsideEdit, Lineage, TypeOK, FileTypeOK
<1> QED
  BY <1>1, <1>2, <1>3, FileMoves

\* _mutate's comparison with before_hash protects an edit made outside the agent from
\* every plan that was not made from that edit, whenever it is saved.
THEOREM EditsSurviveCorrect == Spec => EditsSurvive
<1>1. Lineage /\ [Next]_vars =>
        \A s \in Workspaces, x \in Paths :
          disk[s][x] = "edited" /\ disk'[s][x] \in Plans => preimage[disk'[s][x]][x] = "edited"
  BY EditsSurviveStep
<1> QED
  BY <1>1, LineageAlways, PTL DEF Spec, EditsSurvive
=============================================================================

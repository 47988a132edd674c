----------------------------- MODULE ReviewProofs -----------------------------
(***************************************************************************)
(* Tasks, reviews and what they decide on, for every instance of the       *)
(* control plane.                                                          *)
(*                                                                         *)
(* Governed is inductive on top of Lineage and the claim fence: it says    *)
(* what a task of each status may still have (a claim, a review, a plan to *)
(* decide on).  Its proof goes through Conduct, what a single transaction  *)
(* may do to the rows of tasks, executions and reviews: every action keeps *)
(* to the conduct (one lemma Conduct... for each, down to the two passes   *)
(* of settle_expired), and whatever keeps to the conduct keeps Governed    *)
(* (GovernedKept), each conjunct for a reason of its own.                  *)
(***************************************************************************)
EXTENDS PlanProofs

\* The task shows as being worked on.
Active(t) == status[t] \in {"running", "cancelling"}

\* Only an active task is under a claim that has not expired; an active task is under a
\* claim and eligible, a queued one eligible and unclaimed, any other not eligible.
Standing == \A t \in Tasks :
  /\ Active(t) => eligible[t] /\ Claimed(t)
  /\ status[t] = "queued" => eligible[t] /\ ~Claimed(t)
  /\ eligible[t] => status[t] \in {"queued", "running", "cancelling"}
  /\ claim[t] = "held" => Active(t)

\* A new attempt is queued only once the owner has settled an ambiguous delivery.
QueuedAnswered == \A t \in Tasks : status[t] = "queued" => Answered(t)

\* What the approval row of e waits for: the current execution of a waiting task, and
\* either a plan of the task that nobody has decided on, or its read scope.
Waiting(e) ==
  /\ status[e[1]] = "awaiting_approval" /\ current[e[1]] = e[2]
  /\ execution[e] = "awaiting_approval"
  /\ \A p \in PlansOf(e[1]) : plan[p] \in {"pending", "revoked", "expired"}
  /\ e \in scoped <=> PlansOf(e[1]) = {}
Reviewing == \A e \in Executions : approval[e] = "pending" => Waiting(e)

\* Approvals of read scopes are recorded with the result of their execution.
ScopedPast == \A e \in scoped : delivery[e] # "none"

\* No plan of t is being applied, may be half applied or can still be decided on.
Inert(t) == \A p \in PlansOf(t) : /\ plan[p] \notin {"applying", "uncertain"}
                                  /\ plan[p] \in PlanOpen => ~planFresh[p]

\* A task that handed its read scope to a child is done for good.
Done(t) == /\ status[t] = "completed" /\ PlansOf(t) = {}
           /\ \A e \in Executions : e[1] = t => execution[e] # "awaiting_approval"
ChildOfDone == \A c \in Requests : parent[c] # None => Done(parent[c])

\* An execution that was asked to stop has no plan left to decide on.
CancelHasNoPlan == \A e \in Executions :
  execution[e] = "cancelling" /\ current[e[1]] = e[2] => OpenPlans(e[1]) = {}
\* Only an execution that was asked to stop reports a cancellation.
CancelReply == \A e \in Executions : pc[e] = "finish" /\ reply[e] = "cancelled" =>
  execution[e] = "cancelling" \/ execution[e] \in ExecTerminal

Governed == /\ Lineage /\ Guarded
            /\ Standing /\ TurnsAlone /\ QueuedAnswered /\ SendingIsCurrent
            /\ Reviewing /\ ScopedPast /\ ReviewHasSubject
            /\ CancelledIsClosed /\ CompletedIsApplied
            /\ ChildOfDone /\ CancelHasNoPlan /\ CancelReply

-----------------------------------------------------------------------------
\* What a transaction may do to the rows of one task: leave them alone but for an expiring
\* lease, queue it, claim it, ask it to stop, or end its activity together with its claim.
TaskMove(t) ==
  \/ /\ status'[t] = status[t] /\ eligible'[t] = eligible[t]
     /\ claim'[t] = claim[t] \/ (claim'[t] = "expired" /\ claim[t] = "held")
  \/ /\ status[t] \in {"none", "blocked", "failed"} /\ status'[t] = "queued"
     /\ eligible'[t] /\ ~Claimed(t) /\ claim'[t] = claim[t] /\ Answered(t)
  \/ \E w \in Workers : Claim(t, w)
  \/ /\ Active(t) /\ status'[t] = "cancelling"
     /\ eligible'[t] = eligible[t] /\ claim'[t] = claim[t]
  \/ /\ status[t] # "none" /\ status'[t] \notin {"none", "queued", "running", "cancelling"}
     /\ ~eligible'[t] /\ claim'[t] # "held"
     /\ Done(t) => status'[t] = "completed"
TaskMoves == \A t \in Tasks : TaskMove(t)

\* What it may do to an execution: end it, open it, record the wait its
\* thread ends with, or ask it to stop once none of its plans can be decided on.
ExecutionMove(e) ==
  \/ execution'[e] \in ExecTerminal \cup {execution[e]}
  \/ execution[e] = "none" /\ execution'[e] = "running"
  \/ execution'[e] = "awaiting_approval" /\ Finish(e) /\ ~Stale(e)
  \/ execution[e] = "running" /\ execution'[e] = "cancelling" /\ OpenPlans(e[1])' = {}
ExecutionMoves == \A e \in Executions : ExecutionMove(e)

\* A task is cancelled only without an application under way or in doubt, and an apply
\* completed only with its plan.
Closes    == \A t \in Tasks : status[t] # "cancelled" /\ status'[t] = "cancelled" => Inert(t)'
Completed == \A c \in Applies : status[c] # "completed" /\ status'[c] = "completed" =>
               plan'[target[c]] \in {"applied", "reconciled"}

\* What every step keeps to.
Conduct == TaskMoves /\ ExecutionMoves /\ Reviewing' /\ ReviewHasSubject' /\ Closes /\ Completed

\* A task changes its status together with its eligibility and its claim.
LEMMA StandingNext ==
  ASSUME TypeOK, Standing, TaskMoves
  PROVE  Standing'
<1> SUFFICES ASSUME NEW t \in Tasks
             PROVE  (/\ Active(t) => eligible[t] /\ Claimed(t)
                     /\ status[t] = "queued" => eligible[t] /\ ~Claimed(t)
                     /\ eligible[t] => status[t] \in {"queued", "running", "cancelling"}
                     /\ claim[t] = "held" => Active(t))'
  BY DEF Standing
<1>1. ASSUME NEW w \in Workers, Claim(t, w)
      PROVE  status'[t] = "running" /\ claim'[t] = "held" /\ eligible'[t] = eligible[t] /\ status[t] = "queued"
  BY <1>1 DEF Claim, Claimable, TypeOK, TaskTypeOK, ClaimTypeOK
<1> QED
  BY <1>1 DEF TaskMoves, TaskMove, Standing, Active, Claimed

\* A turn becomes active only when it is claimed, and then no other turn of its
\* conversation is.
LEMMA TurnsAloneNext ==
  ASSUME TypeOK, TurnsAlone, TaskMoves
  PROVE  TurnsAlone'
<1> SUFFICES ASSUME NEW t \in Requests, NEW u \in Requests, t # u, Conversation[t] = Conversation[u],
                    Active(t)', Active(u)'
             PROVE  FALSE
  BY DEF TurnsAlone, Active
<1>1. \A x \in Requests : Active(x)' => Active(x) \/ \E w \in Workers : Claim(x, w)
  BY DEF TaskMoves, TaskMove, Active, Tasks
<1>2. ASSUME NEW x \in Requests, NEW y \in Requests, x # y, Conversation[x] = Conversation[y],
             NEW w \in Workers, Claim(x, w), Active(y)'
      PROVE  FALSE
  <2>1. status' = [status EXCEPT ![x] = "running"] /\ ~EarlierWork(x)
    BY <1>2 DEF Claim, Claimable
  <2>2. Active(y)
    BY <1>2, <2>1 DEF Active, TypeOK, TaskTypeOK, Tasks
  <2> QED
    BY <1>2, <2>1, <2>2 DEF EarlierWork, Active
<1>3. Active(t) /\ Active(u)
  BY <1>1, <1>2
<1> QED
  BY <1>3 DEF TurnsAlone, Active

-----------------------------------------------------------------------------
\* Results are recorded as pending, taken by the thread that claims the current one of a
\* task that is not queued, and doubtful only after they were taken.
LEMMA DeliveryMoves ==
  ASSUME TypeOK, Guarded, [Next]_vars, NEW e \in Executions, delivery'[e] # delivery[e]
  PROVE  /\ delivery'[e] # "none"
         /\ delivery'[e] = "sending" =>
              e[2] = current[e[1]] /\ status[e[1]] # "queued" /\ UNCHANGED <<status, current>>
         /\ delivery'[e] = "uncertain" => delivery[e] = "sending" /\ UNCHANGED <<status, current>>
<1> DEFINE Goal == /\ delivery'[e] # "none"
                   /\ delivery'[e] = "sending" =>
                        e[2] = current[e[1]] /\ status[e[1]] # "queued" /\ UNCHANGED <<status, current>>
                   /\ delivery'[e] = "uncertain" => delivery[e] = "sending" /\ UNCHANGED <<status, current>>
<1>1. ASSUME NEW x, delivery' = [delivery EXCEPT ![x] = "pending"] PROVE Goal
  BY <1>1 DEF TypeOK, ResultTypeOK
<1>2. ASSUME NEW t \in Tasks, AcknowledgeDelivery(t) PROVE Goal
  BY <1>2 DEF AcknowledgeDelivery, TypeOK, ResultTypeOK
<1>3. ASSUME NEW k \in Watchers, ClaimDelivery(k) PROVE Goal
  <2> DEFINE r == <<watcher[k].task, watcher[k].number>>
  <2>1. Deliverable(k) /\ delivery' = [delivery EXCEPT ![r] = "sending"] /\ UNCHANGED <<status, current>>
    BY <1>3 DEF ClaimDelivery, ledgerVars, taskVars
  <2>2. e = r /\ delivery'[e] = "sending"
    BY <2>1 DEF TypeOK, ResultTypeOK
  <2>3. e[2] = current[e[1]] /\ status[e[1]] = Reported(outcome[e])
    BY <2>1, <2>2 DEF Deliverable
  <2>4. Reported(outcome[e]) # "queued"
    BY DEF Reported, TypeOK, ResultTypeOK, Outcomes
  <2> QED
    BY <2>1, <2>2, <2>3, <2>4
<1>4. ASSUME NEW k \in Watchers, SettleDelivery(k) PROVE Goal
  <2> DEFINE r == <<watcher[k].task, watcher[k].number>>
  <2>1. /\ watcher[k].step \in {"delivered", "uncertain"} /\ delivery[r] = "sending"
        /\ delivery' = [delivery EXCEPT ![r] = watcher[k].step] /\ UNCHANGED <<status, current>>
    BY <1>4 DEF SettleDelivery, ledgerVars, taskVars
  <2> QED
    BY <2>1 DEF TypeOK, ResultTypeOK
<1>5. ASSUME NEW x \in Executions, Finish(x) PROVE Goal
  <2>1. UNCHANGED delivery \/ delivery' = [delivery EXCEPT ![x] = "pending"]
    BY <1>5, Zenon DEF Finish
  <2> QED
    BY <1>1, <2>1
<1>6. ASSUME NEW t \in Tasks, RecordStartFailure(t) PROVE Goal
  <2>1. UNCHANGED delivery \/ delivery' = [delivery EXCEPT ![<<t, 1>>] = "pending"]
    BY <1>6, Zenon DEF RecordStartFailure
  <2> QED
    BY <1>1, <2>1
<1> DEFINE Delivering == \/ \E t \in Tasks : AcknowledgeDelivery(t) \/ RecordStartFailure(t)
                         \/ \E k \in Watchers : ClaimDelivery(k) \/ SettleDelivery(k)
                         \/ \E x \in Executions : Finish(x)
<1>7. Delivering
  <2> SUFFICES ASSUME ~Delivering PROVE UNCHANGED delivery
    OBVIOUS
  <2>1. ASSUME NEW w \in Workers, Process(w) PROVE UNCHANGED delivery
    BY <2>1, Zenon DEF Process, StartWorker, Heartbeat, HeartbeatLapses, StopWorker, CloseWorker,
       Crash, Claim, resultVars
  <2>2. ASSUME NEW k \in Watchers, Watcher(k) PROVE UNCHANGED delivery
    BY <2>2, Zenon DEF Watcher, Poll, Send, StopWatching, Watch
  <2>3. CASE Owner
    <3>1. CASE \E t \in Tasks : Dismiss(t) \/ Cancel(t)
      BY <3>1, Zenon DEF Dismiss, Cancel, resultVars
    <3>2. CASE \E t \in Tasks, w \in Workers : Submit(t, w) \/ SubmitUnlaunched(t, w) \/ Resume(t, w)
      BY <3>2, Zenon DEF Submit, SubmitUnlaunched, Resume, resultVars
    <3>3. CASE \/ \E p \in Plans : Revoke(p) \/ Observe(p) \/ Withdraw(p) \/ Resolve(p)
               \/ \E p \in Plans, c \in Applies, w \in Workers : Approve(p, c, w)
      BY <3>3, Zenon DEF Revoke, Observe, Withdraw, Resolve, Approve, resultVars
    <3>4. CASE \/ \E d \in Requests : CloseDraft(d)
               \/ \E d, c \in Requests, w \in Workers : OpenDraft(d, c, w)
               \/ \E x \in Executions, k \in {"approved", "rejected", "expired"} : DecideApproval(x, k)
      BY <3>4, Zenon DEF CloseDraft, OpenDraft, DecideApproval, resultVars
    <3> QED
      BY <2>3, <3>1, <3>2, <3>3, <3>4, Zenon DEF Owner
  <2>4. CASE Maintenance \/ Clock
    BY <2>4, Zenon DEF Maintenance, Recover, SettleExpired, MaintainDrafts, Clock, ClaimExpires,
       PlanExpires, DraftExpires, OutsideEdit, resultVars
  <2>5. ASSUME NEW x \in Executions, Thread(x) \/ Monitor(x) PROVE UNCHANGED delivery
    <3>1. CASE Start(x) \/ ModelReturns(x) \/ RequestScope(x) \/ OpenOwnDraft(x) \/ Preview(x)
               \/ Settle(x) \/ Monitor(x)
      BY <3>1, Zenon DEF Start, ModelReturns, RequestScope, OpenOwnDraft, Preview, Settle, Monitor,
         resultVars
    <3>2. CASE Propose(x) \/ Clear(x)
      BY <3>2, Zenon DEF Propose, Clear, LinkPlan, resultVars
    <3>3. CASE Apply(x)
      BY <3>3, Zenon DEF Apply, ApplyBegin, ApplyBreaks, ApplyCommit, ApplyUndo, Mutate,
         JournalApplied, resultVars
    <3> QED
      BY <2>5, <3>1, <3>2, <3>3, Zenon DEF Thread, Request
  <2>6. CASE UNCHANGED vars
    BY <2>6, Zenon DEF vars, resultVars
  <2> QED
    BY <2>1, <2>2, <2>3, <2>4, <2>5, <2>6, Zenon DEF Next
<1> QED
  BY <1>2, <1>3, <1>4, <1>5, <1>6, <1>7

-----------------------------------------------------------------------------
\* Only propose() makes a plan, for the current execution of a running task; no
\* other transaction renews a plan's hour.
LEMMA ProposalMoves ==
  ASSUME TypeOK, Coherent, [Next]_vars, NEW p \in Plans
  PROVE  \/ planExec'[p] = planExec[p] /\ (planFresh'[p] => planFresh[p])
         \/ \E e \in Executions : /\ Propose(e) /\ OwnsExecution(e)
                                  /\ plan[p] = "none" /\ plan'[p] = "pending" /\ planExec'[p] = e
<1> DEFINE Kept == planExec' = planExec /\ planFresh' = planFresh
<1>1. ASSUME NEW e \in Executions, Propose(e)
      PROVE  \/ Kept
             \/ \E q \in Plans : /\ OwnsExecution(e) /\ plan[q] = "none"
                                 /\ \E left : plan' = [left EXCEPT ![q] = "pending"] /\ left \in [Plans -> PlanStatus]
                                 /\ planExec' = [planExec EXCEPT ![q] = e]
                                 /\ planFresh' = [planFresh EXCEPT ![q] = TRUE]
  <2> DEFINE left == Assign(plan, OpenPlans(e[1]), "revoked")
  <2>1. CASE Linkable(e, using[e], left)
    <3>1. PICK q \in {r \in Plans : plan[r] = "none"} :
            /\ plan' = [Assign(left, Replaced(using[e]), "revoked") EXCEPT ![q] = "pending"]
            /\ planExec' = [planExec EXCEPT ![q] = e]
            /\ planFresh' = [planFresh EXCEPT ![q] = TRUE]
      BY <1>1, <2>1, Zenon DEF Propose
    <3>2. Assign(left, Replaced(using[e]), "revoked") \in [Plans -> PlanStatus]
      BY DEF Assign, TypeOK, PlanTypeOK, PlanStatus
    <3>3. OwnsExecution(e)
      BY <2>1, Zenon DEF Linkable
    <3> QED
      BY <3>1, <3>2, <3>3
  <2>2. CASE ~Linkable(e, using[e], left)
    BY <1>1, <2>2, Zenon DEF Propose
  <2> QED
    BY <2>1, <2>2
<1>2. ASSUME NEW q \in Plans, PlanExpires(q)
      PROVE  planExec' = planExec /\ (planFresh'[p] => planFresh[p])
  BY <1>2 DEF PlanExpires, TypeOK, PlanTypeOK
<1> DEFINE Freshening == (\E e \in Executions : Propose(e)) \/ \E q \in Plans : PlanExpires(q)
<1>3. Kept \/ Freshening
  <2> SUFFICES ASSUME ~Kept, ~Freshening PROVE UNCHANGED <<planExec, planFresh>>
    OBVIOUS
  <2>1. ASSUME NEW w \in Workers, Process(w) PROVE UNCHANGED <<planExec, planFresh>>
    BY <2>1, Zenon DEF Process, StartWorker, Heartbeat, HeartbeatLapses, StopWorker, CloseWorker,
       Crash, Claim, planVars
  <2>2. ASSUME NEW k \in Watchers, Watcher(k) PROVE UNCHANGED <<planExec, planFresh>>
    BY <2>2, Zenon DEF Watcher, Poll, ClaimDelivery, Send, SettleDelivery, StopWatching, Watch,
       ledgerVars, planVars
  <2>3. CASE Owner
    <3>1. CASE \E t \in Tasks : Dismiss(t) \/ Cancel(t) \/ AcknowledgeDelivery(t) \/ RecordStartFailure(t)
      BY <3>1, Zenon DEF Dismiss, Cancel, AcknowledgeDelivery, RecordStartFailure, ledgerVars, planVars
    <3>2. CASE \E t \in Tasks, w \in Workers : Submit(t, w) \/ SubmitUnlaunched(t, w) \/ Resume(t, w)
      BY <3>2, Zenon DEF Submit, SubmitUnlaunched, Resume, planVars
    <3>3. CASE \/ \E q \in Plans : Revoke(q) \/ Observe(q) \/ Withdraw(q) \/ Resolve(q)
               \/ \E q \in Plans, c \in Applies, w \in Workers : Approve(q, c, w)
      BY <3>3, Zenon DEF Revoke, Observe, Withdraw, Resolve, Approve, planVars
    <3>4. CASE \/ \E d \in Requests : CloseDraft(d)
               \/ \E d, c \in Requests, w \in Workers : OpenDraft(d, c, w)
               \/ \E x \in Executions, k \in {"approved", "rejected", "expired"} : DecideApproval(x, k)
      BY <3>4, ZenonT(30) DEF CloseDraft, OpenDraft, DecideApproval, planVars
    <3> QED
      BY <2>3, <3>1, <3>2, <3>3, <3>4, Zenon DEF Owner
  <2>4. CASE Maintenance
    BY <2>4, Zenon DEF Maintenance, Recover, SettleExpired, MaintainDrafts, planVars
  <2>5. CASE Clock
    BY <2>5, Zenon DEF Clock, ClaimExpires, DraftExpires, OutsideEdit, planVars
  <2>6. ASSUME NEW x \in Executions, Thread(x) \/ Monitor(x), ~Propose(x)
        PROVE  UNCHANGED <<planExec, planFresh>>
    <3>1. CASE Start(x) \/ ModelReturns(x) \/ RequestScope(x) \/ OpenOwnDraft(x) \/ Preview(x)
               \/ Settle(x) \/ Monitor(x) \/ Finish(x)
      BY <3>1, Zenon DEF Start, ModelReturns, RequestScope, OpenOwnDraft, Preview, Settle, Monitor,
         Finish, planVars
    <3>2. CASE Clear(x)
      BY <3>2, Zenon DEF Clear
    <3>3. CASE Apply(x)
      BY <3>3, Zenon DEF Apply, ApplyBegin, ApplyBreaks, ApplyCommit, ApplyUndo, Mutate,
         JournalApplied, planVars
    <3> QED
      BY <2>6, <3>1, <3>2, <3>3, Zenon DEF Thread, Request
  <2>7. CASE UNCHANGED vars
    BY <2>7, Zenon DEF vars, planVars
  <2> QED
    BY <2>1, <2>2, <2>3, <2>4, <2>5, <2>6, <2>7, Zenon DEF Next
<1> QED
  <2>1. CASE \E e \in Executions : Propose(e)
    <3>1. PICK e \in Executions : Propose(e)
      BY <2>1
    <3>2. CASE Kept
      BY <3>2
    <3>3. CASE ~Kept
      <4>1. PICK q \in Plans, left \in [Plans -> PlanStatus] :
              /\ OwnsExecution(e) /\ plan[q] = "none"
              /\ plan' = [left EXCEPT ![q] = "pending"]
              /\ planExec' = [planExec EXCEPT ![q] = e]
              /\ planFresh' = [planFresh EXCEPT ![q] = TRUE]
        BY <1>1, <3>1, <3>3
      <4>2. CASE p = q
        BY <3>1, <4>1, <4>2 DEF TypeOK, PlanTypeOK
      <4>3. CASE p # q
        BY <4>1, <4>3 DEF TypeOK, PlanTypeOK
      <4> QED
        BY <4>2, <4>3
    <3> QED
      BY <3>2, <3>3
  <2> QED
    BY <1>2, <1>3, <2>1

\* The plans of a task stay its plans, and only its own running execution adds one.
LEMMA PlansOfMoves ==
  ASSUME Lineage, Forward, [Next]_vars, NEW t \in Tasks
  PROVE  /\ PlansOf(t) \subseteq PlansOf(t)'
         /\ \/ PlansOf(t)' = PlansOf(t)
            \/ \E e \in Executions : e[1] = t /\ Propose(e) /\ OwnsExecution(e)
<1>1. ASSUME NEW p \in PlansOf(t) PROVE p \in PlansOf(t)'
  <2>1. plan[p] # "none"
    BY DEF PlansOf, Lineage, Records, Origin
  <2> QED
    BY <2>1 DEF PlansOf, Forward, PlansStay
<1>2. ASSUME NEW p \in PlansOf(t)', p \notin PlansOf(t)
      PROVE  \E e \in Executions : e[1] = t /\ Propose(e) /\ OwnsExecution(e)
  BY <1>2, ProposalMoves DEF PlansOf, Lineage
<1> QED
  BY <1>1, <1>2

\* The owner's decisions on the plans of a task that is over are past.
LEMMA InertKept ==
  ASSUME Lineage, Forward, [Next]_vars, NEW t \in Tasks, status[t] \notin CanDecide, Inert(t)
  PROVE  Inert(t)'
<1> SUFFICES ASSUME NEW p \in PlansOf(t)'
             PROVE  /\ plan'[p] \notin {"applying", "uncertain"}
                    /\ plan'[p] \in PlanOpen => ~planFresh'[p]
  BY DEF Inert, PlansOf
<1>1. PlansOf(t)' = PlansOf(t)
  BY PlansOfMoves DEF OwnsExecution, CanDecide
<1>2. /\ p \in Plans /\ p \in PlansOf(t) /\ TaskOf(p) = t
      /\ plan[p] \notin {"applying", "uncertain"} /\ (plan[p] \in PlanOpen => ~planFresh[p])
  BY <1>1 DEF PlansOf, TaskOf, Inert
<1>3. plan[p] # "none"
  BY <1>2 DEF PlansOf, Lineage, Records, Origin
<1>4. planFresh'[p] => planFresh[p]
  BY <1>2, <1>3, ProposalMoves DEF Lineage
<1>5. CASE plan'[p] = plan[p]
  BY <1>2, <1>4, <1>5
<1>6. CASE plan'[p] # plan[p]
  <2>1. ASSUME NEW e \in Executions, target[e[1]] = p, ApplyBegin(e), plan'[p] = "applying"
        PROVE  FALSE
    <3>1. ApplyEligible(e, p, "approved")
      BY <1>6, <2>1 DEF ApplyBegin
    <3> QED
      BY <3>1, <1>2 DEF ApplyEligible
  <2> QED
    BY <1>2, <1>3, <1>4, <1>6, <2>1, PlanMoves DEF Lineage, PlanOpen
<1> QED
  BY <1>5, <1>6

\* An applied plan stays one that was applied.
LEMMA AppliedStays ==
  ASSUME Lineage, [Next]_vars, NEW p \in Plans, plan[p] \in {"applied", "reconciled"}
  PROVE  plan'[p] \in {"applied", "reconciled"}
BY PlanMoves DEF Lineage, PlanOpen

\* Only open_and_submit gives a request a parent: the request whose scope was opened.
LEMMA ParentMoves ==
  ASSUME TypeOK, [Next]_vars, NEW c \in Requests, parent'[c] # None, parent'[c] # parent[c]
  PROVE  \E w \in Workers : parent'[c] \in Requests /\ OpenDraft(parent'[c], c, w)
<1>1. c \in Tasks
  BY DEF Tasks
<1>2. TaskStep
  BY TaskFrame DEF TaskRows
<1>3. ASSUME NEW d \in Requests, NEW k \in Requests, NEW w \in Workers, OpenDraft(d, k, w)
      PROVE  k = c /\ parent'[c] = d
  <2>1. parent' = [parent EXCEPT ![k] = d]
    BY <1>3, Zenon DEF OpenDraft, InsertTask
  <2> QED
    BY <1>1, <2>1 DEF TypeOK, TaskTypeOK
<1>4. ASSUME NEW t \in Tasks, NEW w \in Workers, Submit(t, w) \/ SubmitUnlaunched(t, w)
      PROVE  FALSE
  <2>1. PICK d : InsertTask(t, w, None, d, status)
    BY <1>4, Zenon DEF Submit, SubmitUnlaunched
  <2>2. parent' = [parent EXCEPT ![t] = None]
    BY <2>1, Zenon DEF InsertTask
  <2> QED
    BY <1>1, <2>2 DEF TypeOK, TaskTypeOK
<1>5. ASSUME NEW p \in Plans, NEW k \in Applies, NEW w \in Workers, Approve(p, k, w)
      PROVE  FALSE
  <2>1. parent' = [parent EXCEPT ![k] = TaskOf(p)]
    BY <1>5, Zenon DEF Approve, InsertTask
  <2> QED
    BY <1>1, <2>1, LedgerAssumption DEF TypeOK, TaskTypeOK
<1>6. CASE Recover \/ SettleExpired \/ MaintainDrafts
  BY <1>6, Zenon DEF Recover, SettleExpired, MaintainDrafts
<1>7. CASE \E t \in Tasks : Cancel(t) \/ RecordStartFailure(t)
  BY <1>7, Zenon DEF Cancel, RecordStartFailure
<1>8. CASE \E t \in Tasks, w \in Workers : Claim(t, w) \/ Resume(t, w)
  BY <1>8, Zenon DEF Claim, Resume
<1>9. CASE (\E p \in Plans : Revoke(p) \/ Resolve(p)) \/ \E d \in Requests : CloseDraft(d)
  BY <1>9, Zenon DEF Revoke, Resolve, CloseDraft
<1>10. CASE \E e \in Executions, k \in {"approved", "rejected", "expired"} : DecideApproval(e, k)
  BY <1>10, Zenon DEF DecideApproval
<1>11. CASE \E e \in Executions : Propose(e) \/ Clear(e) \/ Finish(e)
  BY <1>11, Zenon DEF Propose, Clear, Finish
<1> QED
  BY <1>2, <1>3, <1>4, <1>5, <1>6, <1>7, <1>8, <1>9, <1>10, <1>11 DEF TaskStep

\* A read scope is opened before its task has made any plan.
LEMMA ScopeWithoutPlan ==
  ASSUME Lineage, NEW d \in Requests, draft[d] = "pending"
  PROVE  PlansOf(d) = {}
<1> SUFFICES ASSUME NEW p \in PlansOf(d) PROVE FALSE
  OBVIOUS
<1>1. p \in Plans /\ planExec[p] # None /\ TaskOf(p) = d
  BY DEF PlansOf, TaskOf
<1>2. DraftOf(d) = d
  BY DEF Lineage, Records, DraftRoots, DraftOf
<1> QED
  BY <1>1, <1>2 DEF Lineage, Records, Planned

\* Opening it ends the task for good.
LEMMA OpenDraftDone ==
  ASSUME Lineage, Forward, [Next]_vars, NEW d \in Requests, NEW c \in Requests, NEW w \in Workers,
         OpenDraft(d, c, w)
  PROVE  Done(d)'
<1>1. d \in Tasks /\ draft[d] = "pending" /\ status[d] = "awaiting_approval"
  BY DEF OpenDraft, Tasks
<1>2. /\ status[c] = "none"
      /\ status' = [ReviewStatus({d}, status, "completed") EXCEPT ![c] = "queued"]
      /\ execution' = ReviewExecution({d}, "completed")
  BY DEF OpenDraft, InsertTask
<1>3. status'[d] = "completed"
  BY <1>1, <1>2 DEF ReviewStatus, Assign, Lineage, TypeOK, TaskTypeOK
<1>4. \A e \in Executions : e[1] = d => execution'[e] # "awaiting_approval"
  BY <1>2 DEF ReviewExecution, Assign, Lineage, TypeOK, ResultTypeOK
<1>5. PlansOf(d)' = PlansOf(d)
  BY <1>1, PlansOfMoves DEF OwnsExecution
<1> QED
  BY <1>1, <1>3, <1>4, <1>5, ScopeWithoutPlan DEF Done

\* A task that is done makes no plan, is not settled again and starts no review.
LEMMA DoneKept ==
  ASSUME Lineage, Forward, Standing, TaskMoves, ExecutionMoves, [Next]_vars,
         NEW t \in Tasks, Done(t)
  PROVE  Done(t)'
<1>1. PlansOf(t)' = {}
  BY PlansOfMoves DEF Done, OwnsExecution
<1>2. ASSUME NEW w \in Workers PROVE ~Claim(t, w)
  BY DEF Claim, Claimable, Done
<1>3. status'[t] = "completed"
  BY <1>2 DEF TaskMoves, TaskMove, Done, Active
<1>4. ASSUME NEW e \in Executions, e[1] = t, execution'[e] = "awaiting_approval"
      PROVE  FALSE
  <2>1. ExecutionMove(e) /\ execution[e] # "awaiting_approval"
    BY <1>4 DEF ExecutionMoves, Done
  <2>2. ~Stale(e)
    BY <1>4, <2>1 DEF ExecutionMove, ExecTerminal
  <2> QED
    BY <1>4, <2>2 DEF Stale, Renewable, Standing, Active, Done
<1> QED
  BY <1>1, <1>3, <1>4 DEF Done

\* open() hands the read scope of a completed request to a child; nothing reopens the request.
LEMMA ChildOfDoneNext ==
  ASSUME Lineage, Forward, Standing, ChildOfDone, TaskMoves, ExecutionMoves, [Next]_vars
  PROVE  ChildOfDone'
<1> SUFFICES ASSUME NEW c \in Requests, parent'[c] # None PROVE Done(parent[c])'
  BY DEF ChildOfDone, Done
<1>1. CASE parent'[c] = parent[c]
  <2>1. c \in Tasks /\ parent[c] \in Requests
    BY <1>1 DEF Tasks, Lineage, TypeOK, TaskTypeOK
  <2>2. Done(parent[c]) /\ parent[c] \in Tasks
    BY <1>1, <2>1 DEF ChildOfDone, Tasks
  <2> DEFINE d == parent[c]
  <2>3. \A t \in Tasks : Done(t) => Done(t)'
    BY DoneKept
  <2>4. \A t \in Tasks : t = parent'[c] /\ Done(t)' => Done(parent[c])'
    BY DEF Done, PlansOf
  <2> QED
    BY <1>1, <2>2, <2>3, <2>4
<1>2. CASE parent'[c] # parent[c]
  <2>1. PICK w \in Workers : parent'[c] \in Requests /\ OpenDraft(parent'[c], c, w)
    BY <1>2, ParentMoves DEF Lineage
  <2>2. \A d \in Requests : OpenDraft(d, c, w) => Done(d)'
    BY OpenDraftDone
  <2>3. \A t \in Requests : t = parent'[c] /\ Done(t)' => Done(parent[c])'
    BY DEF Done, PlansOf
  <2> QED
    BY <2>1, <2>2, <2>3
<1> QED
  BY <1>1, <1>2

\* Only the thread's own execution could make a plan, and it is asked to stop.
LEMMA CancelHasNoPlanNext ==
  ASSUME Lineage, Lineage', Forward, CancelHasNoPlan, ExecutionMoves, [Next]_vars
  PROVE  CancelHasNoPlan'
<1> SUFFICES ASSUME NEW e \in Executions, execution'[e] = "cancelling", current'[e[1]] = e[2]
             PROVE  OpenPlans(e[1])' = {}
  BY DEF CancelHasNoPlan
<1>1. CASE execution[e] = "cancelling"
  <2> DEFINE t == e[1]
  <2>1. t \in Tasks /\ current[t] = e[2]
    <3>1. t \in Tasks /\ e[2] \in Nat
      BY DEF Executions
    <3>2. ~(e[2] > current[t])
      BY <1>1 DEF Lineage, Beyond, Unreached
    <3>3. current[t] <= e[2] /\ current[t] \in Nat
      BY <3>1 DEF Lineage, Forward, CurrentGrows, TypeOK, TaskTypeOK
    <3> QED
      BY <3>1, <3>2, <3>3
  <2>2. OpenPlans(t) = {}
    BY <1>1, <2>1 DEF CancelHasNoPlan
  <2>3. ASSUME NEW x \in Executions, x[1] = t, OwnsExecution(x) PROVE FALSE
    <3>0. x[2] = e[2]
      BY <2>1, <2>3 DEF OwnsExecution
    <3>1. x = e
      BY <2>3, <3>0 DEF Executions
    <3> QED
      BY <1>1, <2>3, <3>1 DEF OwnsExecution
  <2>4. PlansOf(t)' = PlansOf(t)
    BY <2>1, <2>3, PlansOfMoves
  <2>5. ASSUME NEW p \in PlansOf(t), plan'[p] \in PlanOpen PROVE p \in OpenPlans(t)
    <3>1. p \in Plans /\ plan[p] # "none"
      BY DEF PlansOf, Lineage, Records, Origin
    <3>2. plan'[p] = plan[p] \/ plan[p] \in PlanOpen
      BY <2>5, <3>1, PlanMoves DEF Lineage, PlanOpen
    <3> QED
      BY <2>5, <3>2 DEF OpenPlans, PlanOpen
  <2> QED
    BY <2>2, <2>4, <2>5 DEF OpenPlans, PlanOpen
<1>2. CASE execution[e] # "cancelling"
  BY <1>2 DEF ExecutionMoves, ExecutionMove, ExecTerminal
<1> QED
  BY <1>1, <1>2

\* execute() settles a cancellation the owner asked for, and what ends it is final.
LEMMA CancelReplyNext ==
  ASSUME Lineage, Forward, CancelReply, ExecutionMoves, [Next]_vars
  PROVE  CancelReply'
<1> SUFFICES ASSUME NEW e \in Executions, pc'[e] = "finish", reply'[e] = "cancelled"
             PROVE  execution'[e] = "cancelling" \/ execution'[e] \in ExecTerminal
  BY DEF CancelReply
<1> USE DEF Lineage, TypeOK, ThreadTypeOK
<1>1. \/ pc'[e] = pc[e] /\ reply'[e] = reply[e]
      \/ Settle(e) /\ execution[e] = "cancelling"
  <2>1. ASSUME NEW w \in Workers, Crash(w) PROVE pc'[e] = pc[e] /\ reply'[e] = reply[e]
    BY <2>1 DEF Crash, Assign
  <2>2. ASSUME NEW w \in Workers, NEW t \in Tasks, Claim(t, w)
        PROVE  pc'[e] = pc[e] /\ reply'[e] = reply[e]
    BY <2>2 DEF Claim
  <2>3. ASSUME NEW x \in Executions, Thread(x), x # e
        PROVE  pc'[e] = pc[e] /\ reply'[e] = reply[e]
    <3>1. ASSUME NEW v, pc' = [pc EXCEPT ![x] = v] PROVE pc'[e] = pc[e]
      BY <2>3, <3>1
    <3>2. ASSUME NEW v, reply' = [reply EXCEPT ![x] = v] PROVE reply'[e] = reply[e]
      BY <2>3, <3>2
    <3>3. ASSUME NEW r, Conclude(x, r) PROVE pc'[e] = pc[e] /\ reply'[e] = reply[e]
      BY <3>3, <2>3 DEF Conclude
    <3>4. CASE Settle(x)
      BY <2>3, <3>4 DEF Settle
    <3>5. CASE Finish(x)
      BY <2>3, <3>5, Zenon DEF Finish
    <3>6. CASE ~Settle(x) /\ ~Finish(x)
      <4>1. \/ /\ UNCHANGED pc \/ \E v : pc' = [pc EXCEPT ![x] = v]
               /\ UNCHANGED reply \/ \E v : reply' = [reply EXCEPT ![x] = v]
            \/ \E r : Conclude(x, r)
        <5>1. CASE Start(x) \/ ModelReturns(x) \/ RequestScope(x) \/ OpenOwnDraft(x) \/ Preview(x)
          BY <5>1, Zenon DEF Start, ModelReturns, RequestScope, OpenOwnDraft, Preview
        <5>2. CASE Propose(x) \/ Clear(x)
          BY <5>2, Zenon DEF Propose, Clear
        <5>3. CASE Apply(x)
          BY <5>3, Zenon DEF Apply, ApplyBegin, ApplyBreaks, ApplyCommit, ApplyUndo, Mutate, JournalApplied
        <5> QED
          BY <2>3, <3>6, <5>1, <5>2, <5>3, Zenon DEF Thread, Request
      <4> QED
        BY <3>1, <3>2, <3>3, <4>1
    <3> QED
      BY <3>4, <3>5, <3>6
  <2>4. CASE Thread(e)
    <3>1. CASE Settle(e)
      BY <3>1 DEF Settle
    <3>2. CASE ApplyUndo(e)
      BY <3>2 DEF ApplyUndo, Concluded
    <3>3. CASE ~Settle(e) /\ ~ApplyUndo(e)
      <4>1. ASSUME NEW r, Conclude(e, r) PROVE FALSE
        BY <4>1 DEF Conclude
      <4>2. ASSUME NEW v, v # "finish", pc' = [pc EXCEPT ![e] = v] PROVE FALSE
        BY <4>2
      <4>3. pc' # [pc EXCEPT ![e] = "done"] 
        BY <4>2
      <4>4. ~Finish(e)
        BY <4>3, Zenon DEF Finish
      <4>5. (UNCHANGED <<pc, reply>>) \/ \E v : v # "finish" /\ pc' = [pc EXCEPT ![e] = v]
        <5>1. CASE Start(e) \/ ModelReturns(e) \/ RequestScope(e) \/ OpenOwnDraft(e) \/ Preview(e)
          BY <5>1, <4>1, Zenon DEF Start, ModelReturns, RequestScope, OpenOwnDraft, Preview
        <5>2. CASE Propose(e) \/ Clear(e)
          BY <5>2, <4>1, Zenon DEF Propose, Clear
        <5>3. CASE Apply(e)
          BY <5>3, <3>3, <4>1, Zenon DEF Apply, ApplyBegin, ApplyBreaks, ApplyCommit, Mutate, JournalApplied
        <5> QED
          BY <2>4, <3>3, <4>4, <5>1, <5>2, <5>3, Zenon DEF Thread, Request
      <4> QED
        BY <4>2, <4>5
    <3> QED
      BY <3>1, <3>2, <3>3
  <2>5. CASE UNCHANGED <<pc, reply, using>>
    BY <2>5
  <2> QED
    BY <2>1, <2>2, <2>3, <2>4, <2>5, ThreadFrame
<1>2. CASE execution[e] = "cancelling"
  <2>1. ~Finish(e)
    <3> SUFFICES ASSUME pc' = [pc EXCEPT ![e] = "done"] PROVE FALSE
      BY Zenon DEF Finish
    <3> QED
      OBVIOUS
  <2> QED
    BY <1>2, <2>1 DEF ExecutionMoves, ExecutionMove, ExecTerminal
<1>3. CASE pc[e] = "finish" /\ reply[e] = "cancelled"
  BY <1>2, <1>3 DEF CancelReply, Forward, ExecutionsMove
<1> QED
  BY <1>1, <1>2, <1>3

-----------------------------------------------------------------------------
\* A task gets its next execution from claim(), or its first from record_start_failure.
LEMMA CurrentMoves ==
  ASSUME TypeOK, [Next]_vars, NEW t \in Tasks, current'[t] # current[t]
  PROVE  \/ \E w \in Workers : Claim(t, w)
         \/ current[t] = 0 /\ status'[t] = "blocked"
<1>1. TaskStep
  BY TaskFrame DEF TaskRows
<1>2. ASSUME NEW u \in Tasks, NEW w \in Workers, Claim(u, w)
      PROVE  u = t
  <2>1. current' = [current EXCEPT ![u] = current[u] + 1]
    BY <1>2, Zenon DEF Claim
  <2> QED
    BY <2>1 DEF TypeOK, TaskTypeOK
<1>3. ASSUME NEW u \in Tasks, RecordStartFailure(u)
      PROVE  current[t] = 0 /\ status'[t] = "blocked"
  <2>1. status[u] = "blocked" /\ current[u] = 0 /\ current' = [current EXCEPT ![u] = 1]
    BY <1>3, Zenon DEF RecordStartFailure
  <2>2. UNCHANGED status
    BY <1>3, Zenon DEF RecordStartFailure
  <2> QED
    BY <2>1, <2>2 DEF TypeOK, TaskTypeOK
<1>4. CASE Recover \/ SettleExpired \/ MaintainDrafts
  BY <1>4, Zenon DEF Recover, SettleExpired, MaintainDrafts
<1>5. CASE \E u \in Tasks : Cancel(u)
  BY <1>5, Zenon DEF Cancel
<1>6. CASE \E u \in Tasks, w \in Workers : Submit(u, w) \/ SubmitUnlaunched(u, w) \/ Resume(u, w)
  BY <1>6, Zenon DEF Submit, SubmitUnlaunched, Resume
<1>7. CASE (\E p \in Plans : Revoke(p) \/ Resolve(p)) \/ \E d \in Requests : CloseDraft(d)
  BY <1>7, Zenon DEF Revoke, Resolve, CloseDraft
<1>8. CASE \/ \E p \in Plans, c \in Applies, w \in Workers : Approve(p, c, w)
           \/ \E d, c \in Requests, w \in Workers : OpenDraft(d, c, w)
  BY <1>8, Zenon DEF Approve, OpenDraft
<1>9. CASE \E e \in Executions, k \in {"approved", "rejected", "expired"} : DecideApproval(e, k)
  BY <1>9, Zenon DEF DecideApproval
<1>10. CASE \E e \in Executions : Propose(e) \/ Clear(e) \/ Finish(e)
  BY <1>10, Zenon DEF Propose, Clear, Finish
<1> QED
  BY <1>1, <1>2, <1>3, <1>4, <1>5, <1>6, <1>7, <1>8, <1>9, <1>10 DEF TaskStep

\* While a result is being sent, or in doubt, no later attempt begins.
LEMMA SendingIsCurrentNext ==
  ASSUME Lineage, Guarded, QueuedAnswered, SendingIsCurrent, [Next]_vars
  PROVE  SendingIsCurrent'
<1> SUFFICES ASSUME NEW e \in Executions, delivery'[e] \in {"sending", "uncertain"}
             PROVE  current'[e[1]] = e[2]
  BY DEF SendingIsCurrent
<1>1. e[1] \in Tasks /\ e[2] \in 1 .. MaxExecs /\ e = <<e[1], e[2]>>
  BY DEF Executions
<1>2. CASE delivery'[e] # delivery[e]
  <2>1. /\ delivery'[e] = "sending" => e[2] = current[e[1]] /\ UNCHANGED current
        /\ delivery'[e] = "uncertain" => delivery[e] = "sending" /\ UNCHANGED current
    BY <1>2, DeliveryMoves DEF Lineage
  <2> QED
    BY <2>1 DEF SendingIsCurrent
<1>3. CASE delivery'[e] = delivery[e]
  <2>1. current[e[1]] = e[2]
    BY <1>3 DEF SendingIsCurrent
  <2>2. ASSUME NEW w \in Workers, Claim(e[1], w) PROVE FALSE
    <3>1. status[e[1]] = "queued"
      BY <2>2 DEF Claim, Claimable
    <3>2. Answered(e[1])
      BY <1>1, <3>1 DEF QueuedAnswered
    <3> QED
      BY <1>1, <1>3, <2>1, <3>2 DEF Answered
  <2> QED
    BY <1>1, <2>1, <2>2, CurrentMoves DEF Lineage
<1> QED
  BY <1>2, <1>3

\* resume() asks the owner about a delivery that is in doubt before it queues a new attempt.
LEMMA QueuedAnsweredNext ==
  ASSUME Lineage, Guarded, QueuedAnswered, TaskMoves, [Next]_vars
  PROVE  QueuedAnswered'
<1> SUFFICES ASSUME NEW t \in Tasks, status'[t] = "queued", current'[t] > 0
             PROVE  delivery'[<<t, current'[t]>>] \notin {"sending", "uncertain"}
  BY DEF QueuedAnswered, Answered
<1>1. ASSUME NEW w \in Workers PROVE ~Claim(t, w)
  BY DEF Claim, Lineage, TypeOK, TaskTypeOK
<1>2. current'[t] = current[t]
  BY <1>1, CurrentMoves DEF Lineage
<1>3. Answered(t)
  BY <1>1 DEF TaskMoves, TaskMove, QueuedAnswered, Active
<1> DEFINE e == <<t, current[t]>>
<1>4. e \in Executions /\ delivery[e] \notin {"sending", "uncertain"}
  BY <1>2, <1>3 DEF Answered, Executions, Lineage, TypeOK, TaskTypeOK
<1>5. CASE delivery'[e] # delivery[e]
  <2>1. /\ delivery'[e] = "sending" => status[t] # "queued" /\ UNCHANGED status
        /\ delivery'[e] = "uncertain" => delivery[e] = "sending"
    BY <1>4, <1>5, DeliveryMoves DEF Lineage
  <2> QED
    BY <1>2, <1>4, <2>1
<1> QED
  BY <1>2, <1>4, <1>5

\* finish() records the approval of a read scope together with the result.
LEMMA ScopedPastNext ==
  ASSUME Lineage, Guarded, ScopedPast, [Next]_vars
  PROVE  ScopedPast'
<1>1. ASSUME NEW e \in Executions, delivery[e] # "none" PROVE delivery'[e] # "none"
  BY <1>1, DeliveryMoves DEF Lineage
<1>2. CASE UNCHANGED scoped
  BY <1>1, <1>2 DEF ScopedPast, Lineage, TypeOK, ReviewTypeOK
<1>3. ASSUME NEW x \in Executions, Finish(x) PROVE ScopedPast'
  <2>1. CASE UNCHANGED scoped
    BY <1>2, <2>1
  <2>2. CASE ~UNCHANGED scoped
    <3>1. scoped' = scoped \cup {x} /\ delivery' = [delivery EXCEPT ![x] = "pending"]
      BY <1>3, <2>2, Zenon DEF Finish, reviewVars
    <3>2. delivery'[x] # "none"
      BY <3>1 DEF Lineage, TypeOK, ResultTypeOK
    <3> QED
      BY <1>1, <3>1, <3>2 DEF ScopedPast, Lineage, TypeOK, ReviewTypeOK
  <2> QED
    BY <2>1, <2>2
<1>4. CASE ~TaskStep
  BY <1>2, <1>4, TaskFrame DEF TaskRows
<1>5. CASE Recover \/ SettleExpired \/ MaintainDrafts
  BY <1>2, <1>5, Zenon DEF Recover, SettleExpired, MaintainDrafts, reviewVars
<1>6. CASE \E t \in Tasks : Cancel(t) \/ RecordStartFailure(t)
  BY <1>2, <1>6, Zenon DEF Cancel, RecordStartFailure, reviewVars
<1>7. CASE \E t \in Tasks, w \in Workers : Claim(t, w) \/ Submit(t, w) \/ SubmitUnlaunched(t, w) \/ Resume(t, w)
  <2>1. CASE \E t \in Tasks, w \in Workers : Claim(t, w) \/ Submit(t, w)
    BY <1>2, <2>1, Zenon DEF Claim, Submit, reviewVars
  <2>2. CASE \E t \in Tasks, w \in Workers : SubmitUnlaunched(t, w) \/ Resume(t, w)
    BY <1>2, <2>2, Zenon DEF SubmitUnlaunched, Resume, reviewVars
  <2> QED
    BY <1>7, <2>1, <2>2
<1>8. CASE (\E p \in Plans : Revoke(p) \/ Resolve(p)) \/ \E d \in Requests : CloseDraft(d)
  BY <1>2, <1>8, Zenon DEF Revoke, Resolve, CloseDraft, reviewVars
<1>9. CASE \/ \E p \in Plans, c \in Applies, w \in Workers : Approve(p, c, w)
           \/ \E d, c \in Requests, w \in Workers : OpenDraft(d, c, w)
  BY <1>2, <1>9, Zenon DEF Approve, OpenDraft
<1>10. CASE \E e \in Executions, k \in {"approved", "rejected", "expired"} : DecideApproval(e, k)
  BY <1>2, <1>10, Zenon DEF DecideApproval
<1>11. CASE \E e \in Executions : Propose(e) \/ Clear(e)
  BY <1>2, <1>11, ZenonT(30) DEF Propose, Clear, LinkPlan, reviewVars
<1> QED
  BY <1>3, <1>4, <1>5, <1>6, <1>7, <1>8, <1>9, <1>10, <1>11 DEF TaskStep

\* Whatever keeps to the conduct keeps everything.
LEMMA GovernedKept ==
  ASSUME Governed, Lineage', Forward, Guarded', Conduct, [Next]_vars
  PROVE  Governed'
<1>1. Standing' /\ TurnsAlone'
  BY StandingNext, TurnsAloneNext DEF Governed, Lineage, Conduct
<1>2. QueuedAnswered' /\ SendingIsCurrent'
  BY QueuedAnsweredNext, SendingIsCurrentNext DEF Governed, Conduct
<1>3. ScopedPast'
  BY ScopedPastNext DEF Governed
<1>4. CancelledIsClosed'
  <2> SUFFICES ASSUME NEW t \in Tasks, status'[t] = "cancelled" PROVE Inert(t)'
    BY DEF CancelledIsClosed, Inert
  <2>1. CASE status[t] = "cancelled"
    <3>1. Inert(t)
      BY <2>1 DEF Governed, CancelledIsClosed, Inert
    <3> QED
      BY <2>1, <3>1, InertKept DEF Governed, CanDecide
  <2> QED
    BY <2>1 DEF Conduct, Closes
<1>5. CompletedIsApplied'
  <2> SUFFICES ASSUME NEW c \in Applies, status'[c] = "completed"
               PROVE  plan'[target'[c]] \in {"applied", "reconciled"}
    BY DEF CompletedIsApplied
  <2>1. CASE status[c] = "completed"
    <3>1. plan[target[c]] \in {"applied", "reconciled"} /\ Started(c) /\ c \in Tasks
      BY <2>1 DEF Governed, CompletedIsApplied, Started, Tasks
    <3>2. target[c] \in Plans /\ target'[c] = target[c]
      BY <3>1 DEF Governed, Lineage, Records, ApplyParent, Forward, TasksStay
    <3> QED
      BY <3>1, <3>2, AppliedStays DEF Governed
  <2>2. CASE status[c] # "completed"
    <3>1. plan'[target[c]] \in {"applied", "reconciled"}
      BY <2>2 DEF Conduct, Completed
    <3>2. CASE Started(c)
      BY <3>1, <3>2 DEF Forward, TasksStay, Tasks
    <3>3. CASE ~Started(c)
      BY <2>2, <3>3 DEF Conduct, TaskMoves, TaskMove, Started, Tasks, Active, Claim, Claimable
    <3> QED
      BY <3>2, <3>3
  <2> QED
    BY <2>1, <2>2
<1>6. ChildOfDone' /\ CancelHasNoPlan' /\ CancelReply'
  BY ChildOfDoneNext, CancelHasNoPlanNext, CancelReplyNext DEF Governed, Conduct
<1> QED
  BY <1>1, <1>2, <1>3, <1>4, <1>5, <1>6 DEF Governed, Conduct

-----------------------------------------------------------------------------
\* A review that goes on keeps its task waiting, its execution and its plans; a plan is
\* approved together with its review.
LEMMA ReviewingKept ==
  ASSUME Lineage, Forward, Reviewing, [Next]_vars, UNCHANGED scoped,
         \A e \in Executions : approval'[e] = "pending" =>
           /\ approval[e] = "pending"
           /\ status'[e[1]] = "awaiting_approval" /\ execution'[e] = "awaiting_approval"
           /\ current'[e[1]] = current[e[1]]
           /\ \A p \in PlansOf(e[1]) : plan'[p] # "approved"
  PROVE  Reviewing'
<1> SUFFICES ASSUME NEW e \in Executions, approval'[e] = "pending" PROVE Waiting(e)'
  BY DEF Reviewing
<1>1. Waiting(e)
  BY DEF Reviewing
<1>2. PlansOf(e[1])' = PlansOf(e[1])
  BY <1>1, PlansOfMoves DEF Waiting, OwnsExecution, Executions
<1>3. ASSUME NEW p \in PlansOf(e[1]) PROVE plan'[p] \in {"pending", "revoked", "expired"}
  <2>1. p \in Plans /\ plan[p] \in {"pending", "revoked", "expired"} /\ plan'[p] # "approved"
    BY <1>1 DEF PlansOf, Waiting
  <2> QED
    BY <2>1, PlanMoves DEF Lineage, PlanOpen
<1> QED
  BY <1>1, <1>2, <1>3 DEF Waiting

PlanGone == {"revoked", "expired", "reconciled"}

\* A task that goes on waiting keeps a plan, or its read scope.
LEMMA SubjectsKept ==
  ASSUME Lineage, Forward, [Next]_vars, ReviewHasSubject,
         \A t \in Tasks : status'[t] = "awaiting_approval" =>
           /\ status[t] = "awaiting_approval"
           /\ \A p \in PlansOf(t) : plan'[p] \in PlanGone => plan[p] \in PlanGone
           /\ t \in Requests /\ draft[t] = "pending" => draft'[t] = "pending"
  PROVE  ReviewHasSubject'
<1>1. \A t \in Tasks : PlansOf(t) \subseteq PlansOf(t)'
  BY PlansOfMoves
<1> SUFFICES ASSUME NEW t \in Tasks, status'[t] = "awaiting_approval"
             PROVE  \/ \E p \in PlansOf(t) : plan'[p] \notin PlanGone
                    \/ t \in Requests /\ draft'[t] = "pending"
  BY <1>1 DEF ReviewHasSubject, PlanGone
<1> QED
  BY DEF ReviewHasSubject, PlanGone

\* Transactions that touch neither plans nor drafts, and neither end a task nor start a
\* review.
LEMMA ConductPlain ==
  ASSUME Governed, Forward, [Next]_vars, UNCHANGED <<plan, scoped, draft>>,
         TaskMoves, ExecutionMoves,
         \A t \in Tasks : status'[t] \in {"awaiting_approval", "completed", "cancelled"}
                            => status'[t] = status[t],
         \A e \in Executions : approval'[e] = "pending" =>
           /\ approval[e] = "pending"
           /\ status[e[1]] = "awaiting_approval" /\ execution[e] = "awaiting_approval" =>
                /\ status'[e[1]] = status[e[1]] /\ execution'[e] = execution[e]
                /\ current'[e[1]] = current[e[1]]
  PROVE  Conduct
<1>1. Reviewing'
  <2>1. ASSUME NEW e \in Executions, approval[e] = "pending"
        PROVE  /\ status[e[1]] = "awaiting_approval" /\ execution[e] = "awaiting_approval"
               /\ \A p \in PlansOf(e[1]) : plan'[p] # "approved"
    BY <2>1 DEF Governed, Reviewing, Waiting
  <2> QED
    BY <2>1, ReviewingKept DEF Governed
<1>2. ReviewHasSubject'
  BY SubjectsKept DEF Governed
<1> QED
  BY <1>1, <1>2 DEF Conduct, Closes, Completed, Tasks

\* The tasks of reviews.
LEMMA ReviewedTasks ==
  ASSUME Governed, NEW e \in Executions, approval[e] = "pending"
  PROVE  /\ e[1] \in Tasks /\ e = <<e[1], current[e[1]]>>
         /\ status[e[1]] = "awaiting_approval" /\ execution[e] = "awaiting_approval"
         /\ ~eligible[e[1]] /\ claim[e[1]] # "held"
BY DEF Governed, Reviewing, Waiting, Standing, Active, Executions

\* recover() releases the claims of what it holds.
LEMMA ConductRecover ==
  ASSUME Governed, Forward, [Next]_vars, Recover
  PROVE  Conduct
<1> USE DEF Governed, Lineage, TypeOK, TaskTypeOK, ClaimTypeOK, ResultTypeOK
<1> DEFINE S == {t \in Interrupted : current[t] > 0}
<1>1. /\ status' = Assign(status, Interrupted, "blocked")
      /\ eligible' = Assign(eligible, Interrupted, FALSE)
      /\ execution' = Assign(execution, {e \in CurrentOf(S) : execution[e] \notin ExecTerminal}, "lost")
      /\ claim' = Released(S)
      /\ UNCHANGED <<plan, planExec, scoped, draft, approval, current>>
  BY DEF Recover, planVars, reviewVars, draftVars
<1>2. TaskMoves
  <2> SUFFICES ASSUME NEW t \in Tasks PROVE TaskMove(t)
    BY DEF TaskMoves
  <2>1. CASE t \in Interrupted
    <3>1. status[t] \in {"queued", "running", "cancelling"} /\ status'[t] = "blocked" /\ ~eligible'[t]
      BY <1>1, <2>1 DEF Interrupted, Assign
    <3>2. claim[t] = "held" => t \in S
      <4>1. t \in Tasks /\ t \in Interrupted /\ current[t] \in Nat
        BY <2>1
      <4>2. claim[t] = "held" => current[t] >= 1
        BY DEF Guarded, Fenced, Claimed
      <4> QED
        BY <4>1, <4>2
    <3>3. claim'[t] # "held"
      BY <1>1, <3>2 DEF Released, Assign
    <3> QED
      BY <3>1, <3>3 DEF TaskMove, Done
  <2>2. CASE t \notin Interrupted
    BY <1>1, <2>2 DEF Assign, Released, TaskMove
  <2> QED
    BY <2>1, <2>2
<1>3. ExecutionMoves
  BY <1>1 DEF ExecutionMoves, ExecutionMove, Assign, ExecTerminal
<1>4. \A t \in Tasks : status'[t] \in {"awaiting_approval", "completed", "cancelled"}
                         => status'[t] = status[t]
  BY <1>1 DEF Assign
<1>5. \A e \in Executions : status[e[1]] = "awaiting_approval" =>
        status'[e[1]] = status[e[1]] /\ execution'[e] = execution[e]
  BY <1>1 DEF Assign, CurrentOf, Interrupted, Executions
<1> QED
  BY <1>1, <1>2, <1>3, <1>4, <1>5, ConductPlain

\* claim() opens an execution the task had not reached.
LEMMA ConductClaim ==
  ASSUME Governed, Forward, [Next]_vars, NEW t \in Tasks, NEW w \in Workers, Claim(t, w)
  PROVE  Conduct
<1> USE DEF Governed, Lineage, TypeOK, TaskTypeOK, ClaimTypeOK, ResultTypeOK
<1> DEFINE n == current[t] + 1
<1>1. /\ status' = [status EXCEPT ![t] = "running"] /\ status[t] = "queued"
      /\ execution' = [execution EXCEPT ![<<t, n>>] = "running"]
      /\ claim' = [claim EXCEPT ![t] = "held"]
      /\ current' = [current EXCEPT ![t] = n]
      /\ UNCHANGED <<plan, planExec, scoped, draft, approval, eligible>>
  BY DEF Claim, Claimable, planVars, reviewVars, draftVars
<1>2. TaskMoves
  <2>1. TaskMove(t)
    BY DEF TaskMove
  <2>2. ASSUME NEW u \in Tasks, u # t PROVE TaskMove(u)
    BY <1>1, <2>2 DEF TaskMove
  <2> QED
    BY <2>1, <2>2 DEF TaskMoves
<1>3. ExecutionMoves
  <2> SUFFICES ASSUME NEW e \in Executions, execution'[e] # execution[e] PROVE ExecutionMove(e)
    BY DEF ExecutionMoves, ExecutionMove
  <2>1. e = <<t, n>> /\ execution'[e] = "running"
    BY <1>1
  <2>2. execution[e] = "none"
    BY <2>1 DEF Beyond, Unreached
  <2> QED
    BY <2>1, <2>2 DEF ExecutionMove
<1>4. \A u \in Tasks : status'[u] \in {"awaiting_approval", "completed", "cancelled"}
                         => status'[u] = status[u]
  BY <1>1
<1>5. \A e \in Executions : status[e[1]] = "awaiting_approval" =>
        status'[e[1]] = status[e[1]] /\ execution'[e] = execution[e] /\ current'[e[1]] = current[e[1]]
  BY <1>1 DEF Executions
<1> QED
  BY <1>1, <1>2, <1>3, <1>4, <1>5, ConductPlain

\* A submitter that could not launch a worker records a failed execution of a held task.
LEMMA ConductRecordStartFailure ==
  ASSUME Governed, Forward, [Next]_vars, NEW t \in Tasks, RecordStartFailure(t)
  PROVE  Conduct
<1> USE DEF Governed, Lineage, TypeOK, TaskTypeOK, ClaimTypeOK, ResultTypeOK
<1>1. UNCHANGED <<plan, planExec, scoped, draft, approval, eligible, status, claim>>
  BY Zenon DEF RecordStartFailure, planVars, reviewVars, draftVars, claimVars
<1>2. \/ UNCHANGED <<execution, current>>
      \/ /\ status[t] = "blocked" /\ execution' = [execution EXCEPT ![<<t, 1>>] = "failed"]
         /\ current' = [current EXCEPT ![t] = 1]
  BY Zenon DEF RecordStartFailure
<1>3. TaskMoves
  BY <1>1 DEF TaskMoves, TaskMove
<1>4. ExecutionMoves
  BY <1>2 DEF ExecutionMoves, ExecutionMove, ExecTerminal
<1>5. \A e \in Executions : status[e[1]] = "awaiting_approval" =>
        execution'[e] = execution[e] /\ current'[e[1]] = current[e[1]]
  BY <1>2 DEF Executions
<1> QED
  BY <1>1, <1>3, <1>4, <1>5, ConductPlain

\* A request that is submitted has not been claimed before.
LEMMA Unclaimed ==
  ASSUME Governed, NEW t \in Tasks, status[t] = "none"
  PROVE  ~Claimed(t) /\ Answered(t)
BY DEF Governed, Lineage, Records, Begun, Started, Guarded, Fenced, Answered

\* submit() inserts one task.
LEMMA ConductSubmit ==
  ASSUME Governed, Forward, [Next]_vars, NEW t \in Tasks, NEW w \in Workers,
         Submit(t, w) \/ SubmitUnlaunched(t, w)
  PROVE  Conduct
<1> USE DEF Governed, Lineage, TypeOK, TaskTypeOK, ClaimTypeOK, ResultTypeOK
<1>1. PICK d : InsertTask(t, w, None, d, status)
  BY Zenon DEF Submit, SubmitUnlaunched
<1>2. /\ status' = [status EXCEPT ![t] = "queued"] /\ status[t] = "none"
      /\ eligible' = [eligible EXCEPT ![t] = TRUE]
  BY <1>1 DEF InsertTask
<1>3. UNCHANGED <<plan, planExec, scoped, draft, approval, claim, execution, current>>
  BY Zenon DEF Submit, SubmitUnlaunched, planVars, reviewVars, draftVars, claimVars, resultVars
<1>4. TaskMoves
  <2>1. TaskMove(t)
    BY <1>2, <1>3, Unclaimed DEF TaskMove
  <2>2. ASSUME NEW u \in Tasks, u # t PROVE TaskMove(u)
    BY <1>2, <1>3, <2>2 DEF TaskMove
  <2> QED
    BY <2>1, <2>2 DEF TaskMoves
<1>5. ExecutionMoves
  BY <1>3 DEF ExecutionMoves, ExecutionMove
<1>6. \A e \in Executions : status[e[1]] = "awaiting_approval" => status'[e[1]] = status[e[1]]
  BY <1>2 DEF Executions
<1> QED
  BY <1>2, <1>3, <1>4, <1>5, <1>6, ConductPlain

\* A run of the task leaves it unresolved, and so does an application of its plan that is
\* under way or in doubt.
LEMMA RunUnresolved ==
  ASSUME NEW t, NEW ex, NEW pl, NEW res, NEW counted,
         NEW e \in Executions, e[1] = t, ex[e] \in counted, ex[e] # "lost"
  PROVE  UnresolvedGiven(t, ex, pl, res, counted)
BY DEF UnresolvedGiven

LEMMA PlanUnresolved ==
  ASSUME NEW t, NEW ex, NEW pl, NEW res, NEW counted,
         NEW p \in PlansOf(t), pl[p] \in {"applying", "uncertain"}
  PROVE  UnresolvedGiven(t, ex, pl, res, counted)
BY DEF UnresolvedGiven

\* A task under a claim has an execution to wait for, and is not resumed.
LEMMA ConductResume ==
  ASSUME Governed, Forward, [Next]_vars, NEW t \in Tasks, NEW w \in Workers, Resume(t, w)
  PROVE  Conduct
<1> USE DEF Governed, Lineage, TypeOK, TaskTypeOK, ClaimTypeOK, ResultTypeOK
<1>1. /\ status' = [status EXCEPT ![t] = "queued"] /\ status[t] \in {"blocked", "failed"}
      /\ eligible' = [eligible EXCEPT ![t] = TRUE]
      /\ Answered(t) /\ ~UnresolvedActive(t)
      /\ UNCHANGED <<plan, planExec, scoped, draft, approval, claim, execution, current>>
  BY DEF Resume, planVars, reviewVars, draftVars, claimVars, resultVars
<1>2. ~Claimed(t)
  <2> SUFFICES ASSUME Claimed(t) PROVE FALSE
    OBVIOUS
  <2> DEFINE e == <<t, current[t]>>
  <2>1. e \in Executions /\ e[1] = t /\ execution[e] \in InDoubt \ {"lost"}
    BY DEF Guarded, Fenced, Ongoing, InDoubt, Executions
  <2>2. UnresolvedActive(t)
    BY <2>1, RunUnresolved DEF UnresolvedActive
  <2> QED
    BY <1>1, <2>2
<1>3. TaskMoves
  <2>1. TaskMove(t)
    BY <1>1, <1>2 DEF TaskMove
  <2>2. ASSUME NEW u \in Tasks, u # t PROVE TaskMove(u)
    BY <1>1, <2>2 DEF TaskMove
  <2> QED
    BY <2>1, <2>2 DEF TaskMoves
<1>4. ExecutionMoves
  BY <1>1 DEF ExecutionMoves, ExecutionMove
<1>5. \A e \in Executions : status[e[1]] = "awaiting_approval" => status'[e[1]] = status[e[1]]
  BY <1>1 DEF Executions
<1> QED
  BY <1>1, <1>3, <1>4, <1>5, ConductPlain

\* The dashboard's decision on an approval is about the only review of its task.
LEMMA ConductDecideApproval ==
  ASSUME Governed, Forward, [Next]_vars, NEW e \in Executions,
         NEW k \in {"approved", "rejected", "expired"}, DecideApproval(e, k)
  PROVE  Conduct
<1> USE DEF Governed, Lineage, TypeOK, TaskTypeOK, ReviewTypeOK
<1>1. /\ approval[e] = "pending" /\ approval' = [approval EXCEPT ![e] = k]
      /\ status' = status \/ status' = [status EXCEPT ![e[1]] = "blocked"]
      /\ UNCHANGED <<plan, planExec, scoped, draft, claim, execution, current, eligible>>
  BY DEF DecideApproval, planVars, draftVars, claimVars, resultVars
<1>2. /\ e[1] \in Tasks /\ e = <<e[1], current[e[1]]>>
      /\ status[e[1]] = "awaiting_approval" /\ ~eligible[e[1]] /\ claim[e[1]] # "held"
  BY <1>1, ReviewedTasks
<1>3. TaskMoves
  <2>1. TaskMove(e[1])
    BY <1>1, <1>2 DEF TaskMove, Done
  <2>2. ASSUME NEW u \in Tasks, u # e[1] PROVE TaskMove(u)
    BY <1>1, <2>2 DEF TaskMove
  <2> QED
    BY <2>1, <2>2 DEF TaskMoves
<1>4. ExecutionMoves
  BY <1>1 DEF ExecutionMoves, ExecutionMove
<1>5. ASSUME NEW x \in Executions, approval'[x] = "pending"
      PROVE  approval[x] = "pending" /\ status'[x[1]] = status[x[1]]
  <2>1. x # e /\ approval[x] = "pending"
    BY <1>1, <1>5
  <2>2. x = <<x[1], current[x[1]]>>
    BY <2>1, ReviewedTasks
  <2> QED
    BY <1>1, <1>2, <2>1, <2>2 DEF Executions
<1> QED
  BY <1>1, <1>3, <1>4, <1>5, ConductPlain

-----------------------------------------------------------------------------
\* What is outside TaskStep lets at most a lease expire, and changes plans only by
\* applying them.
LEMMA OutsideMoves ==
  ASSUME TypeOK, [Next]_vars, ~TaskStep
  PROVE  /\ \A t \in Tasks : claim'[t] = claim[t] \/ (claim'[t] = "expired" /\ claim[t] = "held")
         /\ \A p \in Plans : plan'[p] = plan[p] \/ plan'[p] \in {"applying", "applied", "uncertain"}
         /\ \A d \in Requests : draft[d] = "pending" => draft'[d] = "pending"
<1> DEFINE Same == UNCHANGED <<claim, plan, draft>>
<1> DEFINE Goal == /\ \A t \in Tasks : claim'[t] = claim[t] \/ (claim'[t] = "expired" /\ claim[t] = "held")
                   /\ \A p \in Plans : plan'[p] = plan[p] \/ plan'[p] \in {"applying", "applied", "uncertain"}
                   /\ \A d \in Requests : draft[d] = "pending" => draft'[d] = "pending"
<1>1. Same => Goal
  OBVIOUS
<1>2. ASSUME NEW w \in Workers, Process(w) PROVE Same
  <2>1. ~ \E t \in Tasks : Claim(t, w)
    BY DEF TaskStep
  <2> QED
    BY <1>2, <2>1, Zenon DEF Process, StartWorker, Heartbeat, HeartbeatLapses, StopWorker, CloseWorker,
       Crash, claimVars, planVars, draftVars
<1>3. ASSUME NEW k \in Watchers, Watcher(k) PROVE Same
  BY <1>3, Zenon DEF Watcher, Poll, ClaimDelivery, Send, SettleDelivery, StopWatching, Watch,
     ledgerVars, claimVars, planVars, draftVars
<1>4. CASE Owner
  <2>1. \/ \E t \in Tasks : Dismiss(t) \/ AcknowledgeDelivery(t)
        \/ \E q \in Plans : Observe(q) \/ Withdraw(q)
    BY <1>4, Zenon DEF Owner, TaskStep
  <2>2. CASE \E t \in Tasks : Dismiss(t) \/ AcknowledgeDelivery(t)
    BY <1>1, <2>2, Zenon DEF Dismiss, AcknowledgeDelivery, ledgerVars, claimVars, planVars, draftVars
  <2>3. CASE \E q \in Plans : Observe(q) \/ Withdraw(q)
    BY <1>1, <2>3, Zenon DEF Observe, Withdraw, claimVars, planVars, draftVars
  <2> QED
    BY <2>1, <2>2, <2>3
<1>5. ~Maintenance
  BY DEF Maintenance, TaskStep
<1>6. CASE Clock
  <2>1. ASSUME NEW t \in Tasks, ClaimExpires(t) PROVE Goal
    <3>1. claim[t] = "held" /\ claim' = [claim EXCEPT ![t] = "expired"] /\ UNCHANGED <<plan, draft>>
      BY <2>1 DEF ClaimExpires, planVars, draftVars
    <3> QED
      BY <3>1 DEF TypeOK, ClaimTypeOK
  <2>2. CASE \/ \E p \in Plans : PlanExpires(p)
             \/ \E d \in Requests : DraftExpires(d)
             \/ \E s \in Workspaces, x \in Paths : OutsideEdit(s, x)
    BY <1>1, <2>2, Zenon DEF PlanExpires, DraftExpires, OutsideEdit, claimVars, planVars, draftVars
  <2> QED
    BY <1>6, <2>1, <2>2, Zenon DEF Clock
<1>7. ASSUME NEW e \in Executions, Thread(e) \/ Monitor(e) PROVE Goal
  <2>1. CASE Start(e) \/ ModelReturns(e) \/ Preview(e) \/ Settle(e) \/ Monitor(e)
    BY <1>1, <2>1, Zenon DEF Start, ModelReturns, Preview, Settle, Monitor, claimVars, planVars, draftVars
  <2>2. CASE RequestScope(e) \/ OpenOwnDraft(e)
    <3>1. UNCHANGED <<claim, plan>>
      BY <2>2, Zenon DEF RequestScope, OpenOwnDraft, claimVars, planVars
    <3>2. \A d \in Requests : draft[d] = "pending" => draft'[d] = "pending"
      <4>1. UNCHANGED draftVars \/ CreateDraft(e[1], TRUE) \/ CreateDraft(e[1], FALSE)
        BY <2>2, Zenon DEF RequestScope, OpenOwnDraft
      <4> QED
        BY <4>1 DEF CreateDraft, draftVars, TypeOK, DraftTypeOK
    <3> QED
      BY <3>1, <3>2
  <2>3. CASE Apply(e)
    <3>1. CASE ApplyBegin(e)
      <4>1. UNCHANGED plan \/ plan' = [plan EXCEPT ![target[e[1]]] = "applying"]
        BY <3>1, Zenon DEF ApplyBegin
      <4> QED
        BY <3>1, <4>1 DEF ApplyBegin, claimVars, draftVars, TypeOK, PlanTypeOK
    <3>2. CASE ApplyCommit(e)
      <4>1. /\ plan' = [plan EXCEPT ![target[e[1]]] = "applied"]
            /\ draft' = Assign(draft, {d \in Requests : draftPlan[d] = target[e[1]] /\ draft[d] = "ready"},
                               "applied")
        BY <3>2, Zenon DEF ApplyCommit
      <4>2. UNCHANGED claim
        BY <3>2, Zenon DEF ApplyCommit, claimVars
      <4> QED
        BY <4>1, <4>2 DEF Assign, TypeOK, PlanTypeOK, DraftTypeOK
    <3>3. CASE ApplyUndo(e)
      BY <3>3 DEF ApplyUndo, claimVars, draftVars, TypeOK, PlanTypeOK
    <3>4. CASE ApplyBreaks(e) \/ \E x \in Paths : Mutate(e, x) \/ JournalApplied(e, x)
      BY <1>1, <3>4, Zenon DEF ApplyBreaks, Mutate, JournalApplied, claimVars, planVars, draftVars
    <3> QED
      BY <2>3, <3>1, <3>2, <3>3, <3>4 DEF Apply
  <2> QED
    BY <1>7, <2>1, <2>2, <2>3, Zenon DEF Thread, Request, TaskStep
<1>8. CASE UNCHANGED vars
  BY <1>1, <1>8, Zenon DEF vars, claimVars, planVars, draftVars
<1> QED
  BY <1>1, <1>2, <1>3, <1>4, <1>5, <1>6, <1>7, <1>8, Zenon DEF Next

\* What is outside TaskStep touches no task; an application under way keeps its plan from
\* being decided on.
LEMMA ConductOutside ==
  ASSUME Governed, Forward, [Next]_vars, ~TaskStep
  PROVE  Conduct
<1> USE DEF Governed, Lineage
<1>1. UNCHANGED <<status, eligible, execution, approval, scoped, current>>
  BY TaskFrame DEF TaskRows
<1>2. TaskMoves
  BY <1>1, OutsideMoves DEF TaskMoves, TaskMove
<1>3. ExecutionMoves
  BY <1>1 DEF ExecutionMoves, ExecutionMove
<1>4. \A p \in Plans : plan'[p] = plan[p] \/ plan'[p] \in {"applying", "applied", "uncertain"}
  BY OutsideMoves
<1>5. Reviewing'
  <2>1. ASSUME NEW e \in Executions, approval[e] = "pending"
        PROVE  /\ status[e[1]] = "awaiting_approval" /\ execution[e] = "awaiting_approval"
               /\ \A p \in PlansOf(e[1]) : plan'[p] # "approved"
    BY <1>4, <2>1 DEF Reviewing, Waiting, PlansOf
  <2> QED
    BY <1>1, <2>1, ReviewingKept
<1>6. ReviewHasSubject'
  <2>1. \A t \in Tasks : \A p \in PlansOf(t) : plan'[p] \in PlanGone => plan[p] \in PlanGone
    BY <1>4 DEF PlansOf, PlanGone
  <2>2. \A d \in Requests : draft[d] = "pending" => draft'[d] = "pending"
    BY OutsideMoves
  <2> QED
    BY <1>1, <2>1, <2>2, SubjectsKept
<1> QED
  BY <1>1, <1>2, <1>3, <1>5, <1>6 DEF Conduct, Closes, Completed

-----------------------------------------------------------------------------
\* Approving a plan decides the review it was shown in, and no other.
LEMMA ConductApprove ==
  ASSUME Governed, Forward, [Next]_vars, NEW p \in Plans, NEW c \in Applies, NEW w \in Workers,
         Approve(p, c, w)
  PROVE  Conduct
<1> USE DEF Governed, Lineage
<1> DEFINE t == TaskOf(p)
<1>1. /\ plan' = [plan EXCEPT ![p] = "approved"] /\ plan[p] \in PlanOpen
      /\ approval' = Assign(approval, PendingOf({t}) \ scoped, "approved")
      /\ UNCHANGED <<scoped, draft, claim, execution, current, planExec>>
  BY DEF Approve, draftVars, claimVars, resultVars
<1>2. /\ status[c] = "none" /\ status' = [status EXCEPT ![c] = "queued"]
      /\ eligible' = [eligible EXCEPT ![c] = TRUE]
  BY DEF Approve, InsertTask
<1>3. c \in Tasks
  BY DEF Tasks
<1>4. TaskMoves
  <2>1. TaskMove(c)
    BY <1>1, <1>2, <1>3, Unclaimed DEF TaskMove, TypeOK, TaskTypeOK
  <2>2. ASSUME NEW u \in Tasks, u # c PROVE TaskMove(u)
    BY <1>1, <1>2, <2>2 DEF TaskMove, TypeOK, TaskTypeOK
  <2> QED
    BY <2>1, <2>2 DEF TaskMoves
<1>5. ExecutionMoves
  BY <1>1 DEF ExecutionMoves, ExecutionMove
<1>6. Reviewing'
  <2>1. ASSUME NEW e \in Executions, approval'[e] = "pending"
        PROVE  /\ approval[e] = "pending"
               /\ status'[e[1]] = "awaiting_approval" /\ execution[e] = "awaiting_approval"
               /\ \A q \in PlansOf(e[1]) : plan'[q] # "approved"
    <3>1. approval[e] = "pending" /\ (e[1] = t => e \in scoped)
      BY <1>1, <2>1 DEF Assign, PendingOf, TypeOK, ReviewTypeOK
    <3>2. Waiting(e)
      BY <3>1 DEF Reviewing
    <3>3. status'[e[1]] = "awaiting_approval"
      BY <1>2, <3>2 DEF Waiting, TypeOK, TaskTypeOK, Executions
    <3>4. ASSUME NEW q \in PlansOf(e[1]) PROVE plan'[q] # "approved"
      <4>1. q \in Plans /\ TaskOf(q) = e[1] /\ plan[q] # "approved"
        BY <3>2 DEF PlansOf, TaskOf, Waiting
      <4>2. q # p
        BY <3>1, <3>2, <4>1 DEF Waiting
      <4> QED
        BY <1>1, <4>1, <4>2 DEF TypeOK, PlanTypeOK
    <3> QED
      BY <3>1, <3>2, <3>3, <3>4 DEF Waiting
  <2> QED
    BY <1>1, <2>1, ReviewingKept
<1>7. ReviewHasSubject'
  <2>1. \A u \in Tasks : \A q \in PlansOf(u) : plan'[q] \in PlanGone => plan[q] \in PlanGone
    BY <1>1 DEF PlansOf, PlanGone, TypeOK, PlanTypeOK
  <2>2. \A u \in Tasks : status'[u] = "awaiting_approval" => status[u] = "awaiting_approval"
    BY <1>2 DEF TypeOK, TaskTypeOK
  <2> QED
    BY <1>1, <2>1, <2>2, SubjectsKept
<1>8. \A u \in Tasks : status'[u] \in {"completed", "cancelled"} => status'[u] = status[u]
  BY <1>2 DEF TypeOK, TaskTypeOK
<1> QED
  BY <1>4, <1>5, <1>6, <1>7, <1>8 DEF Conduct, Closes, Completed, Tasks

\* A task in review that _settle_review ends.
LEMMA ReviewEnds ==
  ASSUME Governed, NEW S, NEW st \in {"completed", "cancelled"}, NEW t \in Tasks,
         t \in S => status'[t] = ReviewStatus(S, status, st)[t],
         t \in S, eligible'[t] = eligible[t], claim'[t] = claim[t]
  PROVE  TaskMove(t)
<1>1. status'[t] = status[t] \/ (status[t] = "awaiting_approval" /\ status'[t] = st)
  BY DEF ReviewStatus, Assign, Governed, Lineage, TypeOK, TaskTypeOK
<1>2. status[t] = "awaiting_approval" => ~eligible[t] /\ claim[t] # "held"
  BY DEF Governed, Standing, Active
<1> QED
  BY <1>1, <1>2 DEF TaskMove, Done

\* _settle_review ends executions that wait, of the tasks it is given.
LEMMA ReviewExecutionEnds ==
  ASSUME Governed, NEW S, NEW st \in {"completed", "cancelled"}, execution' = ReviewExecution(S, st)
  PROVE  /\ ExecutionMoves
         /\ \A e \in Executions : e[1] \notin S => execution'[e] = execution[e]
<1>1. \A e \in Executions : \/ execution'[e] = execution[e]
                            \/ e[1] \in S /\ execution'[e] \in ExecTerminal
  BY DEF ReviewExecution, Assign, ExecTerminal, Governed, Lineage, TypeOK, ResultTypeOK
<1> QED
  BY <1>1 DEF ExecutionMoves, ExecutionMove

\* Opening a read scope ends the review that asked for it.
LEMMA ConductOpenDraft ==
  ASSUME Governed, Forward, [Next]_vars, NEW d \in Requests, NEW c \in Requests, NEW w \in Workers,
         OpenDraft(d, c, w)
  PROVE  Conduct
<1> USE DEF Governed, Lineage
<1>1. /\ draft[d] = "pending" /\ status[d] = "awaiting_approval"
      /\ draft' = [draft EXCEPT ![d] = "ready"]
      /\ approval' = Assign(approval, PendingOf({d}) \cap scoped, "approved")
      /\ execution' = ReviewExecution({d}, "completed")
      /\ UNCHANGED <<plan, scoped, claim, current>>
  BY DEF OpenDraft, planVars, claimVars
<1>2. /\ status[c] = "none"
      /\ status' = [ReviewStatus({d}, status, "completed") EXCEPT ![c] = "queued"]
      /\ eligible' = [eligible EXCEPT ![c] = TRUE]
  BY DEF OpenDraft, InsertTask
<1>3. c \in Tasks /\ d \in Tasks /\ c # d
  BY <1>1, <1>2 DEF Tasks
<1>4. \A u \in Tasks : u \notin {c, d} => status'[u] = status[u]
  BY <1>2 DEF ReviewStatus, Assign, TypeOK, TaskTypeOK
<1>5. status'[d] = "completed" /\ status'[c] = "queued"
  BY <1>1, <1>2, <1>3 DEF ReviewStatus, Assign, TypeOK, TaskTypeOK
<1>6. TaskMoves
  <2>1. TaskMove(c)
    BY <1>1, <1>2, <1>3, <1>5, Unclaimed DEF TaskMove, TypeOK, TaskTypeOK
  <2>2. TaskMove(d)
    BY <1>1, <1>2, <1>3, <1>5 DEF TaskMove, TypeOK, TaskTypeOK, Standing, Active, Done
  <2>3. ASSUME NEW u \in Tasks, u \notin {c, d} PROVE TaskMove(u)
    BY <1>1, <1>2, <1>4, <2>3 DEF TaskMove, TypeOK, TaskTypeOK
  <2> QED
    BY <2>1, <2>2, <2>3 DEF TaskMoves
<1>7. ExecutionMoves /\ \A e \in Executions : e[1] # d => execution'[e] = execution[e]
  <2>1. ExecutionMoves /\ \A e \in Executions : e[1] \notin {d} => execution'[e] = execution[e]
    BY <1>1, ReviewExecutionEnds
  <2> QED
    BY <2>1
<1>8. Reviewing'
  <2>1. ASSUME NEW e \in Executions, approval'[e] = "pending"
        PROVE  /\ approval[e] = "pending"
               /\ status'[e[1]] = "awaiting_approval" /\ execution'[e] = "awaiting_approval"
               /\ \A q \in PlansOf(e[1]) : plan'[q] # "approved"
    <3>1. approval[e] = "pending" /\ (e[1] = d => e \notin scoped)
      BY <1>1, <2>1 DEF Assign, PendingOf, TypeOK, ReviewTypeOK
    <3>2. Waiting(e) /\ e[1] \in Tasks
      BY <3>1 DEF Reviewing, Executions
    <3>3. e[1] # d
      BY <1>1, <3>1, <3>2, ScopeWithoutPlan DEF Waiting
    <3>4. status'[e[1]] = status[e[1]]
      BY <1>2, <1>4, <3>2, <3>3 DEF Waiting
    <3> QED
      BY <1>1, <1>7, <3>1, <3>2, <3>3, <3>4 DEF Waiting
  <2> QED
    BY <1>1, <2>1, ReviewingKept
<1>9. ReviewHasSubject'
  <2>1. \A u \in Tasks : status'[u] = "awaiting_approval" => u \notin {c, d}
    BY <1>5
  <2>2. \A u \in Requests : u # d => draft'[u] = draft[u]
    BY <1>1 DEF TypeOK, DraftTypeOK
  <2> QED
    BY <1>1, <1>4, <2>1, <2>2, SubjectsKept
<1>10. Closes /\ Completed
  <2>1. c \notin Applies /\ d \notin Applies
    BY LedgerAssumption
  <2> QED
    BY <1>4, <1>5, <2>1 DEF Closes, Completed, Tasks
<1> QED
  BY <1>6, <1>7, <1>8, <1>9, <1>10 DEF Conduct

\* An expired read scope ends as its task is cancelled, which has made no plan.
LEMMA ConductMaintainDrafts ==
  ASSUME Governed, Forward, [Next]_vars, MaintainDrafts
  PROVE  Conduct
<1> USE DEF Governed, Lineage
<1>1. /\ status' = ReviewStatus(Lapsed, status, "cancelled")
      /\ execution' = ReviewExecution(Lapsed, "cancelled")
      /\ approval' = Assign(approval, PendingOf(Lapsed) \cap scoped, "expired")
      /\ draft' = Assign(draft, Lapsed, "closed")
      /\ UNCHANGED <<plan, planExec, planFresh, scoped, claim, eligible, current>>
  BY DEF MaintainDrafts, planVars, claimVars
<1>2. \A d \in Lapsed : /\ d \in Requests /\ d \in Tasks /\ draft[d] = "pending"
                        /\ status[d] = "awaiting_approval" /\ PlansOf(d) = {}
  BY ScopeWithoutPlan DEF Lapsed, Tasks
<1>3. \A t \in Tasks : status'[t] = IF t \in Lapsed THEN "cancelled" ELSE status[t]
  BY <1>1, <1>2 DEF ReviewStatus, Assign, TypeOK, TaskTypeOK
<1>4. TaskMoves
  <2>1. ASSUME NEW t \in Tasks, t \in Lapsed PROVE TaskMove(t)
    BY <1>1, <2>1, ReviewEnds
  <2>2. ASSUME NEW t \in Tasks, t \notin Lapsed PROVE TaskMove(t)
    BY <1>1, <1>3, <2>2 DEF TaskMove
  <2> QED
    BY <2>1, <2>2 DEF TaskMoves
<1>5. ExecutionMoves /\ \A e \in Executions : e[1] \notin Lapsed => execution'[e] = execution[e]
  BY <1>1, ReviewExecutionEnds
<1>6. Reviewing'
  <2>1. ASSUME NEW e \in Executions, approval'[e] = "pending"
        PROVE  /\ approval[e] = "pending"
               /\ status'[e[1]] = "awaiting_approval" /\ execution'[e] = "awaiting_approval"
               /\ \A q \in PlansOf(e[1]) : plan'[q] # "approved"
    <3>1. approval[e] = "pending" /\ (e[1] \in Lapsed => e \notin scoped)
      BY <1>1, <2>1 DEF Assign, PendingOf, TypeOK, ReviewTypeOK
    <3>2. Waiting(e) /\ e[1] \in Tasks
      BY <3>1 DEF Reviewing, Executions
    <3>3. e[1] \notin Lapsed
      BY <1>2, <3>1, <3>2 DEF Waiting
    <3> QED
      BY <1>1, <1>3, <1>5, <3>1, <3>2, <3>3 DEF Waiting
  <2> QED
    BY <1>1, <2>1, ReviewingKept
<1>7. ReviewHasSubject'
  <2>1. \A d \in Requests : d \notin Lapsed => draft'[d] = draft[d]
    BY <1>1 DEF Assign, TypeOK, DraftTypeOK
  <2> QED
    BY <1>1, <1>3, <2>1, SubjectsKept
<1>8. Closes
  <2> SUFFICES ASSUME NEW t \in Lapsed PROVE Inert(t)'
    BY <1>3 DEF Closes, Inert
  <2> QED
    BY <1>1, <1>2 DEF Inert, PlansOf
<1>9. Completed
  BY <1>3 DEF Completed, Tasks
<1> QED
  BY <1>4, <1>5, <1>6, <1>7, <1>8, <1>9 DEF Conduct
\* Closing a draft cancels the reviews of its tasks, whose plans are closed or withdrawn.
LEMMA ConductCloseDraft ==
  ASSUME Governed, Forward, [Next]_vars, NEW d \in Requests, CloseDraft(d)
  PROVE  Conduct
<1> USE DEF Governed, Lineage
<1> DEFINE tasks   == {d} \cup {c \in Requests : target[c] = d}
           waiting == {t \in tasks : status[t] = "awaiting_approval"}
           last    == draftPlan[d]
<1>1. /\ draft[d] \in {"pending", "ready"} /\ draft' = [draft EXCEPT ![d] = "closed"]
      /\ status' = ReviewStatus(waiting, status, "cancelled")
      /\ execution' = ReviewExecution(waiting, "cancelled")
      /\ approval' = Assign(approval, PendingOf(waiting), "rejected")
      /\ plan' = Assign(plan, {p \in Plans : p = last /\ plan[p] = "pending"}, "revoked")
      /\ UNCHANGED <<planExec, scoped, claim, eligible, current>>
  BY DEF CloseDraft, claimVars
<1>2. /\ \A t \in tasks : ~Unresolved(t)
      /\ last # None => plan[last] \in {"pending", "revoked", "expired"}
  BY DEF CloseDraft
<1>3. \A t \in tasks : t \in Requests /\ t \in Tasks /\ DraftOf(t) = d
  BY <1>1, LedgerAssumption DEF Records, DraftRoots, DraftOf, Tasks
<1>4. \A t \in Tasks : status'[t] = IF t \in waiting THEN "cancelled" ELSE status[t]
  BY <1>1 DEF ReviewStatus, Assign, TypeOK, TaskTypeOK
<1>5. \A p \in Plans : plan'[p] = IF p = last /\ plan[p] = "pending" THEN "revoked" ELSE plan[p]
  BY <1>1 DEF Assign, TypeOK, PlanTypeOK
<1> HIDE DEF waiting
<1>6. \A t \in waiting : t \in tasks /\ status[t] = "awaiting_approval"
  BY DEF waiting
<1>7. TaskMoves
  <2>1. ASSUME NEW t \in Tasks, t \in waiting PROVE TaskMove(t)
    BY <1>1, <2>1, ReviewEnds
  <2>2. ASSUME NEW t \in Tasks, t \notin waiting PROVE TaskMove(t)
    BY <1>1, <1>4, <2>2 DEF TaskMove
  <2> QED
    BY <2>1, <2>2 DEF TaskMoves
<1>8. ExecutionMoves /\ \A e \in Executions : e[1] \notin waiting => execution'[e] = execution[e]
  BY <1>1, ReviewExecutionEnds
<1>9. Reviewing'
  <2>1. ASSUME NEW e \in Executions, approval'[e] = "pending"
        PROVE  /\ approval[e] = "pending"
               /\ status'[e[1]] = "awaiting_approval" /\ execution'[e] = "awaiting_approval"
               /\ \A q \in PlansOf(e[1]) : plan'[q] # "approved"
    <3>1. approval[e] = "pending" /\ e[1] \notin waiting
      BY <1>1, <2>1 DEF Assign, PendingOf, TypeOK, ReviewTypeOK
    <3>2. Waiting(e) /\ e[1] \in Tasks
      BY <3>1 DEF Reviewing, Executions
    <3>3. \A q \in PlansOf(e[1]) : plan'[q] # "approved"
      BY <1>5, <3>2 DEF Waiting, PlansOf
    <3> QED
      BY <1>4, <1>8, <3>1, <3>2, <3>3 DEF Waiting
  <2> QED
    BY <1>1, <2>1, ReviewingKept
<1>10. ReviewHasSubject'
  <2> SUFFICES ASSUME NEW u \in Tasks, status'[u] = "awaiting_approval"
               PROVE  /\ status[u] = "awaiting_approval"
                      /\ \A p \in PlansOf(u) : plan'[p] \in PlanGone => plan[p] \in PlanGone
                      /\ u \in Requests /\ draft[u] = "pending" => draft'[u] = "pending"
    BY SubjectsKept
  <2>1. status[u] = "awaiting_approval" /\ u \notin tasks
    BY <1>4 DEF waiting
  <2>2. ASSUME NEW p \in PlansOf(u), plan'[p] # plan[p] PROVE FALSE
    <3>1. p \in Plans /\ planExec[p] # None /\ TaskOf(p) = u /\ p = last /\ plan[p] = "pending"
      BY <1>5, <2>2 DEF PlansOf, TaskOf
    <3>2. last # None /\ u \in Requests
      BY <3>1, LedgerAssumption DEF Records, Origin
    <3>3. DraftOf(u) = d
      BY <3>1, <3>2 DEF Records, DraftPlans
    <3> QED
      BY <2>1, <3>2, <3>3 DEF DraftOf
  <2>3. u # d
    BY <2>1
  <2> QED
    BY <1>1, <2>1, <2>2, <2>3 DEF TypeOK, DraftTypeOK
<1>11. Closes
  <2> SUFFICES ASSUME NEW t \in waiting, NEW p \in PlansOf(t)
               PROVE  plan'[p] \notin {"applying", "uncertain"} \cup PlanOpen
    BY <1>1, <1>4 DEF Closes, Inert, PlansOf
  <2>1. p \in Plans /\ planExec[p] # None /\ TaskOf(p) = t /\ t \in tasks
    BY <1>6 DEF PlansOf, TaskOf
  <2>2. plan[p] \notin {"applying", "uncertain"}
    BY <1>2, <2>1, PlanUnresolved DEF Unresolved
  <2>3. plan[p] \in PlanOpen => p = last
    BY <1>3, <2>1 DEF Records, Latest, PlanOpen, PlanShut
  <2>4. plan[p] \in PlanOpen => plan[p] = "pending"
    BY <1>2, <2>1, <2>3, LedgerAssumption DEF PlanOpen
  <2> QED
    BY <1>5, <2>1, <2>2, <2>3, <2>4 DEF PlanOpen
<1>12. Completed
  BY <1>4 DEF Completed, Tasks
<1> QED
  BY <1>7, <1>8, <1>9, <1>10, <1>11, <1>12 DEF Conduct
-----------------------------------------------------------------------------
\* What finish() commits: a wait only with something to wait for and without a request to
\* stop, a cancellation only with everything settled.
LEMMA FinalOutcomes ==
  ASSUME Concluded, NEW e \in Executions, pc[e] = "finish"
  PROVE  LET t == e[1]  r == FinalOutcome(e) IN
         /\ r \in Outcomes
         /\ r = "awaiting_approval" => /\ LivePlans(t) # {} \/ LiveScope(t)
                                       /\ execution[e] # "cancelling"
         /\ r = "cancelled" /\ t \notin Applies =>
              /\ ~UnresolvedGiven(t, [execution EXCEPT ![e] = "cancelled"], plan, resolved, InDoubt)
              /\ LivePlans(t) = {} \/ reply[e] = "cancelled"
<1>1. reply[e] \in Outcomes
  BY DEF Concluded
<1>2. {"awaiting_approval", "blocked", "cancelled"} \subseteq Outcomes
  BY DEF Outcomes
<1> QED
  BY <1>1, <1>2, Zenon DEF FinalOutcome

\* The execution whose record finish() accepts: it is under the claim of an active task.
LEMMA Unstale ==
  ASSUME Governed, NEW e \in Executions, ~Stale(e)
  PROVE  /\ e[1] \in Tasks /\ Active(e[1]) /\ eligible[e[1]] /\ claim[e[1]] = "held"
         /\ current[e[1]] = e[2] /\ execution[e] \in {"running", "cancelling"}
         /\ delivery[e] = "none"
<1>1. e[1] \in Tasks /\ e = <<e[1], e[2]>>
  BY DEF Executions
<1>2. claim[e[1]] = "held" /\ current[e[1]] = e[2]
  BY DEF Stale, Renewable
<1> QED
  BY <1>1, <1>2 DEF Governed, Standing, Guarded, Fenced, Claimed, Ongoing

\* An applied plan is not waited for.
LEMMA AppliedNotWaiting ==
  ASSUME Governed, NEW c \in Applies, Started(c), plan[target[c]] = "applied",
         NEW e \in Executions, approval[e] = "pending"
  PROVE  e[1] # TaskOf(target[c])
<1>1. target[c] \in Plans /\ planExec[target[c]] # None
  BY DEF Governed, Lineage, Records, ApplyParent
<1>2. TaskOf(target[c]) = e[1] => target[c] \in PlansOf(e[1])
  BY <1>1 DEF PlansOf, TaskOf
<1> QED
  BY <1>2 DEF Governed, Reviewing, Waiting

\* The wait finish() records is for the one plan of the task that is not closed, or for
\* its read scope.
LEMMA FinishWaits ==
  ASSUME Governed, NEW t \in Tasks, LivePlans(t) # {} \/ LiveScope(t),
         ~ \E p \in LivePlans(t) : plan[p] = "approved"
  PROVE  /\ \A p \in PlansOf(t) : plan[p] \in {"pending", "revoked", "expired"}
         /\ LivePlans(t) = {} <=> PlansOf(t) = {}
<1> USE DEF Governed, Lineage
<1>1. CASE LivePlans(t) = {}
  <2>1. PlansOf(t) = {}
    BY <1>1, ScopeWithoutPlan DEF LiveScope
  <2> QED
    BY <1>1, <2>1
<1>2. CASE LivePlans(t) # {}
  <2>1. PICK p \in LivePlans(t) : plan[p] = "pending"
    BY <1>2 DEF LivePlans, PlanOpen
  <2>2. p \in PlansOf(t) /\ p \in Plans /\ TaskOf(p) = t
    BY DEF LivePlans, PlansOf, TaskOf
  <2>3. ASSUME NEW q \in PlansOf(t) PROVE plan[q] \in {"pending", "revoked", "expired"}
    <3>1. q \in Plans /\ TaskOf(q) = t /\ plan[q] # "none"
      BY DEF PlansOf, TaskOf, Records, Origin
    <3>2. plan[q] \notin PlanShut => q = p
      BY <2>1, <2>2, <3>1 DEF Records, Latest, PlanShut
    <3> QED
      BY <2>1, <3>1, <3>2 DEF PlanShut
  <2> QED
    BY <1>2, <2>2, <2>3
<1> QED
  BY <1>1, <1>2

\* finish() ends or suspends the run of the task it holds, and with an applied plan the
\* review that led to it.
LEMMA ConductFinish ==
  ASSUME Governed, Forward, [Next]_vars, NEW e \in Executions, Finish(e)
  PROVE  Conduct
<1> USE DEF Governed, Lineage
<1> DEFINE t == e[1]
           r == FinalOutcome(e)
           same == UNCHANGED <<status, eligible, execution, claim, reviewVars>>
<1>0. pc[e] = "finish" /\ UNCHANGED <<plan, planExec, planFresh, draft, current>>
  BY DEF Finish, planVars, draftVars
<1>1. CASE same
  <2>1. TaskMoves /\ ExecutionMoves
    BY <1>1 DEF TaskMoves, TaskMove, ExecutionMoves, ExecutionMove
  <2> QED
    BY <1>0, <1>1, <2>1, ConductPlain DEF reviewVars
<1>2. CASE ~same
  <2>1. /\ ~Stale(e) /\ ~(r = "succeeded" /\ t \in Applies /\ plan[target[t]] # "applied")
        /\ status' = [Assign(status, Completes(e), "completed") EXCEPT ![t] = StatusFor(r)]
        /\ eligible' = [eligible EXCEPT ![t] = FALSE]
        /\ execution' = [execution EXCEPT ![e] = IF r = "blocked" THEN "lost" ELSE r]
        /\ claim' = [claim EXCEPT ![t] = "released"]
        /\ IF r = "awaiting_approval"
           THEN /\ approval' = [approval EXCEPT ![e] =
                     IF \E p \in LivePlans(t) : plan[p] = "approved"
                     THEN "approved" ELSE "pending"]
                /\ scoped' = IF LivePlans(t) = {} THEN scoped \cup {e} ELSE scoped
           ELSE UNCHANGED <<approval, scoped>>
    BY <1>2, Zenon DEF Finish, reviewVars
  <2>2. /\ t \in Tasks /\ Active(t) /\ eligible[t] /\ claim[t] = "held"
        /\ current[t] = e[2] /\ execution[e] \in {"running", "cancelling"} /\ delivery[e] = "none"
    BY <2>1, Unstale
  <2>3. /\ r \in Outcomes
        /\ r = "awaiting_approval" => LivePlans(t) # {} \/ LiveScope(t)
    BY <1>0, FinalOutcomes
  <2>4. ASSUME t \notin Applies, r = "cancelled"
        PROVE  /\ ~UnresolvedGiven(t, [execution EXCEPT ![e] = "cancelled"], plan, resolved, InDoubt)
               /\ LivePlans(t) = {} \/ reply[e] = "cancelled"
    BY <1>0, <2>4, FinalOutcomes
  <2> HIDE DEF r
  <2>5. /\ StatusFor(r) \in {"completed", "failed", "cancelled", "awaiting_approval", "blocked"}
        /\ StatusFor(r) = "completed" <=> r = "succeeded"
        /\ StatusFor(r) = "cancelled" <=> r = "cancelled"
        /\ StatusFor(r) = "awaiting_approval" <=> r = "awaiting_approval"
    BY <2>3 DEF StatusFor, Outcomes
  <2>6. \A u \in Completes(e) : /\ u \in Requests /\ u \in Tasks /\ status[u] = "awaiting_approval"
                                /\ t \in Applies /\ u = TaskOf(target[t]) /\ plan[target[t]] = "applied"
    BY <2>1 DEF Completes, Tasks, r
  <2>7. status'[t] = StatusFor(r) /\ \A u \in Tasks \ {t} :
          status'[u] = IF u \in Completes(e) THEN "completed" ELSE status[u]
    BY <2>1, <2>2 DEF Assign, TypeOK, TaskTypeOK
  <2>8. TaskMoves
    <3>1. TaskMove(t)
      <4>1. ~eligible'[t] /\ claim'[t] # "held"
        BY <2>1, <2>2 DEF TypeOK, TaskTypeOK, ClaimTypeOK
      <4> QED
        BY <2>2, <2>5, <2>7, <4>1 DEF TaskMove, Active, Done
    <3>2. ASSUME NEW u \in Tasks, u # t PROVE TaskMove(u)
      <4>1. eligible'[u] = eligible[u] /\ claim'[u] = claim[u]
        BY <2>1, <3>2 DEF TypeOK, TaskTypeOK, ClaimTypeOK
      <4>2. u \in Completes(e) => ~eligible[u] /\ claim[u] # "held"
        BY <2>6 DEF Standing, Active
      <4> QED
        BY <2>6, <2>7, <3>2, <4>1, <4>2 DEF TaskMove, Done
    <3> QED
      BY <3>1, <3>2 DEF TaskMoves
  <2>9. ExecutionMoves
    <3>1. ASSUME NEW x \in Executions, x # e PROVE ExecutionMove(x)
      BY <2>1, <3>1 DEF ExecutionMove, TypeOK, ResultTypeOK
    <3>2. ExecutionMove(e)
      <4>1. execution'[e] = IF r = "blocked" THEN "lost" ELSE r
        BY <2>1 DEF TypeOK, ResultTypeOK
      <4> QED
        BY <2>1, <2>3, <4>1 DEF ExecutionMove, ExecTerminal, Outcomes
    <3> QED
      BY <3>1, <3>2 DEF ExecutionMoves
  <2>10. \A u : PlansOf(u)' = PlansOf(u)
    BY <1>0 DEF PlansOf
  <2>11. Reviewing'
    <3> SUFFICES ASSUME NEW x \in Executions, approval'[x] = "pending" PROVE Waiting(x)'
      BY DEF Reviewing
    <3>1. ASSUME x = e, r = "awaiting_approval" PROVE Waiting(x)'
      <4>1. /\ ~ \E p \in LivePlans(t) : plan[p] = "approved"
            /\ execution'[e] = "awaiting_approval"
        BY <2>1, <3>1 DEF TypeOK, ReviewTypeOK, ResultTypeOK
      <4>2. /\ \A p \in PlansOf(t) : plan[p] \in {"pending", "revoked", "expired"}
            /\ LivePlans(t) = {} <=> PlansOf(t) = {}
        BY <2>2, <2>3, <3>1, <4>1, FinishWaits
      <4>3. e \in scoped' <=> PlansOf(t) = {}
        BY <2>1, <2>2, <3>1, <4>2 DEF ScopedPast
      <4> QED
        BY <1>0, <2>2, <2>5, <2>7, <2>10, <3>1, <4>1, <4>2, <4>3 DEF Waiting
    <3>2. ASSUME ~(x = e /\ r = "awaiting_approval") PROVE Waiting(x)'
      <4>1. approval[x] = "pending" /\ (x # e => (x \in scoped' <=> x \in scoped))
        BY <2>1, <3>2 DEF TypeOK, ReviewTypeOK
      <4>2. Waiting(x) /\ x[1] \in Tasks /\ x[1] # t
        BY <2>2, <4>1 DEF Reviewing, Waiting, Active, Executions
      <4>3. x[1] \notin Completes(e)
        BY <2>2, <2>6, <4>1, AppliedNotWaiting DEF Started, Active
      <4>4. execution'[x] = execution[x]
        BY <2>1, <4>2 DEF TypeOK, ResultTypeOK
      <4> QED
        BY <1>0, <2>7, <2>10, <4>1, <4>2, <4>3, <4>4 DEF Waiting
    <3> QED
      BY <3>1, <3>2
  <2>12. ReviewHasSubject'
    <3> SUFFICES ASSUME NEW u \in Tasks, status'[u] = "awaiting_approval"
                 PROVE  \/ \E p \in PlansOf(u) : plan[p] \notin {"revoked", "expired", "reconciled"}
                        \/ u \in Requests /\ draft[u] = "pending"
      BY <1>0, <2>10 DEF ReviewHasSubject
    <3>1. CASE u = t
      BY <2>3, <2>5, <2>7, <3>1 DEF LivePlans, LiveScope, PlanOpen
    <3>2. CASE u # t
      BY <2>7, <3>2 DEF ReviewHasSubject
    <3> QED
      BY <3>1, <3>2
  <2>13. Closes
    <3> SUFFICES ASSUME r = "cancelled", NEW p \in PlansOf(t)
                 PROVE  /\ plan[p] \notin {"applying", "uncertain"}
                        /\ plan[p] \in PlanOpen => ~planFresh[p]
      <4>1. \A u \in Tasks : status[u] # "cancelled" /\ status'[u] = "cancelled" => u = t /\ r = "cancelled"
        BY <2>5, <2>7
      <4> QED
        BY <1>0, <2>10, <4>1 DEF Closes, Inert
    <3>1. p \in Plans /\ t \notin Applies
      BY LedgerAssumption DEF PlansOf, TaskOf, Records, Origin
    <3>2. plan[p] \notin {"applying", "uncertain"}
      BY <2>4, <3>1, PlanUnresolved
    <3>3. CASE LivePlans(t) = {}
      BY <3>1, <3>2, <3>3 DEF LivePlans
    <3>4. CASE reply[e] = "cancelled"
      <4>1. execution[e] = "cancelling"
        BY <1>0, <2>1, <3>4 DEF CancelReply, Stale
      <4>2. OpenPlans(t) = {}
        BY <2>2, <4>1 DEF CancelHasNoPlan
      <4> QED
        BY <3>2, <4>2 DEF OpenPlans, PlanOpen
    <3> QED
      BY <2>4, <3>1, <3>3, <3>4
  <2>14. Completed
    <3> SUFFICES ASSUME NEW c \in Applies, status[c] # "completed", status'[c] = "completed"
                 PROVE  plan'[target[c]] \in {"applied", "reconciled"}
      BY DEF Completed
    <3>1. c \in Tasks /\ c \notin Completes(e)
      BY <2>6, LedgerAssumption DEF Tasks
    <3>2. c = t /\ r = "succeeded"
      BY <2>5, <2>7, <3>1
    <3> QED
      BY <1>0, <2>1, <3>2
  <2> QED
    BY <2>8, <2>9, <2>11, <2>12, <2>13, <2>14 DEF Conduct
<1> QED
  BY <1>1, <1>2
-----------------------------------------------------------------------------
\* link_plan_conn withdraws the plans of the running task and the draft's plan, whose
\* review it ends.
LEMMA ConductLinked ==
  ASSUME Governed, Forward, [Next]_vars, NEW e \in Executions, NEW left,
         pc[e] \in {"propose", "clear"}, Linkable(e, using[e], left), NEW p,
         LinkPlan(e, using[e], p), UNCHANGED <<eligible, claim, current>>,
         \A q \in Plans :
           \/ plan'[q] = plan[q] \/ plan[q] = "none"
           \/ plan'[q] = "revoked" /\ (q \in OpenPlans(e[1]) \/ q = draftPlan[using[e]])
  PROVE  Conduct
<1> USE DEF Governed, Lineage
<1> DEFINE t     == e[1]
           prev  == draftPlan[using[e]]
           other == IF prev = None THEN {} ELSE {TaskOf(prev)}
           S     == other \ {t}
<1>1. /\ approval' = Assign(approval, PendingOf(other), "rejected")
      /\ status' = ReviewStatus(S, status, "completed")
      /\ execution' = ReviewExecution(S, "completed")
      /\ UNCHANGED <<draft, scoped>>
  BY DEF LinkPlan
<1>2. using[e] \in Requests /\ t \in Requests /\ status[t] = "running"
  BY LinkableDraft
<1>3. S \subseteq Requests
  <2>1. prev # None => planExec[prev] # None /\ prev \in Plans
    BY <1>2, LedgerAssumption DEF Records, DraftPlans, TypeOK, DraftTypeOK
  <2>2. prev # None => TaskOf(prev) \in Requests
    BY <2>1, PlanRoots
  <2> QED
    BY <2>2
<1> HIDE DEF S
<1>4. \A u \in Tasks : status'[u] = IF u \in S /\ status[u] = "awaiting_approval" THEN "completed" ELSE status[u]
  BY <1>1 DEF ReviewStatus, Assign, TypeOK, TaskTypeOK
<1>5. TaskMoves
  <2>1. ASSUME NEW u \in Tasks, u \in S PROVE TaskMove(u)
    BY <1>1, <2>1, ReviewEnds
  <2>2. ASSUME NEW u \in Tasks, u \notin S PROVE TaskMove(u)
    BY <1>1, <1>4, <2>2 DEF TaskMove
  <2> QED
    BY <2>1, <2>2 DEF TaskMoves
<1>6. ExecutionMoves /\ \A x \in Executions : x[1] \notin S => execution'[x] = execution[x]
  BY <1>1, ReviewExecutionEnds
<1>7. Reviewing'
  <2>1. ASSUME NEW x \in Executions, approval'[x] = "pending"
        PROVE  /\ approval[x] = "pending"
               /\ status'[x[1]] = "awaiting_approval" /\ execution'[x] = "awaiting_approval"
               /\ \A q \in PlansOf(x[1]) : plan'[q] # "approved"
    <3>1. approval[x] = "pending" /\ x[1] \notin other
      BY <1>1, <2>1 DEF Assign, PendingOf, TypeOK, ReviewTypeOK
    <3>2. Waiting(x) /\ x[1] \in Tasks /\ x[1] \notin S
      BY <3>1 DEF Reviewing, Executions, S
    <3>3. \A q \in PlansOf(x[1]) : plan'[q] # "approved"
      BY <3>2 DEF Waiting, PlansOf
    <3> QED
      BY <1>4, <1>6, <3>1, <3>2, <3>3 DEF Waiting
  <2> QED
    BY <1>1, <2>1, ReviewingKept
<1>8. ReviewHasSubject'
  <2> SUFFICES ASSUME NEW u \in Tasks, status'[u] = "awaiting_approval"
               PROVE  /\ status[u] = "awaiting_approval"
                      /\ \A q \in PlansOf(u) : plan'[q] \in PlanGone => plan[q] \in PlanGone
    BY <1>1, SubjectsKept
  <2>1. status[u] = "awaiting_approval" /\ u \notin S /\ u # t
    BY <1>2, <1>4
  <2>2. ASSUME NEW q \in PlansOf(u) PROVE plan'[q] = plan[q]
    <3>1. q \in Plans /\ TaskOf(q) = u /\ plan[q] # "none" /\ q # None
      BY LedgerAssumption DEF PlansOf, TaskOf, Records, Origin
    <3>2. q # prev
      BY <2>1, <3>1 DEF S
    <3>3. q \notin OpenPlans(t)
      BY <2>1, <3>1 DEF OpenPlans, PlansOf, TaskOf
    <3> QED
      BY <3>1, <3>2, <3>3
  <2> QED
    BY <2>1, <2>2
<1>9. Closes /\ Completed
  BY <1>3, <1>4, LedgerAssumption DEF Closes, Completed, Tasks
<1> QED
  BY <1>5, <1>6, <1>7, <1>8, <1>9 DEF Conduct

\* A result the draft does not take changes none of these rows.
LEMMA ConductUnlinked ==
  ASSUME Governed, Forward, [Next]_vars, NEW e \in Executions,
         UNCHANGED <<plan, status, execution, approval, scoped, draft, eligible, claim, current>>
  PROVE  Conduct
<1>1. TaskMoves /\ ExecutionMoves
  BY DEF TaskMoves, TaskMove, ExecutionMoves, ExecutionMove
<1> QED
  BY <1>1, ConductPlain

\* propose() replaces the open plans of its request and of its draft, and ends their review.
LEMMA ConductPropose ==
  ASSUME Governed, Forward, [Next]_vars, NEW e \in Executions, Propose(e)
  PROVE  Conduct
<1> USE DEF Governed, Lineage
<1> DEFINE left == Assign(plan, OpenPlans(e[1]), "revoked")
<1>1. pc[e] = "propose" /\ UNCHANGED <<eligible, claim, current>>
  BY Zenon DEF Propose, claimVars
<1>2. CASE Linkable(e, using[e], left)
  <2>1. PICK p \in Plans :
          /\ plan[p] = "none" /\ plan' = [Replacing(e) EXCEPT ![p] = "pending"]
          /\ LinkPlan(e, using[e], p)
    BY <1>2, ProposeWrites
  <2>2. \A q \in Plans : \/ plan'[q] = plan[q] \/ plan[q] = "none"
                         \/ plan'[q] = "revoked" /\ (q \in OpenPlans(e[1]) \/ q = draftPlan[using[e]])
    <3>1. \A q \in Plans \ {p} : plan'[q] = Replacing(e)[q]
      BY <2>1
    <3>2. \A q \in Plans : Replacing(e)[q] = IF q \in OpenPlans(e[1]) \/ q = draftPlan[using[e]]
                                             THEN "revoked" ELSE plan[q]
      BY DEF Replacing, Replaced, Assign, TypeOK, PlanTypeOK
    <3> QED
      BY <2>1, <3>1, <3>2
  <2> QED
    BY <1>1, <1>2, <2>1, <2>2, ConductLinked
<1>3. CASE ~Linkable(e, using[e], left)
  <2>1. UNCHANGED <<plan, status, execution, approval, scoped, draft>>
    BY <1>3, Zenon DEF Propose, resultVars, reviewVars, draftVars
  <2> QED
    BY <1>1, <2>1, ConductUnlinked
<1> QED
  BY <1>2, <1>3

\* Work that changes nothing withdraws the plan of the draft it continued.
LEMMA ConductClear ==
  ASSUME Governed, Forward, [Next]_vars, NEW e \in Executions, Clear(e)
  PROVE  Conduct
<1> USE DEF Governed, Lineage
<1>1. pc[e] = "clear" /\ UNCHANGED <<eligible, claim, current>>
  BY Zenon DEF Clear, claimVars
<1>2. CASE Linkable(e, using[e], plan)
  <2>1. plan' = Assign(plan, Replaced(using[e]), "revoked") /\ LinkPlan(e, using[e], None)
    BY <1>2, Zenon DEF Clear
  <2>2. \A q \in Plans : plan'[q] = plan[q] \/ (plan'[q] = "revoked" /\ q = draftPlan[using[e]])
    BY <2>1 DEF Replaced, Assign, TypeOK, PlanTypeOK
  <2> QED
    BY <1>1, <1>2, <2>1, <2>2, ConductLinked
<1>3. CASE ~Linkable(e, using[e], plan)
  <2>1. UNCHANGED <<plan, status, execution, approval, scoped, draft>>
    BY <1>3, Zenon DEF Clear, resultVars, reviewVars, draftVars
  <2> QED
    BY <1>1, <2>1, ConductUnlinked
<1> QED
  BY <1>2, <1>3
-----------------------------------------------------------------------------
\* Only requests make plans, and what is withdrawn with the plans of a task are applies.
LEMMA AppliesPlanNothing ==
  ASSUME Lineage, NEW c \in Applies
  PROVE  PlansOf(c) = {}
BY LedgerAssumption DEF PlansOf, TaskOf, Lineage, Records, Origin

\* What cancel() withdraws are applies, never the cancelled task itself.
LEMMA WithdrawnApplies ==
  ASSUME Lineage, NEW t \in Tasks
  PROVE  AppliesOf(t) \subseteq Applies \ {t}
<1> SUFFICES ASSUME NEW c \in AppliesOf(t) PROVE c \in Applies /\ c # t
  OBVIOUS
<1>1. c \in Tasks /\ target[c] \in Plans /\ target[c] \in PlansOf(t)
  BY DEF AppliesOf, OpenPlans, PlansOf, Children
<1>2. c \in Applies
  BY <1>1, LedgerAssumption DEF Lineage, Coherent, RequestTargets, Tasks
<1> QED
  BY <1>1, <1>2, AppliesPlanNothing

\* cancel() ends the task, or asks its run to stop with its plans withdrawn.
LEMMA ConductCancel ==
  ASSUME Governed, Forward, [Next]_vars, NEW t \in Tasks, Cancel(t)
  PROVE  Conduct
<1> USE DEF Governed, Lineage
<1> DEFINE A == AppliesOf(t)
<1>1. /\ status[t] \in {"queued", "running", "cancelling", "awaiting_approval", "blocked"}
      /\ approval' = Assign(approval, {e \in ExecutionsOf(t) : approval[e] = "pending"}, "rejected")
      /\ plan' = Assign(plan, OpenPlans(t), "revoked")
      /\ UNCHANGED <<planExec, planFresh, draft, scoped, current>>
  BY DEF Cancel, draftVars
<1>2. A \subseteq Applies \ {t} /\ \A c \in A : c \in Tasks /\ PlansOf(c) = {}
  BY WithdrawnApplies, AppliesPlanNothing DEF Tasks
<1>3. ASSUME Attended(t)
      PROVE  /\ status' = [Withdrawn(A) EXCEPT ![t] = "cancelling"]
             /\ eligible' = Assign(eligible, QueuedIn(A), FALSE)
             /\ execution' = [AskedToStop(A) EXCEPT ![<<t, current[t]>>] = "cancelling"]
             /\ UNCHANGED claim
  BY <1>3 DEF Cancel
<1>4. ASSUME ~Attended(t)
      PROVE  /\ status' = [Withdrawn(A) EXCEPT ![t] = IF Doubtful(t) THEN "blocked" ELSE "cancelled"]
             /\ eligible' = Assign(eligible, QueuedIn(A) \cup {t}, FALSE)
             /\ execution' = Assign(AskedToStop(A), {e \in ExecutionsOf(t) : execution[e] \notin ExecTerminal},
                                    IF Doubtful(t) THEN "lost" ELSE "cancelled")
             /\ claim' = Released({t})
  BY <1>4, Zenon DEF Cancel
<1> HIDE DEF A
<1>5. DOMAIN Withdrawn(A) = Tasks
  BY DEF Withdrawn, Assign, TypeOK, TaskTypeOK
<1>6. \A u \in Tasks \ {t} :
        /\ status'[u] = IF u \in A /\ status[u] = "queued" THEN "cancelled"
                        ELSE IF u \in A /\ Active(u) THEN "cancelling" ELSE status[u]
        /\ eligible'[u] = IF u \in A /\ status[u] = "queued" THEN FALSE ELSE eligible[u]
        /\ claim'[u] = claim[u]
  <2>1. \A u \in Tasks : Withdrawn(A)[u] = IF u \in A /\ status[u] = "queued" THEN "cancelled"
                                           ELSE IF u \in A /\ Active(u) THEN "cancelling" ELSE status[u]
    BY DEF Withdrawn, QueuedIn, ActiveIn, Assign, TypeOK, TaskTypeOK, Active
  <2>2. \A u \in Tasks \ {t} : status'[u] = Withdrawn(A)[u]
    BY <1>3, <1>4, <1>5
  <2>3. \A u \in Tasks \ {t} : eligible'[u] = IF u \in QueuedIn(A) THEN FALSE ELSE eligible[u]
    BY <1>3, <1>4 DEF Assign, TypeOK, TaskTypeOK
  <2>4. \A u \in Tasks \ {t} : claim'[u] = claim[u]
    BY <1>3, <1>4 DEF Released, Assign, TypeOK, ClaimTypeOK
  <2> QED
    BY <2>1, <2>2, <2>3, <2>4 DEF QueuedIn
<1>7. \A p \in PlansOf(t) : plan'[p] \notin PlanOpen
  BY <1>1 DEF Assign, OpenPlans, PlansOf, PlanOpen, TypeOK, PlanTypeOK
<1>8. TaskMoves
  <2>1. ASSUME NEW u \in Tasks, u # t PROVE TaskMove(u)
    BY <1>6, <2>1 DEF TaskMove, Standing, Claimed, Done
  <2>2. TaskMove(t)
    <3>1. CASE Attended(t)
      <4>1. claim[t] = "held" /\ Active(t)
        BY <3>1 DEF Attended, Standing
      <4>2. status'[t] = "cancelling" /\ eligible'[t] = eligible[t] /\ claim'[t] = claim[t]
        BY <1>2, <1>3, <1>5, <3>1 DEF Assign, QueuedIn, TypeOK, TaskTypeOK
      <4> QED
        BY <4>1, <4>2 DEF TaskMove
    <3>2. CASE ~Attended(t)
      <4>1. status'[t] \in {"blocked", "cancelled"} /\ ~eligible'[t] /\ claim'[t] # "held"
        BY <1>4, <1>5, <3>2 DEF Assign, Released, TypeOK, TaskTypeOK, ClaimTypeOK
      <4> QED
        BY <1>1, <4>1 DEF TaskMove, Done
    <3> QED
      BY <3>1, <3>2
  <2> QED
    BY <2>1, <2>2 DEF TaskMoves
<1>9. ASSUME NEW e \in Executions
      PROVE  ExecutionMove(e) /\ (e[1] # t /\ execution[e] # "running" => execution'[e] = execution[e])
  <2>1. /\ \/ AskedToStop(A)[e] = execution[e]
           \/ execution[e] = "running" /\ AskedToStop(A)[e] = "cancelling" /\ e[1] \in A
        /\ e \in DOMAIN AskedToStop(A)
    BY DEF AskedToStop, ActiveIn, Assign, TypeOK, ResultTypeOK
  <2>2. e[1] \in A => OpenPlans(e[1])' = {}
    BY <1>1, <1>2 DEF OpenPlans, PlansOf
  <2>3. OpenPlans(t)' = {}
    BY <1>1, <1>7 DEF OpenPlans, PlansOf, PlanOpen
  <2>4. CASE Attended(t)
    <3>1. CASE e = <<t, current[t]>>
      <4>1. execution[e] \in {"running", "cancelling"} /\ execution'[e] = "cancelling" /\ e[1] = t
        BY <1>3, <2>1, <2>4, <3>1 DEF Attended
      <4> QED
        BY <2>3, <4>1 DEF ExecutionMove
    <3>2. CASE e # <<t, current[t]>>
      <4>1. execution'[e] = AskedToStop(A)[e]
        BY <1>3, <2>1, <2>4, <3>2
      <4> QED
        BY <2>1, <2>2, <4>1 DEF ExecutionMove
    <3> QED
      BY <3>1, <3>2
  <2>5. CASE ~Attended(t)
    <3>1. \/ execution'[e] = AskedToStop(A)[e]
          \/ execution'[e] \in {"lost", "cancelled"} /\ e[1] = t
      BY <1>4, <2>1, <2>5 DEF Assign, ExecutionsOf
    <3> QED
      BY <2>1, <2>2, <3>1 DEF ExecutionMove, ExecTerminal
  <2> QED
    BY <2>4, <2>5
<1>10. Reviewing'
  <2>1. ASSUME NEW e \in Executions, approval'[e] = "pending"
        PROVE  /\ approval[e] = "pending"
               /\ status'[e[1]] = "awaiting_approval" /\ execution'[e] = "awaiting_approval"
               /\ \A q \in PlansOf(e[1]) : plan'[q] # "approved"
    <3>1. approval[e] = "pending" /\ e \notin ExecutionsOf(t)
      BY <1>1, <2>1 DEF Assign, TypeOK, ReviewTypeOK
    <3>2. Waiting(e) /\ e[1] \in Tasks
      BY <3>1 DEF Reviewing, Executions
    <3>3. e[1] # t
      BY <3>1, <3>2 DEF Waiting, ExecutionsOf
    <3>4. \A q \in PlansOf(e[1]) : plan'[q] # "approved"
      BY <1>1, <3>2 DEF Waiting, PlansOf, Assign, TypeOK, PlanTypeOK
    <3> QED
      BY <1>6, <1>9, <3>1, <3>2, <3>3, <3>4 DEF Waiting, Active
  <2> QED
    BY <1>1, <2>1, ReviewingKept
<1>11. status'[t] \in {"cancelling", "blocked", "cancelled"}
       /\ (status'[t] = "cancelled" => ~Doubtful(t))
  BY <1>3, <1>4, <1>5
<1>12. ReviewHasSubject'
  <2> SUFFICES ASSUME NEW u \in Tasks, status'[u] = "awaiting_approval"
               PROVE  /\ status[u] = "awaiting_approval"
                      /\ \A q \in PlansOf(u) : plan'[q] \in PlanGone => plan[q] \in PlanGone
    BY <1>1, SubjectsKept
  <2>1. status[u] = "awaiting_approval" /\ u # t
    BY <1>6, <1>11
  <2>2. \A q \in PlansOf(u) : q \notin OpenPlans(t)
    BY <2>1 DEF OpenPlans, PlansOf
  <2> QED
    BY <1>1, <2>1, <2>2 DEF Assign, PlansOf, TypeOK, PlanTypeOK
<1>13. Closes
  <2> SUFFICES ASSUME NEW u \in Tasks, status[u] # "cancelled", status'[u] = "cancelled"
               PROVE  \A p \in PlansOf(u) : plan'[p] \notin {"applying", "uncertain"} \cup PlanOpen
    BY <1>1 DEF Closes, Inert, PlansOf
  <2>1. CASE u # t
    BY <1>2, <1>6, <2>1
  <2>2. CASE u = t
    <3>1. ~Unresolved(t)
      BY <1>11, <2>2 DEF Doubtful
    <3>2. ASSUME NEW p \in PlansOf(t) PROVE plan'[p] \notin {"applying", "uncertain"}
      <4>1. p \in Plans /\ plan[p] \notin {"applying", "uncertain"}
        BY <3>1, PlanUnresolved DEF PlansOf, Unresolved
      <4> QED
        BY <1>1, <4>1 DEF Assign, TypeOK, PlanTypeOK
    <3> QED
      BY <1>7, <2>2, <3>2
  <2> QED
    BY <2>1, <2>2
<1>14. Completed
  BY <1>6, <1>11 DEF Completed, Tasks
<1> QED
  BY <1>8, <1>9, <1>10, <1>12, <1>13, <1>14 DEF Conduct, ExecutionMoves
-----------------------------------------------------------------------------
\* resolve() settles a task whose plan was applied at least in part, and its held applies.
LEMMA ConductResolve ==
  ASSUME Governed, Forward, [Next]_vars, NEW p \in Plans, Resolve(p)
  PROVE  Conduct
<1> USE DEF Governed, Lineage
<1> DEFINE t       == TaskOf(p)
           related == {c \in Applies : target[c] = p /\ status[c] \in {"blocked", "failed"}}
<1>1. /\ plan[p] \in {"applying", "uncertain", "applied"}
      /\ claim[t] # "held"
      /\ \E v \in {"applied", "reconciled"} : plan' = [plan EXCEPT ![p] = v]
      /\ \E S : draft' = Assign(draft, S, "applied") \/ draft' = Assign(draft, S, "closed")
      /\ eligible' = [eligible EXCEPT ![t] = FALSE]
      /\ UNCHANGED <<planExec, scoped, approval, execution, claim, current>>
  BY DEF Resolve, resultVars, reviewVars, claimVars
<1>2. /\ status'[t] \in {"completed", "blocked"}
      /\ \A u \in Tasks \ ({t} \cup related) : status'[u] = status[u]
      /\ \A u \in related \ {t} : status'[u] \in {"blocked", "completed", "cancelled"}
  <2>1. t \in Tasks
    BY <1>1, PlanRoots DEF Records, Origin, Tasks
  <2> QED
    BY <2>1, Zenon DEF Resolve, Tasks
<1>3. t \in Requests /\ t \in Tasks /\ Started(t) /\ t \notin related /\ p \in PlansOf(t)
  BY <1>1, LedgerAssumption DEF Records, Origin, PlansOf, TaskOf, Tasks
<1>4. plan'[p] \in {"applied", "reconciled"} /\ \A q \in Plans \ {p} : plan'[q] = plan[q]
  BY <1>1 DEF TypeOK, PlanTypeOK
<1>5. \A d \in Requests : draft[d] = "pending" => draft'[d] = "pending"
  BY DEF Resolve, Assign, TypeOK, DraftTypeOK
<1>6. TaskMoves
  <2>1. TaskMove(t)
    BY <1>1, <1>2, <1>3 DEF TaskMove, Started, Done, TypeOK, TaskTypeOK
  <2>2. ASSUME NEW u \in Tasks, u \in related PROVE TaskMove(u)
    BY <1>1, <1>2, <1>3, <2>2 DEF TaskMove, Standing, Active, Done, TypeOK, TaskTypeOK
  <2>3. ASSUME NEW u \in Tasks, u \notin related, u # t PROVE TaskMove(u)
    BY <1>1, <1>2, <2>3 DEF TaskMove, TypeOK, TaskTypeOK
  <2> QED
    BY <2>1, <2>2, <2>3 DEF TaskMoves
<1>7. ExecutionMoves
  BY <1>1 DEF ExecutionMoves, ExecutionMove
<1>8. Reviewing'
  <2>1. ASSUME NEW e \in Executions, approval'[e] = "pending"
        PROVE  /\ approval[e] = "pending"
               /\ status'[e[1]] = "awaiting_approval" /\ execution'[e] = "awaiting_approval"
               /\ \A q \in PlansOf(e[1]) : plan'[q] # "approved"
    <3>1. Waiting(e) /\ e[1] \in Tasks /\ approval[e] = "pending"
      BY <1>1, <2>1 DEF Reviewing, Executions
    <3>2. e[1] # t /\ e[1] \notin related
      BY <1>1, <1>3, <3>1 DEF Waiting
    <3>3. \A q \in PlansOf(e[1]) : plan'[q] # "approved"
      BY <1>4, <3>1 DEF Waiting, PlansOf
    <3> QED
      BY <1>1, <1>2, <3>1, <3>2, <3>3 DEF Waiting
  <2> QED
    BY <1>1, <2>1, ReviewingKept
<1>9. ReviewHasSubject'
  <2> SUFFICES ASSUME NEW u \in Tasks, status'[u] = "awaiting_approval"
               PROVE  /\ status[u] = "awaiting_approval"
                      /\ \A q \in PlansOf(u) : plan'[q] \in PlanGone => plan[q] \in PlanGone
    BY <1>5, SubjectsKept
  <2>1. u # t /\ u \notin related
    BY <1>2, <1>3
  <2>2. \A q \in PlansOf(u) : q \in Plans /\ q # p
    BY <2>1 DEF PlansOf, TaskOf
  <2> QED
    BY <1>2, <1>4, <2>1, <2>2
<1>10. Closes
  <2> SUFFICES ASSUME NEW u \in related PROVE Inert(u)'
    BY <1>2 DEF Closes, Inert, PlansOf
  <2> QED
    BY <1>1, AppliesPlanNothing DEF Inert, PlansOf
<1>11. Completed
  BY <1>2, <1>3, <1>4, LedgerAssumption DEF Completed, Tasks
<1> QED
  BY <1>6, <1>7, <1>8, <1>9, <1>10, <1>11 DEF Conduct
-----------------------------------------------------------------------------
\* What settling the tasks of S, whose open plans the column pl has closed, may have made
\* of the rows s: tasks that are not done are cancelled or held outside any claim,
\* active ones asked to stop;
SettlesTasks(s) == \A u \in Tasks :
  \/ s.status[u] = status[u] /\ s.eligible[u] = eligible[u]
  \/ Active(u) /\ s.status[u] = "cancelling" /\ s.eligible[u] = eligible[u]
  \/ /\ status[u] # "none" /\ s.status[u] \in {"cancelled", "blocked"}
     /\ ~s.eligible[u] /\ claim[u] # "held" /\ ~Done(u)
\* executions are ended, or those of applies asked to stop;
SettlesExecutions(s) == \A e \in Executions :
  \/ s.execution[e] \in {execution[e], "cancelled", "lost"}
  \/ execution[e] = "running" /\ s.execution[e] = "cancelling" /\ e[1] \in Applies
\* the reviews that go on have their task and their execution waiting;
SettlesApprovals(s) == \A e \in Executions : s.approval[e] = "pending" =>
  /\ approval[e] = "pending"
  /\ s.status[e[1]] = "awaiting_approval" /\ s.execution[e] = "awaiting_approval"
\* a task of S goes on waiting with another open plan only;
SettlesWaits(s, S, pl) == \A u \in Tasks : s.status[u] = "awaiting_approval" =>
  /\ status[u] = "awaiting_approval"
  /\ u \in S => \E p \in PlansOf(u) : pl[p] \in PlanOpen \cup {"applying"}
\* and a task is cancelled only with its plans closed.
SettlesPlans(s, pl) == \A u \in Tasks :
  status[u] # "cancelled" /\ s.status[u] = "cancelled" =>
    u \in Applies \/ \A p \in PlansOf(u) : pl[p] \notin {"applying", "uncertain"} \cup PlanOpen
Settles(s, S, pl) == /\ SettlesTasks(s) /\ SettlesExecutions(s) /\ SettlesApprovals(s)
                     /\ SettlesWaits(s, S, pl) /\ SettlesPlans(s, pl)

\* _settle_closed_plan for the tasks of closed plans does that:
LEMMA SettledOnce ==
  ASSUME Governed, NEW S \in SUBSET Tasks, \A u \in S : status[u] # "none" /\ PlansOf(u) # {},
         NEW closed \in {"rejected", "expired"}, NEW pl
  PROVE  Settles(Settled(S, closed, status, eligible, execution, approval, pl), S, pl)
<1> USE DEF Governed, Lineage
<1> DEFINE busy(t)  == \E p \in PlansOf(t) : pl[p] \in PlanOpen \cup {"applying"}
           idle     == {t \in S : ~busy(t)}
           free     == {t \in idle : claim[t] # "held"}
           doubtful == {t \in free : UnresolvedGiven(t, execution, pl, resolved, InDoubt)}
           waiting  == {t \in free : status[t] \notin TaskTerminal}
           children == UNION {Children(t) : t \in waiting}
           never    == {c \in children : status[c] = "queued"}
           asked    == {c \in children : status[c] \in {"running", "cancelling"}}
           review(X) == {e \in Executions : e[1] \in X /\ execution[e] = "awaiting_approval"}
           halted   == Assign(execution, {e \in Executions : e[1] \in asked /\ execution[e] = "running"},
                              "cancelling")
           s        == Settled(S, closed, status, eligible, execution, approval, pl)
<1>1. /\ s.status = Assign(Assign(Assign(Assign(status, never, "cancelled"), asked, "cancelling"),
                                  waiting \ doubtful, "cancelled"), doubtful, "blocked")
      /\ s.eligible = Assign(eligible, never \cup waiting, FALSE)
      /\ s.execution = Assign(Assign(halted, review(free \ doubtful), "cancelled"), review(doubtful), "lost")
      /\ s.approval = Assign(approval, {e \in Executions : e[1] \in idle /\ approval[e] = "pending"}, closed)
  BY DEF Settled
<1>2. /\ waiting \subseteq free /\ doubtful \subseteq free /\ free \subseteq idle /\ idle \subseteq S
      /\ \A t \in free : claim[t] # "held" /\ ~busy(t)
      /\ \A t \in waiting : status[t] \notin TaskTerminal
      /\ \A t \in free \ waiting : status[t] \in TaskTerminal
      /\ \A t \in waiting \ doubtful : ~UnresolvedGiven(t, execution, pl, resolved, InDoubt)
      /\ \A c \in never : status[c] = "queued" /\ c \in Tasks
      /\ \A c \in asked : Active(c) /\ c \in Tasks
  BY DEF Children, Active
<1>3. never \subseteq Applies /\ asked \subseteq Applies
  <2> SUFFICES ASSUME NEW t \in waiting, NEW c \in Children(t) PROVE c \in Applies
    OBVIOUS
  <2>1. c \in Tasks /\ parent[c] = t /\ t \in Tasks
    BY DEF Children
  <2>2. c \in Requests => Done(t)
    BY <2>1, LedgerAssumption DEF ChildOfDone
  <2> QED
    BY <1>2, <2>1, <2>2 DEF Done, TaskTerminal, Tasks
<1> HIDE DEF s, busy, idle, free, doubtful, waiting, children, never, asked
<1>4. \A u \in Tasks :
        /\ s.status[u] = IF u \in doubtful THEN "blocked"
                         ELSE IF u \in waiting THEN "cancelled"
                         ELSE IF u \in asked THEN "cancelling"
                         ELSE IF u \in never THEN "cancelled" ELSE status[u]
        /\ s.eligible[u] = IF u \in never \cup waiting THEN FALSE ELSE eligible[u]
  BY <1>1 DEF Assign, TypeOK, TaskTypeOK
<1>5. \A e \in Executions :
        /\ \/ s.execution[e] = execution[e]
           \/ s.execution[e] \in {"cancelled", "lost"} /\ e[1] \in free
           \/ execution[e] = "running" /\ s.execution[e] = "cancelling" /\ e[1] \in asked
        /\ s.approval[e] = IF e[1] \in idle /\ approval[e] = "pending" THEN closed ELSE approval[e]
  BY <1>1, <1>2 DEF Assign, TypeOK, ResultTypeOK, ReviewTypeOK
<1>6. SettlesTasks(s)
  <2> SUFFICES ASSUME NEW u \in Tasks
               PROVE  \/ s.status[u] = status[u] /\ s.eligible[u] = eligible[u]
                      \/ Active(u) /\ s.status[u] = "cancelling" /\ s.eligible[u] = eligible[u]
                      \/ /\ status[u] # "none" /\ s.status[u] \in {"cancelled", "blocked"}
                         /\ ~s.eligible[u] /\ claim[u] # "held" /\ ~Done(u)
    BY DEF SettlesTasks
  <2>1. CASE u \in waiting
    <3>1. status[u] # "none" /\ claim[u] # "held" /\ ~Done(u)
      BY <1>2, <2>1 DEF Done
    <3> QED
      BY <1>4, <2>1, <3>1
  <2>2. CASE u \in doubtful \ waiting
    <3>1. status[u] \in TaskTerminal /\ claim[u] # "held" /\ ~Done(u) /\ u \notin never
      BY <1>2, <2>2 DEF Done, TaskTerminal
    <3>2. ~eligible[u] /\ status[u] # "none"
      BY <3>1 DEF Standing, TaskTerminal
    <3> QED
      BY <1>4, <2>2, <3>1, <3>2
  <2>3. CASE u \notin waiting \cup doubtful
    <3>1. u \in asked => u \notin never
      BY <1>2 DEF Active
    <3>2. u \in never => claim[u] # "held" /\ status[u] # "none" /\ ~Done(u)
      BY <1>2 DEF Standing, Claimed, Done
    <3> QED
      BY <1>2, <1>4, <2>3, <3>1, <3>2
  <2> QED
    BY <2>1, <2>2, <2>3
<1>7. SettlesExecutions(s)
  BY <1>3, <1>5 DEF SettlesExecutions
<1>8. SettlesApprovals(s)
  <2> SUFFICES ASSUME NEW e \in Executions, s.approval[e] = "pending"
               PROVE  /\ approval[e] = "pending"
                      /\ s.status[e[1]] = "awaiting_approval" /\ s.execution[e] = "awaiting_approval"
    BY DEF SettlesApprovals
  <2>1. approval[e] = "pending" /\ e[1] \notin idle
    BY <1>5
  <2>2. Waiting(e) /\ e[1] \in Tasks
    BY <2>1 DEF Reviewing, Executions
  <2>3. e[1] \notin never /\ e[1] \notin asked
    BY <1>2, <2>2 DEF Waiting, Active
  <2> QED
    BY <1>2, <1>4, <1>5, <2>1, <2>2, <2>3 DEF Waiting
<1>9. SettlesWaits(s, S, pl)
  <2> SUFFICES ASSUME NEW u \in Tasks, s.status[u] = "awaiting_approval"
               PROVE  status[u] = "awaiting_approval" /\ (u \in S => busy(u))
    BY DEF SettlesWaits, busy
  <2>1. status[u] = "awaiting_approval" /\ u \notin waiting
    BY <1>4
  <2>2. claim[u] # "held"
    BY <2>1 DEF Standing, Active
  <2> QED
    BY <2>1, <2>2 DEF waiting, free, idle, TaskTerminal
<1>10. SettlesPlans(s, pl)
  <2> SUFFICES ASSUME NEW u \in Tasks, status[u] # "cancelled", s.status[u] = "cancelled", u \notin Applies,
                      NEW p \in PlansOf(u)
               PROVE  pl[p] \notin {"applying", "uncertain"} \cup PlanOpen
    BY DEF SettlesPlans
  <2>1. u \in waiting \ doubtful
    BY <1>3, <1>4
  <2>2. ~busy(u) /\ ~UnresolvedGiven(u, execution, pl, resolved, InDoubt)
    BY <1>2, <2>1
  <2>3. pl[p] \notin {"applying", "uncertain"}
    BY <2>2, PlanUnresolved
  <2> QED
    BY <2>2, <2>3 DEF busy
<1> QED
  BY <1>6, <1>7, <1>8, <1>9, <1>10 DEF Settles, s
\* A second pass over what terminal tasks still show does no more.
LEMMA SettledTwice ==
  ASSUME Governed, NEW s, TypedRows(s), NEW S, NEW pl, Settles(s, S, pl)
  PROVE  Settles(Settled(Leftover(s.status, s.execution, pl), "rejected",
                         s.status, s.eligible, s.execution, s.approval, pl), S, pl)
<1> USE DEF Governed, Lineage
<1> DEFINE L        == Leftover(s.status, s.execution, pl)
           free     == {t \in L : claim[t] # "held"}
           doubtful == {t \in free : UnresolvedGiven(t, s.execution, pl, resolved, InDoubt)}
           review(X) == {e \in Executions : e[1] \in X /\ s.execution[e] = "awaiting_approval"}
           r        == Settled(L, "rejected", s.status, s.eligible, s.execution, s.approval, pl)
<1>1. L \subseteq Tasks /\ \A t \in L : /\ s.status[t] \in TaskTerminal
                                        /\ \E e \in Executions : e[1] = t /\ s.execution[e] = "awaiting_approval"
                                        /\ ~ \E p \in PlansOf(t) : pl[p] \in PlanOpen \cup {"applying"}
  BY DEF Leftover
<1> HIDE DEF L
<1>2. /\ \A t \in Tasks : r.status[t] = IF t \in doubtful THEN "blocked" ELSE s.status[t]
      /\ \A t \in Tasks : r.eligible[t] = s.eligible[t]
      /\ \A e \in Executions : \/ r.execution[e] = s.execution[e]
                               \/ e[1] \in free /\ r.execution[e] \in {"cancelled", "lost"}
      /\ \A e \in Executions : r.approval[e] = IF e[1] \in L /\ s.approval[e] = "pending"
                                               THEN "rejected" ELSE s.approval[e]
  <2> DEFINE idle     == {t \in L : ~ \E p \in PlansOf(t) : pl[p] \in PlanOpen \cup {"applying"}}
             freed    == {t \in idle : claim[t] # "held"}
             doubted  == {t \in freed : UnresolvedGiven(t, s.execution, pl, resolved, InDoubt)}
             waiting  == {t \in freed : s.status[t] \notin TaskTerminal}
             children == UNION {Children(t) : t \in waiting}
             never    == {c \in children : s.status[c] = "queued"}
             asked    == {c \in children : s.status[c] \in {"running", "cancelling"}}
             halted   == Assign(s.execution, {e \in Executions : e[1] \in asked /\ s.execution[e] = "running"},
                                "cancelling")
  <2>1. /\ r.status = Assign(Assign(Assign(Assign(s.status, never, "cancelled"), asked, "cancelling"),
                                    waiting \ doubted, "cancelled"), doubted, "blocked")
        /\ r.eligible = Assign(s.eligible, never \cup waiting, FALSE)
        /\ r.execution = Assign(Assign(halted, review(freed \ doubted), "cancelled"), review(doubted), "lost")
        /\ r.approval = Assign(s.approval, {e \in Executions : e[1] \in idle /\ s.approval[e] = "pending"},
                               "rejected")
    BY DEF Settled
  <2>2. idle = L
    BY <1>1
  <2>3. freed = free /\ doubted = doubtful
    BY <2>2
  <2>4. waiting = {}
    BY <1>1
  <2>5. never = {} /\ asked = {}
    BY <2>4
  <2> HIDE DEF r, idle, free, doubtful, freed, doubted, waiting, children, never, asked
  <2>6. \A t \in Tasks : r.status[t] = IF t \in doubtful THEN "blocked" ELSE s.status[t]
    BY <2>1, <2>3, <2>4, <2>5 DEF Assign, TypedRows
  <2>7. \A t \in Tasks : r.eligible[t] = s.eligible[t]
    BY <2>1, <2>4, <2>5 DEF Assign, TypedRows
  <2>8. \A e \in Executions : \/ r.execution[e] = s.execution[e]
                              \/ e[1] \in free /\ r.execution[e] \in {"cancelled", "lost"}
    <3>1. doubtful \subseteq free
      BY DEF doubtful
    <3> QED
      BY <2>1, <2>3, <2>5, <3>1 DEF Assign, TypedRows
  <2>9. \A e \in Executions : r.approval[e] = IF e[1] \in L /\ s.approval[e] = "pending"
                                              THEN "rejected" ELSE s.approval[e]
    BY <2>1, <2>2 DEF Assign, TypedRows
  <2> QED
    BY <2>6, <2>7, <2>8, <2>9
<1>3. \A t \in doubtful : t \in L /\ claim[t] # "held"
  OBVIOUS
<1> HIDE DEF r, doubtful
<1>4. SettlesTasks(r)
  <2> SUFFICES ASSUME NEW u \in doubtful
               PROVE  /\ status[u] # "none" /\ r.status[u] \in {"cancelled", "blocked"}
                      /\ ~r.eligible[u] /\ claim[u] # "held" /\ ~Done(u)
    BY <1>2 DEF SettlesTasks, Settles
  <2>1. u \in L /\ u \in Tasks /\ claim[u] # "held" /\ s.status[u] \in TaskTerminal
    BY <1>1, <1>3
  <2>2. status[u] # "none" /\ ~s.eligible[u]
    BY <2>1 DEF Settles, SettlesTasks, Standing, TaskTerminal
  <2>3. ~Done(u)
    BY <1>1, <2>1 DEF Done, Settles, SettlesExecutions
  <2> QED
    BY <1>2, <2>1, <2>2, <2>3
<1>5. SettlesExecutions(r)
  BY <1>2 DEF Settles, SettlesExecutions
<1>6. SettlesApprovals(r)
  <2> SUFFICES ASSUME NEW e \in Executions, r.approval[e] = "pending"
               PROVE  /\ approval[e] = "pending"
                      /\ r.status[e[1]] = "awaiting_approval" /\ r.execution[e] = "awaiting_approval"
    BY DEF SettlesApprovals
  <2>1. s.approval[e] = "pending" /\ e[1] \notin L /\ e[1] \in Tasks
    BY <1>2 DEF Executions
  <2> QED
    BY <1>2, <1>3, <2>1 DEF Settles, SettlesApprovals
<1>7. SettlesWaits(r, S, pl)
  BY <1>2 DEF Settles, SettlesWaits
<1>8. SettlesPlans(r, pl)
  BY <1>2 DEF Settles, SettlesPlans
<1> QED
  BY <1>4, <1>5, <1>6, <1>7, <1>8 DEF Settles, r, L

\* What that makes of the rows is within the conduct.
LEMMA ConductSettled ==
  ASSUME Governed, Forward, [Next]_vars, NEW s, NEW S, Settles(s, S, plan'),
         status' = s.status, eligible' = s.eligible, execution' = s.execution, approval' = s.approval,
         UNCHANGED <<planExec, planFresh, draft, scoped, claim, current>>,
         \A q \in Plans : \/ plan'[q] = plan[q]
                          \/ /\ plan[q] \in PlanOpen /\ plan'[q] \in {"revoked", "expired"}
                             /\ TaskOf(q) \in S
  PROVE  Conduct
<1> USE DEF Governed, Lineage, Settles
<1>1. TaskMoves
  <2> SUFFICES ASSUME NEW t \in Tasks PROVE TaskMove(t)
    BY DEF TaskMoves
  <2> QED
    BY DEF SettlesTasks, TaskMove
<1>2. ExecutionMoves
  <2> SUFFICES ASSUME NEW e \in Executions PROVE ExecutionMove(e)
    BY DEF ExecutionMoves
  <2>1. e[1] \in Applies => OpenPlans(e[1])' = {}
    BY AppliesPlanNothing DEF OpenPlans, PlansOf
  <2> QED
    BY <2>1 DEF SettlesExecutions, ExecutionMove, ExecTerminal
<1>3. Reviewing'
  <2>1. ASSUME NEW e \in Executions, approval'[e] = "pending"
        PROVE  /\ approval[e] = "pending"
               /\ status'[e[1]] = "awaiting_approval" /\ execution'[e] = "awaiting_approval"
               /\ \A q \in PlansOf(e[1]) : plan'[q] # "approved"
    <3>1. /\ approval[e] = "pending"
          /\ status'[e[1]] = "awaiting_approval" /\ execution'[e] = "awaiting_approval"
      BY <2>1 DEF SettlesApprovals
    <3>2. \A q \in PlansOf(e[1]) : plan'[q] # "approved"
      BY <3>1 DEF Reviewing, Waiting, PlansOf
    <3> QED
      BY <3>1, <3>2
  <2> QED
    BY <2>1, ReviewingKept
<1>4. ReviewHasSubject'
  <2> SUFFICES ASSUME NEW u \in Tasks, status'[u] = "awaiting_approval"
               PROVE  \/ \E p \in PlansOf(u) : plan'[p] \notin PlanGone
                      \/ u \in Requests /\ draft[u] = "pending"
    BY DEF ReviewHasSubject, PlanGone, PlansOf
  <2>1. /\ status[u] = "awaiting_approval"
        /\ u \in S => \E p \in PlansOf(u) : plan'[p] \in PlanOpen \cup {"applying"}
    BY DEF SettlesWaits
  <2>2. CASE u \in S
    BY <2>1, <2>2 DEF PlanGone, PlanOpen
  <2>3. CASE u \notin S
    <3>1. \A p \in PlansOf(u) : plan'[p] = plan[p]
      BY <2>3 DEF PlansOf, TaskOf
    <3> QED
      BY <2>1, <3>1 DEF ReviewHasSubject, PlanGone
  <2> QED
    BY <2>2, <2>3
<1>5. Closes
  <2> SUFFICES ASSUME NEW u \in Tasks, status[u] # "cancelled", status'[u] = "cancelled",
                      NEW p \in PlansOf(u)
               PROVE  plan'[p] \notin {"applying", "uncertain"} \cup PlanOpen
    BY DEF Closes, Inert, PlansOf
  <2>1. u \notin Applies
    BY AppliesPlanNothing
  <2> QED
    BY <2>1 DEF SettlesPlans
<1>6. Completed
  BY DEF Completed, SettlesTasks, Tasks
<1> QED
  BY <1>1, <1>2, <1>3, <1>4, <1>5, <1>6 DEF Conduct

\* Rejecting or withdrawing a plan settles its task.
LEMMA ConductRevoke ==
  ASSUME Governed, Forward, [Next]_vars, NEW p \in Plans, Revoke(p)
  PROVE  Conduct
<1> USE DEF Governed, Lineage
<1> DEFINE S == {TaskOf(p)}
           s == Settled(S, "rejected", status, eligible, execution, approval, plan')
<1>1. /\ plan[p] \in PlanOpen /\ plan' = [plan EXCEPT ![p] = "revoked"]
      /\ status' = s.status /\ eligible' = s.eligible
      /\ execution' = s.execution /\ approval' = s.approval
  BY DEF Revoke
<1>2. UNCHANGED <<planExec, planFresh, draft, scoped, claim, current>>
  BY Zenon DEF Revoke, claimVars, draftVars
<1>3. TaskOf(p) \in Tasks /\ status[TaskOf(p)] # "none" /\ p \in PlansOf(TaskOf(p))
  BY <1>1, LedgerAssumption DEF Records, Origin, Started, PlansOf, TaskOf, Tasks, PlanOpen
<1>4. S \in SUBSET Tasks /\ \A u \in S : status[u] # "none" /\ PlansOf(u) # {}
  BY <1>3
<1>5. \A q \in Plans : \/ plan'[q] = plan[q]
                       \/ /\ plan[q] \in PlanOpen /\ plan'[q] \in {"revoked", "expired"}
                          /\ TaskOf(q) \in S
  BY <1>1 DEF TypeOK, PlanTypeOK
<1> HIDE DEF S
<1>6. Settles(s, S, plan')
  BY <1>4, SettledOnce
<1> HIDE DEF s
<1> QED
  BY <1>1, <1>2, <1>5, <1>6, ConductSettled

\* So does the maintenance pass for the expired plans, before it closes what is left over.
LEMMA ConductSettleExpired ==
  ASSUME Governed, Forward, [Next]_vars, SettleExpired
  PROVE  Conduct
<1> USE DEF Governed, Lineage
<1> DEFINE expired == {p \in Plans : plan[p] \in PlanOpen /\ ~planFresh[p]}
           S  == {TaskOf(p) : p \in expired}
           s1 == Settled(S, "expired", status, eligible, execution, approval, plan')
           s2 == Settled(Leftover(s1.status, s1.execution, plan'), "rejected",
                         s1.status, s1.eligible, s1.execution, s1.approval, plan')
<1>1. /\ plan' = Assign(plan, expired, "expired")
      /\ status' = s2.status /\ eligible' = s2.eligible
      /\ execution' = s2.execution /\ approval' = s2.approval
  BY DEF SettleExpired
<1>2. UNCHANGED <<planExec, planFresh, draft, scoped, claim, current>>
  BY Zenon DEF SettleExpired, claimVars, draftVars
<1>3. ASSUME NEW p \in expired
      PROVE  TaskOf(p) \in Tasks /\ status[TaskOf(p)] # "none" /\ p \in PlansOf(TaskOf(p))
  <2>1. p \in Plans /\ plan[p] \in PlanOpen
    OBVIOUS
  <2> QED
    BY <2>1, LedgerAssumption DEF Records, Origin, Started, PlansOf, TaskOf, Tasks, PlanOpen
<1>4. S \in SUBSET Tasks /\ \A u \in S : status[u] # "none" /\ PlansOf(u) # {}
  BY <1>3
<1>5. \A q \in Plans : \/ plan'[q] = plan[q]
                       \/ /\ plan[q] \in PlanOpen /\ plan'[q] \in {"revoked", "expired"}
                          /\ TaskOf(q) \in S
  BY <1>1 DEF Assign, TypeOK, PlanTypeOK
<1> HIDE DEF S
<1>6. Settles(s1, S, plan')
  BY <1>4, SettledOnce
<1>7. TypedRows(s1)
  BY SettledTypes DEF TypeOK, TaskTypeOK, ResultTypeOK, ReviewTypeOK
<1> HIDE DEF s1
<1>8. Settles(s2, S, plan')
  BY <1>6, <1>7, SettledTwice
<1> HIDE DEF s2
<1> QED
  BY <1>1, <1>2, <1>5, <1>8, ConductSettled
-----------------------------------------------------------------------------
\* Every step of every process keeps to the conduct,
LEMMA ConductNext ==
  ASSUME Governed, Forward, [Next]_vars
  PROVE  Conduct
<1>1. CASE Recover \/ SettleExpired \/ MaintainDrafts
  BY <1>1, ConductRecover, ConductSettleExpired, ConductMaintainDrafts
<1>2. CASE \E t \in Tasks : Cancel(t) \/ RecordStartFailure(t)
  BY <1>2, ConductCancel, ConductRecordStartFailure
<1>3. CASE \E t \in Tasks, w \in Workers :
             Claim(t, w) \/ Submit(t, w) \/ SubmitUnlaunched(t, w) \/ Resume(t, w)
  BY <1>3, ConductClaim, ConductSubmit, ConductResume
<1>4. CASE \E p \in Plans : Revoke(p) \/ Resolve(p)
  BY <1>4, ConductRevoke, ConductResolve
<1>5. CASE \E p \in Plans, c \in Applies, w \in Workers : Approve(p, c, w)
  BY <1>5, ConductApprove
<1>6. CASE \E d \in Requests : CloseDraft(d)
  BY <1>6, ConductCloseDraft
<1>7. CASE \E d, c \in Requests, w \in Workers : OpenDraft(d, c, w)
  BY <1>7, ConductOpenDraft
<1>8. CASE \E e \in Executions, k \in {"approved", "rejected", "expired"} : DecideApproval(e, k)
  BY <1>8, ConductDecideApproval
<1>9. CASE \E e \in Executions : Propose(e) \/ Clear(e) \/ Finish(e)
  BY <1>9, ConductPropose, ConductClear, ConductFinish
<1>10. CASE ~TaskStep
  BY <1>10, ConductOutside
<1> QED
  BY <1>1, <1>2, <1>3, <1>4, <1>5, <1>6, <1>7, <1>8, <1>9, <1>10 DEF TaskStep

\* the empty ledger has nothing to govern,
LEMMA GovernedInit == Init => Governed
<1> SUFFICES ASSUME Init PROVE Governed
  OBVIOUS
<1>1. Lineage /\ Guarded
  BY LineageInit, GuardedInit
<1>2. Standing /\ TurnsAlone /\ QueuedAnswered /\ SendingIsCurrent
  BY DEF Init, Standing, Active, Claimed, TurnsAlone, QueuedAnswered, SendingIsCurrent, Tasks
<1>3. Reviewing /\ ScopedPast /\ ReviewHasSubject
  BY DEF Init, Reviewing, ScopedPast, ReviewHasSubject
<1>4. CancelledIsClosed /\ CompletedIsApplied
  BY DEF Init, CancelledIsClosed, CompletedIsApplied, Tasks
<1>5. ChildOfDone /\ CancelHasNoPlan /\ CancelReply
  BY DEF Init, ChildOfDone, CancelHasNoPlan, CancelReply, Tasks
<1> QED
  BY <1>1, <1>2, <1>3, <1>4, <1>5 DEF Governed

\* and so the invariant behind the theorems below holds throughout.
LEMMA GovernedAlways == Spec => []Governed
<1>1. Init => Governed
  BY GovernedInit
<1>2. Governed /\ [Next]_vars => Governed'
  <2> SUFFICES ASSUME Governed, [Next]_vars PROVE Governed'
    OBVIOUS
  <2>1. Lineage' /\ Forward
    BY LineageNext DEF Governed
  <2>2. Guarded'
    BY <2>1, GuardedNext DEF Governed, Lineage
  <2> QED
    BY <2>1, <2>2, ConductNext, GovernedKept
<1> QED
  BY <1>1, <1>2, PTL DEF Spec

\* However claims, expiring leases, recover(), cancel() of a task or of its parent and
\* finish() interleave, what shows as active is under a claim, and only that.
THEOREM ActiveIsClaimedCorrect == Spec => []ActiveIsClaimed
<1>1. Governed => ActiveIsClaimed
  BY DEF Governed, Standing, Active, ActiveIsClaimed
<1> QED
  BY <1>1, GovernedAlways, PTL

\* claim() never starts a turn of a conversation beside another one.
THEOREM TurnsAloneCorrect == Spec => []TurnsAlone
<1>1. Governed => TurnsAlone
  BY DEF Governed
<1> QED
  BY <1>1, GovernedAlways, PTL

\* finish(), link_plan, open, close, cancel() and every later attempt close the approval rows
\* of the reviews they end.
THEOREM PendingIsWaitingCorrect == Spec => []PendingIsWaiting
<1>1. Governed => PendingIsWaiting
  BY DEF Governed, Reviewing, Waiting, PendingIsWaiting
<1> QED
  BY <1>1, GovernedAlways, PTL

\* No withdrawal, expiry or close leaves a task waiting for a decision on nothing.
THEOREM ReviewHasSubjectCorrect == Spec => []ReviewHasSubject
<1>1. Governed => ReviewHasSubject
  BY DEF Governed
<1> QED
  BY <1>1, GovernedAlways, PTL

\* cancel() and the settlements never show a task as cancelled while a plan of it is being
\* applied, is in doubt, or can still be approved.
THEOREM CancelledIsClosedCorrect == Spec => []CancelledIsClosed
<1>1. Governed => CancelledIsClosed
  BY DEF Governed
<1> QED
  BY <1>1, GovernedAlways, PTL

\* finish() and resolve() complete an apply only with its plan applied, and nothing undoes
\* that.
THEOREM CompletedIsAppliedCorrect == Spec => []CompletedIsApplied
<1>1. Governed => CompletedIsApplied
  BY DEF Governed
<1> QED
  BY <1>1, GovernedAlways, PTL

\* claim_delivery() takes only the latest result, and resume() waits until the owner has
\* answered for one that is being sent or in doubt.
THEOREM SendingIsCurrentCorrect == Spec => []SendingIsCurrent
<1>1. Governed => SendingIsCurrent
  BY DEF Governed
<1> QED
  BY <1>1, GovernedAlways, PTL
=============================================================================

--------------------------- MODULE OperationProofs ---------------------------
(***************************************************************************)
(* Type correctness of the control plane, for every number of requests,    *)
(* applies, plans, workers, delivery threads, paths, attempts and faults.  *)
(* TypeOK is not inductive: claim() and record_start_failure count up      *)
(* current_execution_id, and the executor threads use spec fields as       *)
(* keys, so the induction carries the facts of Coherent with it.      *)
(***************************************************************************)
EXTENDS OperationProperties, FiniteSetTheorems, TLAPS

\* At most one execution (the record of a worker that never started) was not
\* counted as an attempt by claim().
Numbered == \A t \in Tasks : current[t] <= attempts[t] + 1

\* Only an apply names a plan; a request names the draft it continues, if any.
RequestTargets == \A t \in Requests : target[t] \in Requests \cup {None}

\* A plan the owner may still decide on was proposed by a run of a request.
PlannedByRequest ==
  \A p \in Plans : plan[p] \in PlanOpen => planExec[p] \in Executions /\ planExec[p][1] \in Requests

\* An apply task that may be claimed names its plan.
QueuedApplies == \A t \in Applies : status[t] = "queued" => target[t] \in Plans

\* Threads past the model call run a request, one that links a plan has loaded a
\* draft, and one that applies runs the apply of a plan.
ThreadSubjects ==
  \A e \in Executions :
    /\ pc[e] \in {"model", "scope", "draft", "propose", "clear"} => e[1] \in Requests
    /\ pc[e] \in {"propose", "clear"} => using[e] \in Requests
    /\ pc[e] \in {"start", "begin", "apply", "undo"} /\ e[1] \in Applies => target[e[1]] \in Plans
    /\ pc[e] \in {"begin", "apply", "undo"} => e[1] \in Applies

Coherent == Numbered /\ RequestTargets /\ PlannedByRequest /\ QueuedApplies
            /\ ThreadSubjects

-----------------------------------------------------------------------------
\* A transaction keeps the types of the columns it does not write.
LEMMA TypeFrames ==
  /\ WorkerTypeOK /\ UNCHANGED workerVars => WorkerTypeOK'
  /\ TaskTypeOK /\ UNCHANGED taskVars => TaskTypeOK'
  /\ ResultTypeOK /\ UNCHANGED resultVars => ResultTypeOK'
  /\ ReviewTypeOK /\ UNCHANGED reviewVars => ReviewTypeOK'
  /\ ClaimTypeOK /\ UNCHANGED claimVars => ClaimTypeOK'
  /\ PlanTypeOK /\ UNCHANGED planVars => PlanTypeOK'
  /\ DraftTypeOK /\ UNCHANGED draftVars => DraftTypeOK'
  /\ FileTypeOK /\ UNCHANGED fileVars => FileTypeOK'
  /\ ThreadTypeOK /\ UNCHANGED threadVars => ThreadTypeOK'
  /\ WatchTypeOK /\ UNCHANGED watchVars => WatchTypeOK'
  /\ ResultTypeOK /\ UNCHANGED <<execution, runner, outcome, delivery>> => ResultTypeOK'
  /\ ThreadTypeOK /\ UNCHANGED <<pc, flag, reply, seen, using>> => ThreadTypeOK'
BY DEF WorkerTypeOK, TaskTypeOK, ResultTypeOK, ReviewTypeOK, ClaimTypeOK, PlanTypeOK,
       DraftTypeOK, FileTypeOK, ThreadTypeOK, WatchTypeOK, workerVars, taskVars,
       resultVars, reviewVars, claimVars, planVars, draftVars, fileVars, threadVars, watchVars

\* Nor does it disturb what relates columns it does not write.
LEMMA CoherentFrames ==
  /\ Numbered /\ UNCHANGED taskVars => Numbered'
  /\ Numbered /\ UNCHANGED <<current, attempts>> => Numbered'
  /\ RequestTargets /\ UNCHANGED taskVars => RequestTargets'
  /\ RequestTargets /\ UNCHANGED target => RequestTargets'
  /\ PlannedByRequest /\ UNCHANGED planVars => PlannedByRequest'
  /\ PlannedByRequest /\ UNCHANGED <<plan, planExec>> => PlannedByRequest'
  /\ QueuedApplies /\ UNCHANGED taskVars => QueuedApplies'
  /\ QueuedApplies /\ UNCHANGED <<status, target>> => QueuedApplies'
  /\ ThreadSubjects /\ UNCHANGED <<taskVars, threadVars>> => ThreadSubjects'
  /\ ThreadSubjects /\ UNCHANGED <<target, pc, using>> => ThreadSubjects'
  /\ ThreadSubjects /\ UNCHANGED <<target, threadVars>> => ThreadSubjects'
  /\ ThreadSubjects /\ UNCHANGED <<taskVars, pc, using>> => ThreadSubjects'
BY DEF Numbered, RequestTargets, PlannedByRequest, QueuedApplies, ThreadSubjects, taskVars,
       planVars, threadVars

-----------------------------------------------------------------------------
\* The turn number bind_conn computes is a number.
LEMMA NextSequenceNat == \A t : NextSequence(t) \in Nat
<1> SUFFICES ASSUME NEW t PROVE NextSequence(t) \in Nat
  OBVIOUS
<1> DEFINE S == {u \in Requests : Conversation[u] = Conversation[t] /\ sequence[u] > 0}
<1>1. IsFiniteSet(S)
  BY LedgerAssumption, FS_Subset
<1>2. Cardinality(S) \in Nat
  BY <1>1, FS_CardinalityType
<1> QED
  BY <1>2 DEF NextSequence

\* The values that the set-based updates write.
LEMMA StatusNames ==
  /\ {"blocked", "completed", "cancelled", "cancelling"} \subseteq TaskStatus \ {"queued"}
  /\ "queued" \in TaskStatus
  /\ {"lost", "succeeded", "cancelled", "cancelling"} \subseteq ExecStatus
  /\ {"revoked", "expired"} \subseteq PlanStatus
  /\ \A r \in Outcomes \cup {"none"} : StatusFor(r) \in TaskStatus \ {"queued"}
BY DEF TaskStatus, ExecStatus, ExecTerminal, PlanStatus, StatusFor, Outcomes

\* UPDATE ... SET keeps the type of its column.
LEMMA AssignTypes ==
  /\ \A f, S, v : f \in [Tasks -> TaskStatus] /\ v \in TaskStatus
                  => Assign(f, S, v) \in [Tasks -> TaskStatus]
  /\ \A f, S, v : f \in [Tasks -> BOOLEAN] /\ v \in BOOLEAN
                  => Assign(f, S, v) \in [Tasks -> BOOLEAN]
  /\ \A f, S, v : f \in [Executions -> ExecStatus] /\ v \in ExecStatus
                  => Assign(f, S, v) \in [Executions -> ExecStatus]
  /\ \A f, S, v : f \in [Executions -> {"none", "pending", "approved", "rejected", "expired"}]
                  /\ v \in {"none", "pending", "approved", "rejected", "expired"}
                  => Assign(f, S, v) \in [Executions -> {"none", "pending", "approved", "rejected", "expired"}]
  /\ \A f, S, v : f \in [Plans -> PlanStatus] /\ v \in PlanStatus
                  => Assign(f, S, v) \in [Plans -> PlanStatus]
BY DEF Assign

\* An UPDATE to another status queues nothing.
LEMMA AssignQueued ==
  \A f, S, v, t : /\ f \in [Tasks -> TaskStatus] /\ t \in Tasks /\ v # "queued"
                  /\ Assign(f, S, v)[t] = "queued"
                  => f[t] = "queued"
BY DEF Assign

\* _submit_conn inserts well-typed rows, for an apply only with its plan.
LEMMA InsertTaskTypes ==
  ASSUME TypeOK, Coherent, NEW t \in Tasks, NEW w \in Workers, NEW up \in Requests \cup {None},
         NEW tgt \in Requests \cup Plans \cup {None},
         t \in Requests => tgt \in Requests \cup {None},
         t \in Applies => tgt \in Plans,
         NEW before \in [Tasks -> TaskStatus],
         \A u \in Tasks : before[u] = "queued" => status[u] = "queued",
         InsertTask(t, w, up, tgt, before)
  PROVE  /\ status' \in [Tasks -> TaskStatus]
         /\ eligible' \in [Tasks -> BOOLEAN]
         /\ generation' \in [Tasks -> Workers \cup {None}]
         /\ parent' \in [Tasks -> Requests \cup {None}]
         /\ target' \in [Tasks -> Requests \cup Plans \cup {None}]
         /\ sequence' \in [Tasks -> Nat]
         /\ RequestTargets' /\ QueuedApplies'
         /\ UNCHANGED <<pc, using>> => ThreadSubjects'
<1>1. NextSequence(t) \in Nat
  BY NextSequenceNat
<1>2. "queued" \in TaskStatus
  BY StatusNames
<1>3. RequestTargets' /\ QueuedApplies'
  BY DEF InsertTask, TypeOK, TaskTypeOK, Coherent, RequestTargets, QueuedApplies, Tasks
<1>4. UNCHANGED <<pc, using>> => ThreadSubjects'
  BY DEF InsertTask, TypeOK, TaskTypeOK, Coherent, ThreadSubjects, Tasks
<1> QED
  BY <1>1, <1>2, <1>3, <1>4 DEF InsertTask, TypeOK, TaskTypeOK

\* A transaction that queues nothing and rewrites no spec keeps QueuedApplies.
LEMMA QueuedAppliesKept ==
  ASSUME QueuedApplies, UNCHANGED target,
         \A u \in Tasks : status'[u] = "queued" => status[u] = "queued"
  PROVE  QueuedApplies'
BY DEF QueuedApplies, Tasks

\* create inserts a well-typed draft row.
LEMMA CreateDraftTypes ==
  ASSUME TypeOK, NEW t \in Requests, NEW reads \in BOOLEAN, CreateDraft(t, reads)
  PROVE  DraftTypeOK'
<1>1. CASE draft[t] # "none"
  BY <1>1, TypeFrames DEF TypeOK, CreateDraft
<1>2. CASE draft[t] = "none"
  <2>1. draft' \in [Requests -> {"none", "pending", "ready", "closed", "applied"}]
    BY <1>2 DEF TypeOK, DraftTypeOK, CreateDraft
  <2>2. draftRev' \in [Requests -> Nat]
    BY <1>2 DEF TypeOK, DraftTypeOK, CreateDraft
  <2>3. draftFresh' \in [Requests -> BOOLEAN] /\ draftReads' \in [Requests -> BOOLEAN]
    BY <1>2 DEF TypeOK, DraftTypeOK, CreateDraft
  <2> QED
    BY <1>2, <2>1, <2>2, <2>3 DEF TypeOK, DraftTypeOK, CreateDraft
<1> QED
  BY <1>1, <1>2

\* Rows of the columns that settling closed plans writes.
TypedRows(s) ==
  /\ s.status \in [Tasks -> TaskStatus]
  /\ s.eligible \in [Tasks -> BOOLEAN]
  /\ s.execution \in [Executions -> ExecStatus]
  /\ s.approval \in [Executions -> {"none", "pending", "approved", "rejected", "expired"}]

\* _settle_closed_plan writes well-typed rows.
LEMMA SettledTypes ==
  ASSUME NEW S, NEW closed \in {"rejected", "expired"},
         NEW st \in [Tasks -> TaskStatus], NEW el \in [Tasks -> BOOLEAN],
         NEW ex \in [Executions -> ExecStatus],
         NEW ap \in [Executions -> {"none", "pending", "approved", "rejected", "expired"}],
         NEW pl
  PROVE  TypedRows(Settled(S, closed, st, el, ex, ap, pl))
<1>1. {"cancelled", "cancelling", "blocked"} \subseteq TaskStatus
  BY StatusNames
<1>2. {"cancelled", "cancelling", "lost"} \subseteq ExecStatus
  BY StatusNames
<1> QED
  BY <1>1, <1>2, AssignTypes DEF Settled, TypedRows

\* _settle_closed_plan asks running tasks to stop, cancels queued ones and the tasks of the
\* plan, or blocks these, and ends only waits.
LEMMA SettledRows ==
  ASSUME NEW S, NEW closed, NEW st, NEW el, NEW ex, NEW ap, NEW pl
  PROVE  /\ \E A, B, C, D : /\ Settled(S, closed, st, el, ex, ap, pl).status
                                   = Assign(Assign(Assign(Assign(st, A, "cancelled"), B, "cancelling"),
                                                   C, "cancelled"), D, "blocked")
                            /\ \A t \in A : st[t] = "queued"
                            /\ \A t \in B : st[t] \in {"running", "cancelling"}
                            /\ C \subseteq S /\ D \subseteq S
         /\ \E A, B, C : /\ Settled(S, closed, st, el, ex, ap, pl).execution
                                = Assign(Assign(Assign(ex, A, "cancelling"), B, "cancelled"), C, "lost")
                         /\ \A e \in A : ex[e] = "running"
                         /\ \A e \in B \cup C : ex[e] = "awaiting_approval"
         /\ \E A : /\ Settled(S, closed, st, el, ex, ap, pl).approval = Assign(ap, A, closed)
                   /\ \A e \in A : ap[e] = "pending"
<1> DEFINE
  busy(t)  == \E p \in PlansOf(t) : pl[p] \in PlanOpen \cup {"applying"}
  idle     == {t \in S : ~busy(t)}
  free     == {t \in idle : claim[t] # "held"}
  doubtful == {t \in free : UnresolvedGiven(t, ex, pl, resolved, InDoubt)}
  waiting  == {t \in free : st[t] \notin TaskTerminal}
  children == UNION {Children(t) : t \in waiting}
  never    == {c \in children : st[c] = "queued"}
  asked    == {c \in children : st[c] \in {"running", "cancelling"}}
  review(X) == {e \in Executions : e[1] \in X /\ ex[e] = "awaiting_approval"}
  running  == {e \in Executions : e[1] \in asked /\ ex[e] = "running"}
  pending  == {e \in Executions : e[1] \in idle /\ ap[e] = "pending"}
<1>1. Settled(S, closed, st, el, ex, ap, pl).status
        = Assign(Assign(Assign(Assign(st, never, "cancelled"), asked, "cancelling"),
                        waiting \ doubtful, "cancelled"), doubtful, "blocked")
  BY DEF Settled
<1>2. Settled(S, closed, st, el, ex, ap, pl).execution
        = Assign(Assign(Assign(ex, running, "cancelling"), review(free \ doubtful), "cancelled"),
                 review(doubtful), "lost")
  BY DEF Settled
<1>3. Settled(S, closed, st, el, ex, ap, pl).approval = Assign(ap, pending, closed)
  BY DEF Settled
<1>4. /\ \A t \in never : st[t] = "queued"
      /\ \A t \in asked : st[t] \in {"running", "cancelling"}
      /\ waiting \ doubtful \subseteq S /\ doubtful \subseteq S
  OBVIOUS
<1>5. /\ \A e \in running : ex[e] = "running"
      /\ \A e \in review(free \ doubtful) \cup review(doubtful) : ex[e] = "awaiting_approval"
      /\ \A e \in pending : ap[e] = "pending"
  OBVIOUS
<1> HIDE DEF busy, idle, free, doubtful, waiting, children, never, asked, review, running, pending
<1> QED
  BY <1>1, <1>2, <1>3, <1>4, <1>5

\* It queues nothing.
LEMMA SettledQueued ==
  ASSUME NEW S, NEW closed, NEW st \in [Tasks -> TaskStatus], NEW el, NEW ex, NEW ap, NEW pl,
         NEW t \in Tasks, Settled(S, closed, st, el, ex, ap, pl).status[t] = "queued"
  PROVE  st[t] = "queued"
<1>1. PICK A, B, C, D : Settled(S, closed, st, el, ex, ap, pl).status =
        Assign(Assign(Assign(Assign(st, A, "cancelled"), B, "cancelling"), C, "cancelled"), D, "blocked")
  BY SettledRows
<1> QED
  BY <1>1 DEF Assign

\* Withdrawing plans from their apply tasks does as well.
LEMMA WithdrawnTypes ==
  ASSUME TypeOK, NEW S
  PROVE  /\ Withdrawn(S) \in [Tasks -> TaskStatus]
         /\ AskedToStop(S) \in [Executions -> ExecStatus]
         /\ \A t \in Tasks : Withdrawn(S)[t] = "queued" => status[t] = "queued"
BY StatusNames, AssignTypes, AssignQueued
   DEF Withdrawn, AskedToStop, TypeOK, TaskTypeOK, ResultTypeOK

\* So does settling reviews.
LEMMA ReviewTypes ==
  ASSUME TypeOK, NEW S, NEW ended \in {"completed", "cancelled"}
  PROVE  /\ ReviewStatus(S, status, ended) \in [Tasks -> TaskStatus]
         /\ ReviewExecution(S, ended) \in [Executions -> ExecStatus]
         /\ \A t \in Tasks : ReviewStatus(S, status, ended)[t] = "queued" => status[t] = "queued"
BY StatusNames, AssignTypes, AssignQueued
   DEF ReviewStatus, ReviewExecution, TypeOK, TaskTypeOK, ResultTypeOK

\* link_plan_conn keeps the types of the columns it writes.
LEMMA LinkPlanTypes ==
  ASSUME TypeOK, NEW e \in Executions, NEW d \in Requests, NEW p \in Plans \cup {None},
         LinkPlan(e, d, p)
  PROVE  /\ DraftTypeOK' /\ ReviewTypeOK' /\ ResultTypeOK'
         /\ status' \in [Tasks -> TaskStatus]
         /\ \A t \in Tasks : status'[t] = "queued" => status[t] = "queued"
<1>1. DraftTypeOK'
  BY DEF LinkPlan, TypeOK, DraftTypeOK
<1>2. ReviewTypeOK'
  BY AssignTypes DEF LinkPlan, TypeOK, ReviewTypeOK
<1>3. ResultTypeOK'
  BY ReviewTypes DEF LinkPlan, TypeOK, ResultTypeOK
<1>4. /\ status' \in [Tasks -> TaskStatus]
      /\ \A t \in Tasks : status'[t] = "queued" => status[t] = "queued"
  BY ReviewTypes DEF LinkPlan
<1> QED
  BY <1>1, <1>2, <1>3, <1>4

-----------------------------------------------------------------------------

\* register_worker keeps the types.
LEMMA TypesStartWorker ==
  ASSUME TypeOK, Coherent, NEW w \in Workers, StartWorker(w)
  PROVE  TypeOK' /\ Coherent'
<1>1. WorkerTypeOK'
  BY DEF TypeOK, WorkerTypeOK, StartWorker
<1> QED
  BY <1>1, TypeFrames, CoherentFrames DEF TypeOK, Coherent, StartWorker

\* A heartbeat keeps the types.
LEMMA TypesHeartbeat ==
  ASSUME TypeOK, Coherent, NEW w \in Workers, Heartbeat(w)
  PROVE  TypeOK' /\ Coherent'
<1>1. WorkerTypeOK'
  BY DEF TypeOK, WorkerTypeOK, Heartbeat
<1> QED
  BY <1>1, TypeFrames, CoherentFrames DEF TypeOK, Coherent, Heartbeat

\* A missed heartbeat keeps the types.
LEMMA TypesHeartbeatLapses ==
  ASSUME TypeOK, Coherent, NEW w \in Workers, HeartbeatLapses(w)
  PROVE  TypeOK' /\ Coherent'
<1>1. WorkerTypeOK'
  BY DEF TypeOK, WorkerTypeOK, HeartbeatLapses
<1>2. faults' \in 0 .. MaxFaults
  BY LedgerAssumption DEF TypeOK, HeartbeatLapses, Stall
<1> QED
  BY <1>1, <1>2, TypeFrames, CoherentFrames DEF TypeOK, Coherent, HeartbeatLapses

\* The stop event keeps the types.
LEMMA TypesStopWorker ==
  ASSUME TypeOK, Coherent, NEW w \in Workers, StopWorker(w)
  PROVE  TypeOK' /\ Coherent'
<1>1. WorkerTypeOK'
  BY DEF TypeOK, WorkerTypeOK, StopWorker
<1> QED
  BY <1>1, TypeFrames, CoherentFrames DEF TypeOK, Coherent, StopWorker

\* Closing a worker row keeps the types.
LEMMA TypesCloseWorker ==
  ASSUME TypeOK, Coherent, NEW w \in Workers, CloseWorker(w)
  PROVE  TypeOK' /\ Coherent'
<1>1. WorkerTypeOK'
  BY DEF TypeOK, WorkerTypeOK, CloseWorker
<1> QED
  BY <1>1, TypeFrames, CoherentFrames DEF TypeOK, Coherent, CloseWorker

\* The death of a worker process keeps the types.
LEMMA TypesCrash ==
  ASSUME TypeOK, Coherent, NEW w \in Workers, Crash(w)
  PROVE  TypeOK' /\ Coherent'
<1>1. WorkerTypeOK'
  BY DEF TypeOK, WorkerTypeOK, Crash
<1>2. FileTypeOK'
  BY DEF TypeOK, FileTypeOK, Crash
<1>3. ThreadTypeOK'
  BY DEF TypeOK, ThreadTypeOK, Crash, Assign, Threads
<1>4. ThreadSubjects'
  BY DEF TypeOK, ThreadTypeOK, Coherent, ThreadSubjects, Crash, Assign, taskVars
<1>5. faults' \in 0 .. MaxFaults
  BY LedgerAssumption DEF TypeOK, Crash, Stall
<1> QED
  BY <1>1, <1>2, <1>3, <1>4, <1>5, TypeFrames, CoherentFrames DEF TypeOK, Coherent,
     Crash

\* claim() counts within the bounds of Numbered and keeps the types.
LEMMA TypesClaim ==
  ASSUME TypeOK, Coherent, NEW t \in Tasks, NEW w \in Workers, Claim(t, w)
  PROVE  TypeOK' /\ Coherent'
<1>1. /\ current[t] + 1 \in 1 .. MaxExecs
      /\ attempts[t] + 1 \in 0 .. MaxAttempts
      /\ current[t] + 1 <= attempts[t] + 2
  BY LedgerAssumption DEF TypeOK, TaskTypeOK, Coherent, Numbered, Claim, Claimable,
     MaxExecs
<1>2. <<t, current[t] + 1>> \in Executions
  BY <1>1 DEF Executions
<1>3. TaskTypeOK'
  BY <1>1 DEF TypeOK, TaskTypeOK, Claim, TaskStatus, MaxExecs
<1>4. ResultTypeOK'
  BY <1>2 DEF TypeOK, ResultTypeOK, Claim, ExecStatus
<1>5. ClaimTypeOK'
  BY <1>1 DEF TypeOK, ClaimTypeOK, Claim, MaxExecs
<1>6. ThreadTypeOK'
  BY <1>2 DEF TypeOK, ThreadTypeOK, Claim, Threads
<1>7. Numbered'
  BY <1>1 DEF TypeOK, TaskTypeOK, Coherent, Numbered, Claim
<1>8. QueuedApplies'
  BY DEF Coherent, QueuedApplies, Claim, TypeOK, TaskTypeOK, Tasks
<1>9. ThreadSubjects'
  BY <1>2 DEF TypeOK, ThreadTypeOK, Coherent, ThreadSubjects, QueuedApplies, Claim,
     Claimable
<1> QED
  BY <1>3, <1>4, <1>5, <1>6, <1>7, <1>8, <1>9, TypeFrames, CoherentFrames DEF TypeOK,
     Coherent, Claim

\* submit keeps the types.
LEMMA TypesSubmit ==
  ASSUME TypeOK, Coherent, NEW t \in Tasks, NEW w \in Workers, Submit(t, w)
  PROVE  TypeOK' /\ Coherent'
<1>1. PICK d \in Attachable(t) \cup {None} : InsertTask(t, w, None, d, status)
  BY DEF Submit
<1>2. t \in Tasks /\ t \notin Applies /\ d \in Requests \cup {None}
  BY LedgerAssumption DEF Attachable, Tasks, Submit
<1>3. status \in [Tasks -> TaskStatus] /\ UNCHANGED <<pc, using>>
  BY DEF TypeOK, TaskTypeOK, Submit, threadVars
<1>4. TaskTypeOK'
  BY <1>1, <1>2, <1>3, InsertTaskTypes DEF TypeOK, TaskTypeOK, Submit
<1>5. RequestTargets'
  BY <1>1, <1>2, <1>3, InsertTaskTypes
<1>6. QueuedApplies'
  BY <1>1, <1>2, <1>3, InsertTaskTypes
<1>7. ThreadSubjects'
  BY <1>1, <1>2, <1>3, InsertTaskTypes
<1> QED
  BY <1>4, <1>5, <1>6, <1>7, TypeFrames, CoherentFrames DEF TypeOK, Coherent, Submit

\* submit for a worker that could not be launched keeps the types.
LEMMA TypesSubmitUnlaunched ==
  ASSUME TypeOK, Coherent, NEW t \in Tasks, NEW w \in Workers, SubmitUnlaunched(t, w)
  PROVE  TypeOK' /\ Coherent'
<1>1. PICK d \in Attachable(t) \cup {None} : InsertTask(t, w, None, d, status)
  BY DEF SubmitUnlaunched
<1>2. t \in Tasks /\ t \notin Applies /\ d \in Requests \cup {None}
  BY LedgerAssumption DEF Attachable, Tasks, SubmitUnlaunched
<1>3. status \in [Tasks -> TaskStatus] /\ UNCHANGED <<pc, using>>
  BY DEF TypeOK, TaskTypeOK, SubmitUnlaunched, threadVars
<1>4. WorkerTypeOK'
  BY DEF TypeOK, WorkerTypeOK, SubmitUnlaunched
<1>5. TaskTypeOK'
  BY <1>1, <1>2, <1>3, InsertTaskTypes DEF TypeOK, TaskTypeOK, SubmitUnlaunched
<1>6. RequestTargets'
  BY <1>1, <1>2, <1>3, InsertTaskTypes
<1>7. QueuedApplies'
  BY <1>1, <1>2, <1>3, InsertTaskTypes
<1>8. ThreadSubjects'
  BY <1>1, <1>2, <1>3, InsertTaskTypes
<1> QED
  BY <1>4, <1>5, <1>6, <1>7, <1>8, TypeFrames, CoherentFrames DEF TypeOK, Coherent,
     SubmitUnlaunched

\* resume keeps the types.
LEMMA TypesResume ==
  ASSUME TypeOK, Coherent, NEW t \in Tasks, NEW w \in Workers, Resume(t, w)
  PROVE  TypeOK' /\ Coherent'
<1>1. TaskTypeOK'
  BY DEF TypeOK, TaskTypeOK, Resume, TaskStatus
<1>2. QueuedApplies'
  BY LedgerAssumption DEF TypeOK, TaskTypeOK, Coherent, QueuedApplies, Tasks, Resume
<1> QED
  BY <1>1, <1>2, TypeFrames, CoherentFrames DEF TypeOK, Coherent, Resume

\* dismiss keeps the types.
LEMMA TypesDismiss ==
  ASSUME TypeOK, Coherent, NEW t \in Tasks, Dismiss(t)
  PROVE  TypeOK' /\ Coherent'
<1>1. TaskTypeOK'
  BY DEF TypeOK, TaskTypeOK, Dismiss, TaskStatus
<1> QED
  BY <1>1, TypeFrames, CoherentFrames DEF TypeOK, Coherent, Dismiss

\* acknowledge_delivery keeps the types.
LEMMA TypesAcknowledgeDelivery ==
  ASSUME TypeOK, Coherent, NEW t \in Tasks, AcknowledgeDelivery(t)
  PROVE  TypeOK' /\ Coherent'
<1>1. ResultTypeOK'
  BY DEF TypeOK, ResultTypeOK, AcknowledgeDelivery, ledgerVars, ExecStatus,
     ExecTerminal, Outcomes
<1> QED
  BY <1>1, TypeFrames, CoherentFrames DEF TypeOK, Coherent, AcknowledgeDelivery,
     ledgerVars

\* cancel keeps the types.
LEMMA TypesCancel ==
  ASSUME TypeOK, Coherent, NEW t \in Tasks, Cancel(t)
  PROVE  TypeOK' /\ Coherent'
<1>1. /\ Withdrawn(AppliesOf(t)) \in [Tasks -> TaskStatus]
      /\ AskedToStop(AppliesOf(t)) \in [Executions -> ExecStatus]
      /\ \A u \in Tasks : Withdrawn(AppliesOf(t))[u] = "queued" => status[u] = "queued"
  BY WithdrawnTypes
<1>2. \A u \in Tasks : status'[u] = "queued" => status[u] = "queued"
  BY <1>1 DEF Cancel
<1>3. status' \in [Tasks -> TaskStatus]
  BY <1>1, StatusNames DEF Cancel
<1>4. \/ eligible' = Assign(eligible, QueuedIn(AppliesOf(t)), FALSE)
      \/ eligible' = Assign(eligible, QueuedIn(AppliesOf(t)) \cup {t}, FALSE)
  BY DEF Cancel
<1>5. eligible' \in [Tasks -> BOOLEAN]
  BY <1>4 DEF TypeOK, TaskTypeOK, Assign
<1>6. \/ execution' = [AskedToStop(AppliesOf(t)) EXCEPT ![<<t, current[t]>>] = "cancelling"]
      \/ \E S, v : /\ v \in {"lost", "cancelled"}
                   /\ execution' = Assign(AskedToStop(AppliesOf(t)), S, v)
  BY DEF Cancel
<1>7. execution' \in [Executions -> ExecStatus]
  BY <1>1, <1>6, AssignTypes, StatusNames
<1>8. TaskTypeOK'
  BY <1>3, <1>5 DEF TypeOK, TaskTypeOK, Cancel
<1>9. ResultTypeOK'
  BY <1>7 DEF TypeOK, ResultTypeOK, Cancel
<1>10. ReviewTypeOK'
  BY AssignTypes DEF TypeOK, ReviewTypeOK, Cancel
<1>11. ClaimTypeOK'
  BY DEF TypeOK, ClaimTypeOK, Cancel, Released, Assign
<1>12. PlanTypeOK'
  BY AssignTypes, StatusNames DEF TypeOK, PlanTypeOK, Cancel
<1>13. PlannedByRequest'
  BY DEF TypeOK, PlanTypeOK, Coherent, PlannedByRequest, PlanOpen, Cancel, Assign
<1>14. QueuedApplies'
  BY <1>2, QueuedAppliesKept DEF Coherent, Cancel
<1> QED
  BY <1>8, <1>9, <1>10, <1>11, <1>12, <1>13, <1>14, TypeFrames, CoherentFrames DEF
     TypeOK, Coherent, Cancel

\* record_start_failure counts at most one execution more and keeps the types.
LEMMA TypesRecordStartFailure ==
  ASSUME TypeOK, Coherent, NEW t \in Tasks, RecordStartFailure(t)
  PROVE  TypeOK' /\ Coherent'
<1>1. TaskTypeOK'
  BY LedgerAssumption DEF TypeOK, TaskTypeOK, RecordStartFailure, MaxExecs
<1>2. ResultTypeOK'
  BY LedgerAssumption DEF TypeOK, ResultTypeOK, RecordStartFailure, ExecStatus,
     ExecTerminal, Outcomes
<1>3. Numbered'
  BY DEF TypeOK, TaskTypeOK, Coherent, Numbered, RecordStartFailure
<1> QED
  BY <1>1, <1>2, <1>3, TypeFrames, CoherentFrames DEF TypeOK, Coherent,
     RecordStartFailure

\* decide(revoke) keeps the types.
LEMMA TypesRevoke ==
  ASSUME TypeOK, Coherent, NEW p \in Plans, Revoke(p)
  PROVE  TypeOK' /\ Coherent'
<1>1. /\ status \in [Tasks -> TaskStatus] /\ eligible \in [Tasks -> BOOLEAN]
      /\ execution \in [Executions -> ExecStatus]
      /\ approval \in [Executions -> {"none", "pending", "approved", "rejected", "expired"}]
  BY DEF TypeOK, TaskTypeOK, ResultTypeOK, ReviewTypeOK
<1>2. \A u \in Tasks : status'[u] = "queued" => status[u] = "queued"
  BY <1>1, SettledQueued DEF Revoke
<1>3. TaskTypeOK'
  BY <1>1, SettledTypes DEF TypeOK, TaskTypeOK, Revoke, TypedRows
<1>4. ResultTypeOK'
  BY <1>1, SettledTypes DEF TypeOK, ResultTypeOK, Revoke, TypedRows
<1>5. ReviewTypeOK'
  BY <1>1, SettledTypes DEF TypeOK, ReviewTypeOK, Revoke, TypedRows
<1>6. PlanTypeOK'
  BY DEF TypeOK, PlanTypeOK, Revoke, Assign, PlanStatus
<1>7. PlannedByRequest'
  BY DEF Coherent, PlannedByRequest, Revoke, TypeOK, Assign, PlanOpen, PlanTypeOK
<1>8. QueuedApplies'
  BY <1>2, QueuedAppliesKept DEF Coherent, Revoke
<1> QED
  BY <1>3, <1>4, <1>5, <1>6, <1>7, <1>8, TypeFrames, CoherentFrames DEF TypeOK,
     Coherent, Revoke

\* Taking the workspace lock for a look at the files keeps the types.
LEMMA TypesObserve ==
  ASSUME TypeOK, Coherent, NEW p \in Plans, Observe(p)
  PROVE  TypeOK' /\ Coherent'
<1>1. FileTypeOK'
  BY DEF TypeOK, FileTypeOK, Observe, Observed, PlanTypeOK
<1> QED
  BY <1>1, TypeFrames, CoherentFrames DEF TypeOK, Coherent, Observe

\* Releasing it keeps the types.
LEMMA TypesLetGo ==
  ASSUME TypeOK, NEW p \in Plans, LetGo(p), UNCHANGED disk
  PROVE  FileTypeOK'
BY DEF TypeOK, FileTypeOK, LetGo

\* A reconciliation that ends, or a resolution that fails, keeps the types.
LEMMA TypesWithdraw ==
  ASSUME TypeOK, Coherent, NEW p \in Plans, Withdraw(p)
  PROVE  TypeOK' /\ Coherent'
<1>1. FileTypeOK'
  BY TypesLetGo DEF Withdraw
<1> QED
  BY <1>1, TypeFrames, CoherentFrames DEF TypeOK, Coherent, Withdraw

\* resolve keeps the types.
LEMMA TypesResolve ==
  ASSUME TypeOK, Coherent, NEW p \in Plans, Resolve(p)
  PROVE  TypeOK' /\ Coherent'
<1>1. TaskTypeOK'
  BY DEF TypeOK, TaskTypeOK, Resolve, Assign, TaskStatus
<1>2. PlanTypeOK'
  BY DEF TypeOK, PlanTypeOK, Resolve, Assign, PlanStatus
<1>3. DraftTypeOK'
  BY DEF TypeOK, DraftTypeOK, Resolve, Assign
<1>4. PlannedByRequest'
  BY DEF Coherent, PlannedByRequest, Resolve, TypeOK, Assign, PlanOpen, PlanTypeOK
<1>5. QueuedApplies'
  BY DEF Coherent, QueuedApplies, Tasks, Resolve
<1>6. FileTypeOK'
  BY TypesLetGo DEF Resolve
<1> QED
  BY <1>1, <1>2, <1>3, <1>4, <1>5, <1>6, TypeFrames, CoherentFrames DEF TypeOK, Coherent,
     Resolve

\* approve_and_submit_apply keeps the types.
LEMMA TypesApprove ==
  ASSUME TypeOK, Coherent, NEW p \in Plans, NEW c \in Applies, NEW w \in Workers,
         Approve(p, c, w)
  PROVE  TypeOK' /\ Coherent'
<1>1. TaskOf(p) \in Requests
  BY DEF Approve, Coherent, PlannedByRequest, TaskOf
<1>2. /\ InsertTask(c, w, TaskOf(p), p, status)
      /\ c \in Tasks /\ c \notin Requests
  BY LedgerAssumption DEF Approve, Tasks
<1>3. status \in [Tasks -> TaskStatus] /\ UNCHANGED <<pc, using>>
  BY DEF TypeOK, TaskTypeOK, Approve, threadVars
<1>4. TaskTypeOK'
  BY <1>1, <1>2, <1>3, InsertTaskTypes DEF TypeOK, TaskTypeOK, Approve
<1>5. ReviewTypeOK'
  BY DEF TypeOK, ReviewTypeOK, Approve, Assign
<1>6. PlanTypeOK'
  BY DEF TypeOK, PlanTypeOK, Approve, Assign, PlanStatus
<1>7. RequestTargets'
  BY <1>1, <1>2, <1>3, InsertTaskTypes
<1>8. PlannedByRequest'
  BY DEF Coherent, PlannedByRequest, Approve, TypeOK, Assign, PlanOpen, PlanTypeOK
<1>9. QueuedApplies'
  BY <1>1, <1>2, <1>3, InsertTaskTypes
<1>10. ThreadSubjects'
  BY <1>1, <1>2, <1>3, InsertTaskTypes
<1> QED
  BY <1>4, <1>5, <1>6, <1>7, <1>8, <1>9, <1>10, TypeFrames, CoherentFrames DEF TypeOK,
     Coherent, Approve

\* close of a draft keeps the types.
LEMMA TypesCloseDraft ==
  ASSUME TypeOK, Coherent, NEW d \in Requests, CloseDraft(d)
  PROVE  TypeOK' /\ Coherent'
<1>1. TaskTypeOK'
  BY ReviewTypes DEF TypeOK, TaskTypeOK, CloseDraft
<1>2. ResultTypeOK'
  BY ReviewTypes DEF TypeOK, ResultTypeOK, CloseDraft
<1>3. ReviewTypeOK'
  BY AssignTypes DEF TypeOK, ReviewTypeOK, CloseDraft
<1>4. PlanTypeOK'
  BY DEF TypeOK, PlanTypeOK, CloseDraft, Assign, PlanStatus
<1>5. DraftTypeOK'
  BY DEF TypeOK, DraftTypeOK, CloseDraft, Assign
<1>6. PlannedByRequest'
  BY DEF Coherent, PlannedByRequest, CloseDraft, TypeOK, Assign, PlanOpen, PlanTypeOK
<1>7. QueuedApplies'
  BY ReviewTypes DEF Coherent, QueuedApplies, Tasks, CloseDraft
<1> QED
  BY <1>1, <1>2, <1>3, <1>4, <1>5, <1>6, <1>7, TypeFrames, CoherentFrames DEF TypeOK,
     Coherent, CloseDraft

\* open_and_submit keeps the types.
LEMMA TypesOpenDraft ==
  ASSUME TypeOK, Coherent, NEW d \in Requests, NEW c \in Requests, NEW w \in Workers,
         OpenDraft(d, c, w)
  PROVE  TypeOK' /\ Coherent'
<1>1. d \in Tasks /\ c \in Tasks /\ c \notin Applies
  BY LedgerAssumption DEF Tasks, OpenDraft
<1>2. InsertTask(c, w, d, d, ReviewStatus({d}, status, "completed")) /\ UNCHANGED <<pc, using>>
  BY DEF OpenDraft, threadVars
<1>3. [x \in Paths |-> IF x \in Reviewed THEN disk[Workspace[d]][x] ELSE "absent"]
        \in [Paths -> Content]
  BY LedgerAssumption DEF TypeOK, FileTypeOK, Content
<1>4. TaskTypeOK'
  BY <1>1, <1>2, InsertTaskTypes, ReviewTypes DEF TypeOK, TaskTypeOK, OpenDraft
<1>5. ResultTypeOK'
  BY ReviewTypes DEF TypeOK, ResultTypeOK, OpenDraft
<1>6. ReviewTypeOK'
  BY AssignTypes DEF TypeOK, ReviewTypeOK, OpenDraft
<1>7. DraftTypeOK'
  BY <1>3 DEF TypeOK, DraftTypeOK, OpenDraft
<1>8. RequestTargets'
  BY <1>1, <1>2, InsertTaskTypes, ReviewTypes
<1>9. QueuedApplies'
  BY <1>1, <1>2, InsertTaskTypes, ReviewTypes
<1>10. ThreadSubjects'
  BY <1>1, <1>2, InsertTaskTypes, ReviewTypes
<1> QED
  BY <1>4, <1>5, <1>6, <1>7, <1>8, <1>9, <1>10, TypeFrames, CoherentFrames DEF TypeOK,
     Coherent, OpenDraft

\* decide_approval keeps the types.
LEMMA TypesDecideApproval ==
  ASSUME TypeOK, Coherent, NEW e \in Executions, NEW decision \in {"approved",
         "rejected", "expired"}, DecideApproval(e, decision)
  PROVE  TypeOK' /\ Coherent'
<1>1. TaskTypeOK'
  BY DEF TypeOK, TaskTypeOK, DecideApproval, TaskStatus
<1>2. ReviewTypeOK'
  BY DEF TypeOK, ReviewTypeOK, DecideApproval
<1>3. QueuedApplies'
  BY DEF Coherent, QueuedApplies, DecideApproval, TypeOK, TaskTypeOK, Tasks
<1> QED
  BY <1>1, <1>2, <1>3, TypeFrames, CoherentFrames DEF TypeOK, Coherent, DecideApproval

\* recover keeps the types.
LEMMA TypesRecover ==
  ASSUME TypeOK, Coherent, Recover
  PROVE  TypeOK' /\ Coherent'
<1>1. \A u \in Tasks : status'[u] = "queued" => status[u] = "queued"
  BY DEF TypeOK, TaskTypeOK, Recover, Assign
<1>2. TaskTypeOK'
  BY DEF TypeOK, TaskTypeOK, Recover, Assign, TaskStatus
<1>3. ResultTypeOK'
  BY DEF TypeOK, ResultTypeOK, Recover, Assign, ExecStatus, ExecTerminal, Outcomes
<1>4. ClaimTypeOK'
  BY DEF TypeOK, ClaimTypeOK, Recover, Released, Assign
<1>5. QueuedApplies'
  BY <1>1, QueuedAppliesKept DEF Coherent, Recover
<1> QED
  BY <1>2, <1>3, <1>4, <1>5, TypeFrames, CoherentFrames DEF TypeOK, Coherent, Recover

\* settle_expired keeps the types.
LEMMA TypesSettleExpired ==
  ASSUME TypeOK, Coherent, SettleExpired
  PROVE  TypeOK' /\ Coherent'
<1> DEFINE expired == {p \in Plans : plan[p] \in PlanOpen /\ ~planFresh[p]}
           after   == Assign(plan, expired, "expired")
           s1 == Settled({TaskOf(p) : p \in expired}, "expired",
                         status, eligible, execution, approval, after)
           s2 == Settled(Leftover(s1.status, s1.execution, after), "rejected",
                         s1.status, s1.eligible, s1.execution, s1.approval, after)
<1>1. plan' = after
  BY DEF SettleExpired
<1>2. /\ status' = s2.status /\ eligible' = s2.eligible
      /\ execution' = s2.execution /\ approval' = s2.approval
  BY DEF SettleExpired
<1>3. TypedRows(s1)
  BY SettledTypes DEF TypeOK, TaskTypeOK, ResultTypeOK, ReviewTypeOK
<1>4. TypedRows(s2)
  BY <1>3, SettledTypes DEF TypedRows
<1>5. \A t \in Tasks : s1.status[t] = "queued" => status[t] = "queued"
  BY SettledQueued DEF TypeOK, TaskTypeOK
<1>7. PlanTypeOK'
  <2>1. after \in [Plans -> PlanStatus]
    BY AssignTypes, StatusNames DEF TypeOK, PlanTypeOK
  <2>2. UNCHANGED <<planExec, planFresh, planPaths, preimage, journal, resolved>>
    BY DEF SettleExpired
  <2> HIDE DEF after
  <2> QED
    BY <1>1, <2>1, <2>2 DEF TypeOK, PlanTypeOK
<1>8. PlannedByRequest'
  BY <1>1 DEF TypeOK, PlanTypeOK, Coherent, PlannedByRequest, PlanOpen, Assign, SettleExpired
<1> HIDE DEF s1
<1>6. \A t \in Tasks : s2.status[t] = "queued" => s1.status[t] = "queued"
  BY <1>3, SettledQueued DEF TypedRows
<1> HIDE DEF s2
<1>9. TaskTypeOK' /\ ResultTypeOK' /\ ReviewTypeOK'
  BY <1>2, <1>4 DEF TypedRows, TypeOK, TaskTypeOK, ResultTypeOK, ReviewTypeOK, SettleExpired
<1>10. QueuedApplies'
  BY <1>2, <1>5, <1>6, QueuedAppliesKept DEF Coherent, SettleExpired
<1> QED
  BY <1>7, <1>8, <1>9, <1>10, TypeFrames, CoherentFrames DEF TypeOK, Coherent, SettleExpired

\* maintain of drafts keeps the types.
LEMMA TypesMaintainDrafts ==
  ASSUME TypeOK, Coherent, MaintainDrafts
  PROVE  TypeOK' /\ Coherent'
<1>1. TaskTypeOK'
  BY ReviewTypes DEF TypeOK, TaskTypeOK, MaintainDrafts
<1>2. ResultTypeOK'
  BY ReviewTypes DEF TypeOK, ResultTypeOK, MaintainDrafts
<1>3. ReviewTypeOK'
  BY AssignTypes DEF TypeOK, ReviewTypeOK, MaintainDrafts
<1>4. DraftTypeOK'
  BY DEF TypeOK, DraftTypeOK, MaintainDrafts, Assign
<1>5. QueuedApplies'
  BY ReviewTypes DEF Coherent, QueuedApplies, Tasks, MaintainDrafts
<1> QED
  BY <1>1, <1>2, <1>3, <1>4, <1>5, TypeFrames, CoherentFrames DEF TypeOK, Coherent,
     MaintainDrafts

\* An expiring claim keeps the types.
LEMMA TypesClaimExpires ==
  ASSUME TypeOK, Coherent, NEW t \in Tasks, ClaimExpires(t)
  PROVE  TypeOK' /\ Coherent'
<1>1. ClaimTypeOK'
  BY DEF TypeOK, ClaimTypeOK, ClaimExpires
<1>2. faults' \in 0 .. MaxFaults
  BY LedgerAssumption DEF TypeOK, ClaimExpires, Stall
<1> QED
  BY <1>1, <1>2, TypeFrames, CoherentFrames DEF TypeOK, Coherent, ClaimExpires

\* An expiring plan keeps the types.
LEMMA TypesPlanExpires ==
  ASSUME TypeOK, Coherent, NEW p \in Plans, PlanExpires(p)
  PROVE  TypeOK' /\ Coherent'
<1>1. PlanTypeOK'
  BY DEF TypeOK, PlanTypeOK, PlanExpires, PlanStatus
<1> QED
  BY <1>1, TypeFrames, CoherentFrames DEF TypeOK, Coherent, PlanExpires

\* An expiring draft keeps the types.
LEMMA TypesDraftExpires ==
  ASSUME TypeOK, Coherent, NEW d \in Requests, DraftExpires(d)
  PROVE  TypeOK' /\ Coherent'
<1>1. DraftTypeOK'
  BY DEF TypeOK, DraftTypeOK, DraftExpires
<1> QED
  BY <1>1, TypeFrames, CoherentFrames DEF TypeOK, Coherent, DraftExpires

\* An outside edit keeps the types.
LEMMA TypesOutsideEdit ==
  ASSUME TypeOK, Coherent, NEW s \in Workspaces, NEW x \in Paths, OutsideEdit(s, x)
  PROVE  TypeOK' /\ Coherent'
<1>1. FileTypeOK'
  BY DEF TypeOK, FileTypeOK, OutsideEdit, Content
<1>2. faults' \in 0 .. MaxFaults
  BY LedgerAssumption DEF TypeOK, OutsideEdit, Stall
<1> QED
  BY <1>1, <1>2, TypeFrames, CoherentFrames DEF TypeOK, Coherent, OutsideEdit

\* perform() up to the model call keeps the types.
LEMMA TypesStart ==
  ASSUME TypeOK, Coherent, NEW e \in Executions, Start(e)
  PROVE  TypeOK' /\ Coherent'
<1>1. e[1] \in Requests \/ e[1] \in Applies
  BY DEF Executions, Tasks
<1>2. e[1] \in Requests => target[e[1]] \in Requests \cup {None}
  BY DEF Coherent, RequestTargets
<1>3. \/ UNCHANGED <<seen, using>>
      \/ /\ target[e[1]] \in Requests
         /\ using' = [using EXCEPT ![e] = target[e[1]]]
         /\ seen' = [seen EXCEPT ![e] = draftRev[target[e[1]]]]
  BY <1>1, <1>2 DEF Start
<1>4. /\ seen' \in [Executions -> Nat]
      /\ using' \in [Executions -> Requests \cup {None}]
  BY <1>3 DEF TypeOK, ThreadTypeOK, DraftTypeOK
<1>5. /\ pc' \in [Executions -> Threads] /\ UNCHANGED flag
      /\ reply' \in [Executions -> Outcomes \cup {"none"}]
  BY DEF TypeOK, ThreadTypeOK, Start, Conclude, Threads, Outcomes
<1>6. ThreadTypeOK'
  BY <1>4, <1>5 DEF TypeOK, ThreadTypeOK
<1>7. ThreadSubjects'
  BY <1>1, <1>2 DEF TypeOK, ThreadTypeOK, Coherent, ThreadSubjects, Start, Conclude,
     taskVars
<1> QED
  BY <1>6, <1>7, TypeFrames, CoherentFrames DEF TypeOK, Coherent, Start, Conclude

\* The reply of the model keeps the types.
LEMMA TypesModelReturns ==
  ASSUME TypeOK, Coherent, NEW e \in Executions, ModelReturns(e)
  PROVE  TypeOK' /\ Coherent'
<1>1. ThreadTypeOK'
  <2>1. /\ UNCHANGED <<flag, seen, using>>
        /\ \/ \E r \in Outcomes : Conclude(e, r)
           \/ /\ UNCHANGED reply
              /\ \E v \in {"scope", "draft", "propose", "clear"} : pc' = [pc EXCEPT ![e] = v]
    BY WorkerAssumption DEF ModelReturns, Outcomes
  <2> QED
    BY <2>1 DEF TypeOK, ThreadTypeOK, Conclude, Threads
<1>2. ThreadSubjects'
  BY DEF TypeOK, ThreadTypeOK, Coherent, ThreadSubjects, ModelReturns, Conclude,
     taskVars
<1> QED
  BY <1>1, <1>2, TypeFrames, CoherentFrames DEF TypeOK, Coherent, ModelReturns,
     Conclude

\* A requested read scope keeps the types.
LEMMA TypesRequestScope ==
  ASSUME TypeOK, Coherent, NEW e \in Executions, RequestScope(e)
  PROVE  TypeOK' /\ Coherent'
<1>1. e[1] \in Requests
  BY DEF Coherent, ThreadSubjects, RequestScope
<1>2. DraftTypeOK'
  BY <1>1, CreateDraftTypes DEF TypeOK, RequestScope, DraftTypeOK, draftVars
<1>3. ThreadTypeOK'
  BY DEF TypeOK, ThreadTypeOK, RequestScope, Conclude, Threads, Outcomes
<1>4. ThreadSubjects'
  BY DEF Coherent, ThreadSubjects, RequestScope, TypeOK, Conclude, ThreadTypeOK,
     taskVars
<1> QED
  BY <1>2, <1>3, <1>4, TypeFrames, CoherentFrames DEF TypeOK, Coherent, RequestScope,
     Conclude

\* A draft of new files keeps the types.
LEMMA TypesOpenOwnDraft ==
  ASSUME TypeOK, Coherent, NEW e \in Executions, OpenOwnDraft(e)
  PROVE  TypeOK' /\ Coherent'
<1>1. e[1] \in Requests
  BY DEF Coherent, ThreadSubjects, OpenOwnDraft
<1>2. DraftTypeOK'
  BY <1>1, CreateDraftTypes DEF TypeOK, OpenOwnDraft, DraftTypeOK, draftVars
<1>3. \/ seen' = seen /\ using' = using
      \/ /\ seen' = [seen EXCEPT ![e] = draftRev'[e[1]]]
         /\ using' = [using EXCEPT ![e] = e[1]]
  BY DEF OpenOwnDraft
<1>4. draftRev'[e[1]] \in Nat
  BY <1>1, <1>2 DEF DraftTypeOK
<1>5. /\ seen' \in [Executions -> Nat]
      /\ using' \in [Executions -> Requests \cup {None}]
  BY <1>1, <1>3, <1>4 DEF TypeOK, ThreadTypeOK
<1>6. DraftTypeOK'
  BY <1>2
<1>7. ThreadTypeOK'
  BY <1>5 DEF TypeOK, ThreadTypeOK, OpenOwnDraft, Conclude, Threads, Outcomes
<1>8. ThreadSubjects'
  BY <1>1 DEF TypeOK, ThreadTypeOK, Coherent, ThreadSubjects, OpenOwnDraft, Conclude,
     taskVars
<1> QED
  BY <1>6, <1>7, <1>8, TypeFrames, CoherentFrames DEF TypeOK, Coherent, OpenOwnDraft,
     Conclude

\* propose keeps the types.
LEMMA TypesPropose ==
  ASSUME TypeOK, Coherent, NEW e \in Executions, Propose(e)
  PROVE  TypeOK' /\ Coherent'
<1> DEFINE d    == using[e]
           left == Assign(plan, OpenPlans(e[1]), "revoked")
<1>1. d \in Requests /\ e[1] \in Requests
  BY DEF Coherent, ThreadSubjects, Propose
<1>2. left \in [Plans -> PlanStatus]
  BY AssignTypes, StatusNames DEF TypeOK, PlanTypeOK
<1>3. ThreadTypeOK'
  BY DEF TypeOK, ThreadTypeOK, Propose, Conclude, ThreadLocal, Threads, Outcomes
<1>4. ThreadSubjects'
  BY DEF TypeOK, ThreadTypeOK, Coherent, ThreadSubjects, Propose, Conclude, ThreadLocal
<1>5. CASE Linkable(e, d, left)
  <2>1. PICK p \in Plans, S \in SUBSET Paths :
          /\ plan' = [Assign(left, Replaced(d), "revoked") EXCEPT ![p] = "pending"]
          /\ planExec' = [planExec EXCEPT ![p] = e]
          /\ planFresh' = [planFresh EXCEPT ![p] = TRUE]
          /\ planPaths' = [planPaths EXCEPT ![p] = S]
          /\ preimage' = [preimage EXCEPT ![p] = snapshot[d]]
          /\ LinkPlan(e, d, p)
    <3>1. NewFiles(d) \cup (IF draftReads[d] THEN Reviewed ELSE {}) \subseteq Paths
      BY <1>1 DEF NewFiles, Reviewed, Paths, Created
    <3> QED
      BY <3>1, <1>5, LedgerAssumption DEF Propose
  <2>2. /\ DraftTypeOK' /\ ReviewTypeOK' /\ ResultTypeOK'
        /\ status' \in [Tasks -> TaskStatus]
        /\ \A t \in Tasks : status'[t] = "queued" => status[t] = "queued"
    BY <1>1, <2>1, LinkPlanTypes
  <2>3. PlanTypeOK'
    BY <1>1, <1>2, <2>1 DEF TypeOK, PlanTypeOK, DraftTypeOK, Propose, PlanStatus, Assign
  <2>4. PlannedByRequest'
    BY <1>1, <2>1 DEF TypeOK, PlanTypeOK, Coherent, PlannedByRequest, PlanOpen, Assign
  <2>5. TaskTypeOK' /\ QueuedApplies'
    BY <2>2 DEF TypeOK, TaskTypeOK, Coherent, QueuedApplies, Propose, Tasks
  <2> QED
    BY <1>3, <1>4, <2>2, <2>3, <2>4, <2>5, TypeFrames, CoherentFrames DEF TypeOK, Coherent, Propose
<1>6. CASE ~Linkable(e, d, left)
  BY <1>3, <1>4, <1>6, TypeFrames, CoherentFrames
     DEF TypeOK, Coherent, Propose, resultVars, taskVars, planVars
<1> QED
  BY <1>5, <1>6

\* The preview keeps the types.
LEMMA TypesPreview ==
  ASSUME TypeOK, Coherent, NEW e \in Executions, Preview(e)
  PROVE  TypeOK' /\ Coherent'
<1>1. ThreadTypeOK'
  BY DEF TypeOK, ThreadTypeOK, Preview, Conclude, Threads, Outcomes
<1>2. ThreadSubjects'
  BY DEF Coherent, ThreadSubjects, Preview, TypeOK, Conclude, ThreadTypeOK, taskVars
<1>3. faults' \in 0 .. MaxFaults
  BY LedgerAssumption DEF TypeOK, Preview, Stall
<1> QED
  BY <1>1, <1>2, <1>3, TypeFrames, CoherentFrames DEF TypeOK, Coherent, Preview,
     Conclude

\* Unlinking the last plan of a draft keeps the types.
LEMMA TypesClear ==
  ASSUME TypeOK, Coherent, NEW e \in Executions, Clear(e)
  PROVE  TypeOK' /\ Coherent'
<1> DEFINE d == using[e]
<1>1. d \in Requests /\ e[1] \in Requests
  BY DEF Coherent, ThreadSubjects, Clear
<1>2. ThreadTypeOK'
  BY DEF TypeOK, ThreadTypeOK, Clear, Conclude, ThreadLocal, Threads, Outcomes
<1>3. ThreadSubjects'
  BY DEF TypeOK, ThreadTypeOK, Coherent, ThreadSubjects, Clear, Conclude, ThreadLocal
<1>4. CASE Linkable(e, d, plan)
  <2>1. LinkPlan(e, d, None) /\ plan' = Assign(plan, Replaced(d), "revoked")
    BY <1>4 DEF Clear
  <2>2. /\ DraftTypeOK' /\ ReviewTypeOK' /\ ResultTypeOK'
        /\ status' \in [Tasks -> TaskStatus]
        /\ \A t \in Tasks : status'[t] = "queued" => status[t] = "queued"
    BY <1>1, <2>1, LinkPlanTypes
  <2>3. PlanTypeOK'
    BY <2>1, AssignTypes, StatusNames DEF TypeOK, PlanTypeOK, Clear
  <2>4. PlannedByRequest'
    BY <2>1 DEF TypeOK, PlanTypeOK, Coherent, PlannedByRequest, PlanOpen, Assign, Clear
  <2>5. TaskTypeOK' /\ QueuedApplies'
    BY <2>2 DEF TypeOK, TaskTypeOK, Coherent, QueuedApplies, Clear, Tasks
  <2> QED
    BY <1>2, <1>3, <2>2, <2>3, <2>4, <2>5, TypeFrames, CoherentFrames DEF TypeOK, Coherent, Clear
<1>5. CASE ~Linkable(e, d, plan)
  BY <1>2, <1>3, <1>5, TypeFrames, CoherentFrames
     DEF TypeOK, Coherent, Clear, resultVars, taskVars, planVars
<1> QED
  BY <1>4, <1>5

\* The journalling transaction of apply keeps the types.
LEMMA TypesApplyBegin ==
  ASSUME TypeOK, Coherent, NEW e \in Executions, ApplyBegin(e)
  PROVE  TypeOK' /\ Coherent'
<1>1. target[e[1]] \in Plans
  BY DEF ApplyBegin, Coherent, ThreadSubjects
<1>2. \A p \in Plans : Assign(journal[p], planPaths[p], "prepared")
                       \in [Paths -> {"none", "prepared", "applied"}]
  BY DEF TypeOK, PlanTypeOK, Assign
<1>3. plan' \in [Plans -> PlanStatus]
  BY DEF TypeOK, PlanTypeOK, ApplyBegin, PlanStatus
<1>4. PlanTypeOK'
  BY <1>1, <1>2, <1>3 DEF TypeOK, PlanTypeOK, ApplyBegin
<1>5. FileTypeOK'
  BY DEF TypeOK, FileTypeOK, ApplyBegin, Assign, Content
<1>6. ThreadTypeOK'
  BY DEF TypeOK, ThreadTypeOK, ApplyBegin, Conclude, ThreadLocal, Assign, Threads,
     Outcomes
<1>7. PlannedByRequest'
  BY DEF Coherent, PlannedByRequest, ApplyBegin, TypeOK, Assign, PlanOpen, PlanTypeOK
<1>8. ThreadSubjects'
  BY DEF Coherent, ThreadSubjects, ApplyBegin, TypeOK, Conclude, ThreadLocal, Assign,
     ThreadTypeOK, taskVars
<1> QED
  BY <1>4, <1>5, <1>6, <1>7, <1>8, TypeFrames, CoherentFrames DEF TypeOK, Coherent,
     ApplyBegin, Conclude, ThreadLocal

\* The committing transaction of apply keeps the types.
LEMMA TypesApplyCommit ==
  ASSUME TypeOK, Coherent, NEW e \in Executions, ApplyCommit(e)
  PROVE  TypeOK' /\ Coherent'
<1>1. PlanTypeOK'
  BY DEF TypeOK, PlanTypeOK, ApplyCommit, Assign, PlanStatus
<1>2. DraftTypeOK'
  BY DEF TypeOK, DraftTypeOK, ApplyCommit, Assign
<1>3. FileTypeOK'
  BY DEF TypeOK, FileTypeOK, ApplyCommit, Assign, Content
<1>4. ThreadTypeOK'
  BY DEF TypeOK, ThreadTypeOK, ApplyCommit, Conclude, ThreadLocal, Assign, Threads,
     Outcomes
<1>5. PlannedByRequest'
  BY DEF Coherent, PlannedByRequest, ApplyCommit, TypeOK, Assign, PlanOpen, PlanTypeOK
<1>6. ThreadSubjects'
  BY DEF Coherent, ThreadSubjects, ApplyCommit, TypeOK, Conclude, ThreadLocal, Assign,
     ThreadTypeOK, taskVars
<1> QED
  BY <1>1, <1>2, <1>3, <1>4, <1>5, <1>6, TypeFrames, CoherentFrames DEF TypeOK,
     Coherent, ApplyCommit, Conclude, ThreadLocal

\* The except branch of apply keeps the types.
LEMMA TypesApplyUndo ==
  ASSUME TypeOK, Coherent, NEW e \in Executions, ApplyUndo(e)
  PROVE  TypeOK' /\ Coherent'
<1>1. PlanTypeOK'
  BY DEF TypeOK, PlanTypeOK, ApplyUndo, PlanStatus
<1>2. FileTypeOK'
  BY DEF TypeOK, FileTypeOK, ApplyUndo, Content
<1>3. ThreadTypeOK'
  BY DEF TypeOK, ThreadTypeOK, ApplyUndo, ThreadLocal, Threads
<1>4. PlannedByRequest'
  BY DEF Coherent, PlannedByRequest, ApplyUndo, TypeOK, PlanOpen, PlanTypeOK
<1>5. ThreadSubjects'
  BY DEF Coherent, ThreadSubjects, ApplyUndo, TypeOK, ThreadLocal, ThreadTypeOK,
     taskVars
<1> QED
  BY <1>1, <1>2, <1>3, <1>4, <1>5, TypeFrames, CoherentFrames DEF TypeOK, Coherent,
     ApplyUndo, ThreadLocal

\* An application that breaks off keeps the types.
LEMMA TypesApplyBreaks ==
  ASSUME TypeOK, Coherent, NEW e \in Executions, ApplyBreaks(e)
  PROVE  TypeOK' /\ Coherent'
<1>1. ThreadTypeOK'
  BY DEF TypeOK, ThreadTypeOK, ApplyBreaks, ThreadLocal, Threads, Outcomes
<1>2. ThreadSubjects'
  BY DEF Coherent, ThreadSubjects, ApplyBreaks, TypeOK, ThreadLocal, ThreadTypeOK,
     taskVars
<1>3. faults' \in 0 .. MaxFaults
  BY LedgerAssumption DEF TypeOK, ApplyBreaks, Stall
<1> QED
  BY <1>1, <1>2, <1>3, TypeFrames, CoherentFrames DEF TypeOK, Coherent, ApplyBreaks,
     ThreadLocal

\* A file operation of apply keeps the types.
LEMMA TypesMutate ==
  ASSUME TypeOK, Coherent, NEW e \in Executions, NEW x \in Paths, Mutate(e, x)
  PROVE  TypeOK' /\ Coherent'
<1>1. target[e[1]] \in Plans
  BY DEF Mutate, Coherent, ThreadSubjects
<1>2. FileTypeOK'
  BY <1>1 DEF TypeOK, FileTypeOK, Mutate, Content
<1> QED
  BY <1>2, TypeFrames, CoherentFrames DEF TypeOK, Coherent, Mutate, ThreadLocal

\* The journal update after a file operation keeps the types.
LEMMA TypesJournalApplied ==
  ASSUME TypeOK, Coherent, NEW e \in Executions, NEW x \in Paths, JournalApplied(e, x)
  PROVE  TypeOK' /\ Coherent'
<1>1. PlanTypeOK'
  BY DEF TypeOK, PlanTypeOK, JournalApplied, PlanStatus
<1> QED
  BY <1>1, TypeFrames, CoherentFrames DEF TypeOK, Coherent, JournalApplied,
     ThreadLocal

\* Settling a cancelled run keeps the types.
LEMMA TypesSettle ==
  ASSUME TypeOK, Coherent, NEW e \in Executions, Settle(e)
  PROVE  TypeOK' /\ Coherent'
<1>1. ThreadTypeOK'
  BY DEF TypeOK, ThreadTypeOK, Settle, Threads, Outcomes
<1>2. ThreadSubjects'
  BY DEF Coherent, ThreadSubjects, Settle, TypeOK, ThreadTypeOK, taskVars
<1> QED
  BY <1>1, <1>2, TypeFrames, CoherentFrames DEF TypeOK, Coherent, Settle

\* finish keeps the types.
LEMMA TypesFinish ==
  ASSUME TypeOK, Coherent, NEW e \in Executions, Finish(e)
  PROVE  TypeOK' /\ Coherent'
<1>1. FinalOutcome(e) \in Outcomes \cup {"none"}
  BY DEF TypeOK, ThreadTypeOK, FinalOutcome, Outcomes
<1>2. StatusFor(FinalOutcome(e)) \in TaskStatus \ {"queued"}
  BY <1>1, StatusNames
<1>3. /\ Assign(status, Completes(e), "completed") \in [Tasks -> TaskStatus]
      /\ \A u \in Tasks : Assign(status, Completes(e), "completed")[u] = "queued" => status[u] = "queued"
  BY AssignTypes, AssignQueued, StatusNames DEF TypeOK, TaskTypeOK
<1>4. \A u \in Tasks : status'[u] = "queued" => status[u] = "queued"
  BY <1>2, <1>3 DEF Finish
<1>5. TaskTypeOK'
  BY <1>2, <1>3 DEF TypeOK, TaskTypeOK, Finish
<1>6. ResultTypeOK'
  BY <1>1 DEF TypeOK, ResultTypeOK, Finish, ExecStatus, ExecTerminal, Outcomes
<1>7. ReviewTypeOK'
  BY DEF TypeOK, ReviewTypeOK, Finish, reviewVars
<1>8. ClaimTypeOK'
  BY DEF TypeOK, ClaimTypeOK, Finish
<1>9. ThreadTypeOK'
  BY DEF TypeOK, ThreadTypeOK, Finish, Threads
<1>10. QueuedApplies'
  BY <1>4, QueuedAppliesKept DEF Coherent, Finish
<1>11. ThreadSubjects'
  BY DEF TypeOK, ThreadTypeOK, Coherent, ThreadSubjects, Finish, taskVars
<1> QED
  BY <1>5, <1>6, <1>7, <1>8, <1>9, <1>10, <1>11, TypeFrames, CoherentFrames DEF
     TypeOK, Coherent, Finish

\* The monitor thread keeps the types.
LEMMA TypesMonitor ==
  ASSUME TypeOK, Coherent, NEW e \in Executions, Monitor(e)
  PROVE  TypeOK' /\ Coherent'
<1>1. ThreadTypeOK'
  BY DEF TypeOK, ThreadTypeOK, Monitor, Threads, Outcomes
<1>2. faults' \in 0 .. MaxFaults
  BY LedgerAssumption DEF TypeOK, Monitor, Stall
<1> QED
  BY <1>1, <1>2, TypeFrames, CoherentFrames DEF TypeOK, Coherent, Monitor

\* A polling round of deliver keeps the types.
LEMMA TypesPoll ==
  ASSUME TypeOK, Coherent, NEW k \in Watchers, Poll(k)
  PROVE  TypeOK' /\ Coherent'
<1>1. WatchTypeOK'
  BY DEF TypeOK, WatchTypeOK, Poll, ledgerVars, Watching, NotWatching
<1> QED
  BY <1>1, TypeFrames, CoherentFrames DEF TypeOK, Coherent, Poll, ledgerVars

\* claim_delivery keeps the types.
LEMMA TypesClaimDelivery ==
  ASSUME TypeOK, Coherent, NEW k \in Watchers, ClaimDelivery(k)
  PROVE  TypeOK' /\ Coherent'
<1>1. ResultTypeOK'
  BY DEF TypeOK, ResultTypeOK, ClaimDelivery, ledgerVars, ExecStatus, ExecTerminal,
     Outcomes
<1>2. WatchTypeOK'
  BY DEF TypeOK, WatchTypeOK, ClaimDelivery, ledgerVars, Watching, NotWatching
<1> QED
  BY <1>1, <1>2, TypeFrames, CoherentFrames DEF TypeOK, Coherent, ClaimDelivery,
     ledgerVars

\* The responder keeps the types.
LEMMA TypesSend ==
  ASSUME TypeOK, Coherent, NEW k \in Watchers, Send(k)
  PROVE  TypeOK' /\ Coherent'
<1>1. WatchTypeOK'
  BY DEF TypeOK, WatchTypeOK, Send, ledgerVars, Watching, NotWatching
<1> QED
  BY <1>1, TypeFrames, CoherentFrames DEF TypeOK, Coherent, Send, ledgerVars

\* settle_delivery keeps the types.
LEMMA TypesSettleDelivery ==
  ASSUME TypeOK, Coherent, NEW k \in Watchers, SettleDelivery(k)
  PROVE  TypeOK' /\ Coherent'
<1>1. ResultTypeOK'
  BY DEF TypeOK, ResultTypeOK, SettleDelivery, ledgerVars, ExecStatus, ExecTerminal,
     Outcomes
<1>2. WatchTypeOK'
  BY DEF TypeOK, WatchTypeOK, SettleDelivery, ledgerVars, Watching, NotWatching
<1> QED
  BY <1>1, <1>2, TypeFrames, CoherentFrames DEF TypeOK, Coherent, SettleDelivery,
     ledgerVars

\* The end of a delivery thread keeps the types.
LEMMA TypesStopWatching ==
  ASSUME TypeOK, Coherent, NEW k \in Watchers, StopWatching(k)
  PROVE  TypeOK' /\ Coherent'
<1>1. WatchTypeOK'
  BY DEF TypeOK, WatchTypeOK, StopWatching, ledgerVars, Watching, NotWatching
<1>2. faults' \in 0 .. MaxFaults
  BY LedgerAssumption DEF TypeOK, StopWatching, Stall
<1> QED
  BY <1>1, <1>2, TypeFrames, CoherentFrames DEF TypeOK, Coherent, StopWatching,
     ledgerVars

\* The start of a delivery thread keeps the types.
LEMMA TypesWatch ==
  ASSUME TypeOK, Coherent, NEW k \in Watchers, NEW t \in Tasks, Watch(k, t)
  PROVE  TypeOK' /\ Coherent'
<1>1. attempts[t] \in 0 .. MaxAttempts
  BY DEF TypeOK, TaskTypeOK
<1>2. PICK a \in {attempts[t] + (IF status[t] = "queued" THEN 1 ELSE 0)}
                  \cup (IF process[generation[t]] = "unlaunched" THEN {0} ELSE {}) :
          /\ a <= MaxAttempts
          /\ watcher' = [watcher EXCEPT ![k] = [step |-> "poll", task |-> t, attempt |-> a, number |-> 0]]
  BY DEF Watch
<1>3. a \in 0 .. MaxAttempts
  BY <1>1, <1>2, LedgerAssumption
<1>4. WatchTypeOK'
  BY <1>2, <1>3, LedgerAssumption DEF TypeOK, WatchTypeOK, Watch, Watching, MaxExecs,
     ledgerVars
<1> QED
  BY <1>4, TypeFrames, CoherentFrames DEF TypeOK, Coherent, Watch, ledgerVars

-----------------------------------------------------------------------------
\* The empty ledger is well-typed and coherent.
LEMMA TypesInit == Init => TypeOK /\ Coherent
<1> SUFFICES ASSUME Init PROVE TypeOK /\ Coherent
  OBVIOUS
<1>1. /\ WorkerTypeOK /\ TaskTypeOK /\ ResultTypeOK /\ ReviewTypeOK /\ ClaimTypeOK
  BY LedgerAssumption DEF Init, WorkerTypeOK, TaskTypeOK, ResultTypeOK, ReviewTypeOK,
     ClaimTypeOK, TaskStatus, ExecStatus, ExecTerminal, Outcomes, MaxExecs
<1>2. PlanTypeOK /\ DraftTypeOK
  BY DEF Init, PlanTypeOK, DraftTypeOK, PlanStatus, Content
<1>3. FileTypeOK
  BY DEF Init, FileTypeOK, Content
<1>4. ThreadTypeOK /\ WatchTypeOK
  BY DEF Init, ThreadTypeOK, WatchTypeOK, Threads, Outcomes, Watching
<1>5. faults \in 0 .. MaxFaults
  BY LedgerAssumption DEF Init
<1>6. Coherent
  BY LedgerAssumption DEF Init, Coherent, Numbered, RequestTargets, PlannedByRequest,
     QueuedApplies, ThreadSubjects, PlanOpen, Tasks
<1> QED
  BY <1>1, <1>2, <1>3, <1>4, <1>5, <1>6 DEF TypeOK

\* Every step of every process keeps the types.
LEMMA TypesNext == TypeOK /\ Coherent /\ [Next]_vars => TypeOK' /\ Coherent'
<1> SUFFICES ASSUME TypeOK, Coherent, [Next]_vars PROVE TypeOK' /\ Coherent'
  OBVIOUS
<1>1. ASSUME NEW w \in Workers, Process(w) PROVE TypeOK' /\ Coherent'
  BY <1>1, TypesStartWorker, TypesHeartbeat, TypesHeartbeatLapses, TypesStopWorker,
     TypesCloseWorker, TypesCrash, TypesClaim DEF Process
<1>2. ASSUME NEW k \in Watchers, Watcher(k) PROVE TypeOK' /\ Coherent'
  BY <1>2, TypesPoll, TypesClaimDelivery, TypesSend, TypesSettleDelivery,
     TypesStopWatching, TypesWatch DEF Watcher
<1>3. CASE Owner
  BY <1>3, TypesDismiss, TypesAcknowledgeDelivery, TypesCancel, TypesRecordStartFailure,
     TypesSubmit, TypesSubmitUnlaunched, TypesResume, TypesRevoke, TypesObserve,
     TypesWithdraw, TypesResolve, TypesApprove, TypesCloseDraft, TypesOpenDraft, TypesDecideApproval DEF Owner
<1>4. CASE Maintenance
  BY <1>4, TypesRecover, TypesSettleExpired, TypesMaintainDrafts DEF Maintenance
<1>5. CASE Clock
  BY <1>5, TypesClaimExpires, TypesPlanExpires, TypesDraftExpires, TypesOutsideEdit DEF Clock
<1>6. ASSUME NEW e \in Executions, Request(e) PROVE TypeOK' /\ Coherent'
  BY <1>6, TypesStart, TypesModelReturns, TypesRequestScope, TypesOpenOwnDraft,
     TypesPropose, TypesPreview, TypesClear DEF Request
<1>7. ASSUME NEW e \in Executions, Apply(e) PROVE TypeOK' /\ Coherent'
  BY <1>7, TypesApplyBegin, TypesApplyBreaks, TypesApplyCommit, TypesApplyUndo,
     TypesMutate, TypesJournalApplied DEF Apply
<1>8. ASSUME NEW e \in Executions, Settle(e) \/ Finish(e) \/ Monitor(e)
      PROVE TypeOK' /\ Coherent'
  BY <1>8, TypesSettle, TypesFinish, TypesMonitor
<1>9. CASE UNCHANGED vars
  BY <1>9, TypeFrames, CoherentFrames DEF vars, TypeOK, Coherent
<1> QED
  BY <1>1, <1>2, <1>3, <1>4, <1>5, <1>6, <1>7, <1>8, <1>9 DEF Next, Thread

\* No interleaving of the processes ever stores a value outside its column's
\* domain, counts an execution past its bound or leaves the budget of faults.
THEOREM TypeCorrect == Spec => []TypeOK
<1>1. Init => TypeOK /\ Coherent
  BY TypesInit
<1>2. TypeOK /\ Coherent /\ [Next]_vars => (TypeOK /\ Coherent)'
  BY TypesNext
<1> QED
  BY <1>1, <1>2, PTL DEF Spec
=============================================================================

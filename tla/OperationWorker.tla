--------------------------- MODULE OperationWorker ---------------------------
(***************************************************************************)
(* operation_worker.py and work_queue.finish: the executor threads of the  *)
(* worker processes, their monitors, crashes, and the whole control plane: *)
(* Next interleaves the transactions of every process that opens the       *)
(* ledger.  A thread that loses its claim keeps running (a zombie) until   *)
(* its next check; every later write it attempts is modelled.              *)
(***************************************************************************)
EXTENDS ReviewedChanges

CONSTANT ModelErrors  \* outcomes of a failing model call: subset of
                      \* {"failed", "timed_out", "blocked"}

ASSUME WorkerAssumption == ModelErrors \subseteq {"failed", "timed_out", "blocked"}

Resting == {"none", "done", "dead"}
Live(e) == pc[e] \notin Resting

\* The monitor thread of an execution: it sets the cancel event when the worker
\* is stopping, the renewal fails or the owner asked for cancellation; any
\* error of its own (a locked database) sets it as well.
Monitor(e) ==
  /\ Live(e) /\ ~flag[e]
  /\ \/ /\ process[runner[e]] = "stopping" \/ ~Renewable(e) \/ execution[e] = "cancelling"
        /\ UNCHANGED faults
     \/ Stall
  /\ flag' = [flag EXCEPT ![e] = TRUE]
  /\ UNCHANGED <<pc, reply, seen, using, workerVars, taskVars, resultVars, reviewVars,
                 claimVars, planVars, draftVars, fileVars, watchVars>>

\* The worker process dies: its threads vanish and its file locks are freed.
Crash(w) ==
  /\ process[w] \in {"up", "stopping"} /\ Stall
  /\ process' = [process EXCEPT ![w] = "gone"]
  /\ pc' = Assign(pc, {e \in Executions : runner[e] = w /\ Live(e)}, "dead")
  /\ lock' = [s \in Workspaces |-> IF lock[s] \in Executions /\ runner[lock[s]] = w
                                   THEN None ELSE lock[s]]
  /\ UNCHANGED <<registered, fresh, disk, shown, flag, reply, seen, using, taskVars, resultVars,
                 reviewVars, claimVars, planVars, draftVars, watchVars>>

-----------------------------------------------------------------------------
\* perform() up to the model call: an apply goes to its plan, a request of a
\* draft loads it.
Start(e) ==
  LET t == e[1]  d == target[t] IN
  /\ pc[e] = "start"
  /\ IF flag[e] THEN Conclude(e, "cancelled") /\ UNCHANGED <<seen, using>>
     ELSE IF t \in Applies THEN
          /\ pc' = [pc EXCEPT ![e] = "begin"]
          /\ UNCHANGED <<reply, seen, using>>
     ELSE IF d = None THEN
          /\ pc' = [pc EXCEPT ![e] = "model"]
          /\ UNCHANGED <<reply, seen, using>>
     ELSE IF Loadable(d) THEN
          /\ using' = [using EXCEPT ![e] = d]
          /\ seen' = [seen EXCEPT ![e] = draftRev[d]]
          /\ pc' = [pc EXCEPT ![e] = "model"]
          /\ UNCHANGED reply
     ELSE Conclude(e, "blocked") /\ UNCHANGED <<seen, using>>
  /\ UNCHANGED <<flag, workerVars, taskVars, resultVars, reviewVars, claimVars, planVars,
                 draftVars, fileVars, watchVars, faults>>

\* Plan ids are a bounded pool: a thread heads for a proposal only if one is left.
PlanLeft == Cardinality({e \in Executions : pc[e] \in {"draft", "propose"}})
              < Cardinality({p \in Plans : plan[p] = "none"})

\* The assessment and model calls return or fail; the thread then looks at the
\* cancel event, renews its claim and turns to what the reply asks for.
ModelReturns(e) ==
  /\ pc[e] = "model"
  /\ \/ \E r \in ModelErrors \cup (IF flag[e] THEN {"cancelled"} ELSE {}) : Conclude(e, r)
     \/ ~flag[e] /\ ~Renewable(e) /\ Conclude(e, "blocked")
     \/ /\ ~flag[e] /\ Renewable(e)
        /\ \/ Conclude(e, "succeeded")
           \/ /\ using[e] = None /\ Plans # {} /\ Reviewed # {}
              /\ pc' = [pc EXCEPT ![e] = "scope"] /\ UNCHANGED reply
           \/ /\ using[e] = None /\ PlanLeft /\ Names # {}
              /\ pc' = [pc EXCEPT ![e] = "draft"] /\ UNCHANGED reply
           \/ /\ using[e] # None /\ PlanLeft
              /\ pc' = [pc EXCEPT ![e] = "propose"] /\ UNCHANGED reply
           \/ /\ using[e] # None /\ draftPlan[using[e]] # None
              /\ pc' = [pc EXCEPT ![e] = "clear"] /\ UNCHANGED reply
  /\ UNCHANGED <<flag, seen, using, workerVars, taskVars, resultVars, reviewVars,
                 claimVars, planVars, draftVars, fileVars, watchVars, faults>>

\* The reply needs files: a read scope waits for the owner.
RequestScope(e) ==
  LET t == e[1] IN
  /\ pc[e] = "scope"
  /\ IF DraftAccepted(t, TRUE)
     THEN CreateDraft(t, TRUE) /\ Conclude(e, "awaiting_approval")
     ELSE Conclude(e, "blocked") /\ UNCHANGED draftVars
  /\ UNCHANGED <<flag, seen, using, workerVars, taskVars, resultVars, reviewVars,
                 claimVars, planVars, fileVars, watchVars, faults>>

\* The reply only creates files: a draft without inputs is opened (or found
\* again by a retry) and loaded.
OpenOwnDraft(e) ==
  LET t == e[1] IN
  /\ pc[e] = "draft"
  /\ IF DraftAccepted(t, FALSE) THEN CreateDraft(t, FALSE) ELSE UNCHANGED draftVars
  /\ IF draft[t] = "none" \/ (DraftAccepted(t, FALSE) /\ Loadable(t))
     THEN /\ using' = [using EXCEPT ![e] = t]
          /\ seen' = [seen EXCEPT ![e] = draftRev'[t]]
          /\ pc' = [pc EXCEPT ![e] = "propose"]
          /\ UNCHANGED reply
     ELSE Conclude(e, "blocked") /\ UNCHANGED <<seen, using>>
  /\ UNCHANGED <<flag, workerVars, taskVars, resultVars, reviewVars, claimVars, planVars,
                 fileVars, watchVars, faults>>

\* The preview for the owner reads the workspace again, which may fail with the
\* plan already recorded.
Preview(e) ==
  /\ pc[e] = "preview"
  /\ \/ Conclude(e, "awaiting_approval") /\ UNCHANGED faults
     \/ Stall /\ Conclude(e, "blocked")
  /\ UNCHANGED <<flag, seen, using, workerVars, taskVars, resultVars, reviewVars,
                 claimVars, planVars, draftVars, fileVars, watchVars>>

\* execute(), before finishing a cancelled run: unless the owner asked for the
\* cancellation the operation is held instead.
Settle(e) ==
  /\ pc[e] = "settle"
  /\ reply' = [reply EXCEPT ![e] = IF execution[e] = "cancelling" THEN @ ELSE "blocked"]
  /\ pc' = [pc EXCEPT ![e] = "finish"]
  /\ UNCHANGED <<flag, seen, using, workerVars, taskVars, resultVars, reviewVars,
                 claimVars, planVars, draftVars, fileVars, watchVars, faults>>

-----------------------------------------------------------------------------
\* Mutants: the lease and the state of the execution are not asked for; closed
\* plans are worth a review.
StaleAttempt(e) == current[e[1]] # e[2]
EveryPlan(t)    == PlansOf(t)

\* finish refuses the record of an execution that is no longer the current,
\* open execution under an unexpired claim.
Stale(e) == \/ ~Renewable(e) \/ current[e[1]] # e[2]
            \/ execution[e] \in ExecTerminal

LivePlans(t)  == {p \in PlansOf(t) : plan[p] \in PlanOpen /\ planFresh[p]}
LiveScope(t)  == t \in Requests /\ draft[t] = "pending" /\ draftFresh[t]

\* The outcome finish() commits for the reply of e: an approval wait with
\* nothing left to approve is a cancellation, a cancellation with effects in
\* doubt is held, and so is anything but a cancellation of a cancelling run.
FinalOutcome(e) ==
  LET t       == e[1]
      effects == IF t \in Applies THEN TaskOf(target[t]) ELSE t
      given   == IF reply[e] = "awaiting_approval" /\ LivePlans(t) = {} /\ ~LiveScope(t)
                 THEN "cancelled" ELSE reply[e]
      settled == IF given = "cancelled"
                    /\ UnresolvedGiven(effects, [execution EXCEPT ![e] = "cancelled"],
                                       plan, resolved, InDoubt)
                 THEN "blocked" ELSE given
  IN IF execution[e] = "cancelling" /\ settled # "cancelled" THEN "blocked" ELSE settled

StatusFor(r) == CASE r = "succeeded" -> "completed"
                  [] r = "timed_out" -> "failed"
                  [] OTHER           -> r

\* The request whose review ends when the apply of its plan succeeds.
Completes(e) == {t \in Requests : /\ FinalOutcome(e) = "succeeded" /\ e[1] \in Applies
                                  /\ t = TaskOf(target[e[1]])
                                  /\ status[t] = "awaiting_approval"}

\* work_queue.finish: task, execution, claim, result, approval and retry
\* eligibility change together.  A stale record, or an apply without its
\* applied plan, is rejected and changes nothing.
Finish(e) ==
  LET t == e[1]
      r == FinalOutcome(e)
  IN
  /\ pc[e] = "finish"
  /\ pc' = [pc EXCEPT ![e] = "done"]
  /\ IF Stale(e) \/ (r = "succeeded" /\ t \in Applies /\ plan[target[t]] # "applied")
     THEN UNCHANGED <<status, eligible, execution, claim, outcome, delivery, reviewVars>>
     ELSE /\ status' = [Assign(status, Completes(e), "completed") EXCEPT ![t] = StatusFor(r)]
          /\ eligible' = [eligible EXCEPT ![t] = FALSE]
          /\ execution' = [execution EXCEPT ![e] = IF r = "blocked" THEN "lost" ELSE r]
          /\ claim' = [claim EXCEPT ![t] = "released"]
          /\ outcome' = [outcome EXCEPT ![e] = r]
          /\ delivery' = [delivery EXCEPT ![e] = "pending"]
          /\ IF r = "awaiting_approval"
             THEN /\ approval' = [approval EXCEPT ![e] =
                       IF \E p \in LivePlans(t) : plan[p] = "approved"
                       THEN "approved" ELSE "pending"]
                  /\ scoped' = IF LivePlans(t) = {} THEN scoped \cup {e} ELSE scoped
             ELSE UNCHANGED reviewVars
  /\ UNCHANGED <<attempts, generation, current, parent, target, dismissed, sequence,
                 launching, runner, claimExec, flag, reply, seen, using, workerVars,
                 planVars, draftVars, fileVars, watchVars, faults>>

-----------------------------------------------------------------------------
Process(w) == \/ StartWorker(w) \/ Heartbeat(w) \/ HeartbeatLapses(w)
              \/ StopWorker(w) \/ CloseWorker(w) \/ Crash(w)
              \/ \E t \in Tasks : Claim(t, w)

Owner == \/ \E t \in Tasks : \/ Dismiss(t) \/ AcknowledgeDelivery(t) \/ Cancel(t)
                             \/ RecordStartFailure(t)
         \/ \E t \in Tasks, w \in Workers : \/ Submit(t, w) \/ SubmitUnlaunched(t, w)
                                            \/ Resume(t, w)
         \/ \E p \in Plans : Revoke(p) \/ Observe(p) \/ Withdraw(p) \/ Resolve(p)
         \/ \E p \in Plans, c \in Applies, w \in Workers : Approve(p, c, w)
         \/ \E d \in Requests : CloseDraft(d)
         \/ \E d, c \in Requests, w \in Workers : OpenDraft(d, c, w)
         \/ \E e \in Executions, k \in {"approved", "rejected", "expired"} :
              DecideApproval(e, k)

Maintenance == Recover \/ SettleExpired \/ MaintainDrafts

Clock == \/ \E t \in Tasks : ClaimExpires(t)
         \/ \E p \in Plans : PlanExpires(p)
         \/ \E d \in Requests : DraftExpires(d)
         \/ \E s \in Workspaces, x \in Paths : OutsideEdit(s, x)

Request(e) == \/ Start(e) \/ ModelReturns(e) \/ RequestScope(e) \/ OpenOwnDraft(e)
              \/ Propose(e) \/ Preview(e) \/ Clear(e)
Apply(e)   == \/ ApplyBegin(e) \/ ApplyBreaks(e) \/ ApplyCommit(e) \/ ApplyUndo(e)
              \/ \E x \in Paths : Mutate(e, x) \/ JournalApplied(e, x)
Thread(e)  == Request(e) \/ Apply(e) \/ Settle(e) \/ Finish(e)

Watcher(k) == \/ Poll(k) \/ ClaimDelivery(k) \/ Send(k) \/ SettleDelivery(k)
              \/ StopWatching(k)
              \/ \E t \in Tasks : Watch(k, t)

Next == \/ \E w \in Workers : Process(w)
        \/ \E k \in Watchers : Watcher(k)
        \/ Owner \/ Maintenance \/ Clock
        \/ \E e \in Executions : Thread(e) \/ Monitor(e)

Spec == Init /\ [][Next]_vars

\* Some main loop runs: it polls for work, and it calls recover every ten seconds.
SomeWorkerUp == \E w \in Workers : process[w] = "up"

\* What the processes that run are sure to do: threads go on (model calls have a
\* time limit), main loops claim, recover, deliver and
\* close when they are told to stop, and nobody renews the
\* heartbeat of a process or the claim of a thread that is gone.
Fairness ==
  /\ \A e \in Executions : WF_vars(Thread(e))
  /\ \A w \in Workers : /\ WF_vars(\E t \in Tasks : Claim(t, w))
                         /\ WF_vars(process[w] = "stopping" /\ CloseWorker(w))
                         /\ WF_vars(process[w] \in {"gone", "unlaunched"} /\ HeartbeatLapses(w))
  /\ \A t \in Tasks : WF_vars(/\ claim[t] = "held" /\ pc[<<t, claimExec[t]>>] \in {"done", "dead"}
                               /\ ClaimExpires(t))
  /\ \A k \in Watchers : WF_vars(Poll(k) \/ ClaimDelivery(k) \/ Send(k) \/ SettleDelivery(k))
  /\ WF_vars(SomeWorkerUp /\ Recover)

FairSpec == Spec /\ Fairness
=============================================================================

---------------------------- MODULE OperationStore ----------------------------
(***************************************************************************)
(* The transactions of operation_store.py that are called by connectors,   *)
(* controllers and the worker's main loop: worker registration and         *)
(* heartbeats, submission, claiming, recovery, cancellation, resumption,   *)
(* dismissal and the record of a worker that never started.  The executor  *)
(* threads' own transactions are in OperationWorker.                       *)
(***************************************************************************)
EXTENDS OperationLedger

\* register_worker, by a worker process that starts its main loop.
StartWorker(w) ==
  /\ registered[w] = "absent"
  /\ registered' = [registered EXCEPT ![w] = "open"]
  /\ fresh' = [fresh EXCEPT ![w] = TRUE]
  /\ process' = [process EXCEPT ![w] = "up"]
  /\ UNCHANGED <<taskVars, resultVars, reviewVars, claimVars, planVars, draftVars,
                 fileVars, threadVars, watchVars, faults>>

\* heartbeat, by the main loop or an execution's monitor.  Worker.heartbeat
\* holds lifecycle_lock and skips a closed worker.
Heartbeat(w) ==
  /\ process[w] \in {"up", "stopping"} /\ ~fresh[w]
  /\ fresh' = [fresh EXCEPT ![w] = TRUE]
  /\ UNCHANGED <<registered, process, taskVars, resultVars, reviewVars, claimVars,
                 planVars, draftVars, fileVars, threadVars, watchVars, faults>>

\* 30 seconds pass without a heartbeat: unavoidable once the process is gone,
\* a stall of the machine or of the database while it lives.
HeartbeatLapses(w) ==
  /\ registered[w] = "open" /\ fresh[w]
  /\ IF process[w] \in {"up", "stopping"} THEN Stall ELSE UNCHANGED faults
  /\ fresh' = [fresh EXCEPT ![w] = FALSE]
  /\ UNCHANGED <<registered, process, taskVars, resultVars, reviewVars, claimVars,
                 planVars, draftVars, fileVars, threadVars, watchVars>>

\* SIGTERM, SIGINT or the end of the controller's liveness pipe sets the stop event.
StopWorker(w) ==
  /\ process[w] = "up"
  /\ process' = [process EXCEPT ![w] = "stopping"]
  /\ UNCHANGED <<registered, fresh, taskVars, resultVars, reviewVars, claimVars,
                 planVars, draftVars, fileVars, threadVars, watchVars, faults>>

\* Worker.close once the executor pool is drained, and the controller that
\* marks the row of a child it has reaped: heartbeat(closed=True).  The
\* recovery that follows both is the separate transaction Recover.
CloseWorker(w) ==
  /\ registered[w] = "open"
  /\ \/ /\ process[w] = "stopping"
        /\ \A e \in Executions : runner[e] = w => pc[e] \in {"none", "done", "dead"}
     \/ process[w] \in {"gone", "unlaunched"}
  /\ registered' = [registered EXCEPT ![w] = "closed"]
  /\ fresh' = [fresh EXCEPT ![w] = TRUE]
  /\ process' = [process EXCEPT ![w] = IF process[w] = "stopping" THEN "gone" ELSE @]
  /\ UNCHANGED <<taskVars, resultVars, reviewVars, claimVars, planVars, draftVars,
                 fileVars, threadVars, watchVars, faults>>

-----------------------------------------------------------------------------
\* The rows _submit_conn inserts, for a task the ledger does not have yet.
\* A request also takes the next turn of its conversation (bind_conn).  `before'
\* is the status column as the caller's transaction has left it so far.
InsertTask(t, w, up, tgt, before) ==
  /\ status[t] = "none"
  /\ status' = [before EXCEPT ![t] = "queued"]
  /\ eligible' = [eligible EXCEPT ![t] = TRUE]
  /\ generation' = [generation EXCEPT ![t] = w]
  /\ parent' = [parent EXCEPT ![t] = up]
  /\ target' = [target EXCEPT ![t] = tgt]
  /\ sequence' = [sequence EXCEPT ![t] = IF t \in Requests THEN NextSequence(t) ELSE 0]

\* A follow-up names a ready draft of its own conversation and workspace
\* (work_drafts.active, or draft-feedback).  The draft is looked up before the
\* submitting transaction, so it may have been settled in between.
Attachable(t) == {d \in Requests \ {t} : /\ draft[d] \in {"ready", "applied", "closed"}
                                         /\ Conversation[d] = Conversation[t]
                                         /\ Workspace[d] = Workspace[t]}

\* submit: intake of a new request for a ready worker generation.  A repeated
\* source_request_id returns the task it created and changes nothing.
Submit(t, w) ==
  /\ t \in Requests /\ WorkerReady(w)
  /\ \E d \in Attachable(t) \cup {None} : InsertTask(t, w, None, d, status)
  /\ UNCHANGED <<attempts, current, dismissed, launching, workerVars, resultVars,
                 reviewVars, claimVars, planVars, draftVars, fileVars, threadVars,
                 watchVars, faults>>

\* OperationService.submit when ensure_worker failed: a generation nobody runs
\* is registered so that the request itself is not lost.  Only this call knows
\* the generation, so the two transactions are one step.
SubmitUnlaunched(t, w) ==
  /\ t \in Requests /\ registered[w] = "absent"
  /\ registered' = [registered EXCEPT ![w] = "open"]
  /\ fresh' = [fresh EXCEPT ![w] = TRUE]
  /\ process' = [process EXCEPT ![w] = "unlaunched"]
  /\ \E d \in Attachable(t) \cup {None} : InsertTask(t, w, None, d, status)
  /\ launching' = launching \cup {t}
  /\ UNCHANGED <<attempts, current, dismissed, resultVars, reviewVars, claimVars,
                 planVars, draftVars, fileVars, threadVars, watchVars, faults>>

\* Mutants: a queued task is never interrupted; an expired lease is nothing to recover.
InterruptedActive == {t \in Tasks : /\ status[t] \in {"running", "cancelling"}
                                    /\ ~WorkerReady(generation[t]) \/ claim[t] = "expired"}
InterruptedSilent == {t \in Tasks : /\ status[t] \in {"queued", "running", "cancelling"}
                                    /\ ~WorkerReady(generation[t])}

\* The tasks recover() holds: queued or active, still eligible, and their
\* worker closed or silent, or their unreleased claim expired.
Interrupted ==
  {t \in Tasks : /\ eligible[t]
                 /\ status[t] \in {"queued", "running", "cancelling"}
                 /\ ~WorkerReady(generation[t]) \/ claim[t] = "expired"}

\* record_start_failure, after the unlaunched generation was closed and
\* recovered: a deliverable diagnosis, unless the task moved on meanwhile.
RecordStartFailure(t) ==
  /\ t \in launching
  /\ process[generation[t]] = "unlaunched" =>
        registered[generation[t]] = "closed" /\ t \notin Interrupted
  /\ launching' = launching \ {t}
  /\ IF status[t] = "blocked" /\ current[t] = 0
     THEN /\ current' = [current EXCEPT ![t] = 1]
          /\ execution' = [execution EXCEPT ![<<t, 1>>] = "failed"]
          /\ outcome' = [outcome EXCEPT ![<<t, 1>>] = "blocked"]
          /\ delivery' = [delivery EXCEPT ![<<t, 1>>] = "pending"]
     ELSE UNCHANGED <<current, execution, outcome, delivery>>
  /\ UNCHANGED <<status, eligible, attempts, generation, parent, target, dismissed,
                 sequence, runner, workerVars, reviewVars, claimVars, planVars,
                 draftVars, fileVars, threadVars, watchVars, faults>>

-----------------------------------------------------------------------------
\* Mutant: the claim row is left behind.
ReleaseForgotten(S) == claim

\* released = 1 on the claim rows of the tasks in S.
Released(S) == Assign(claim, {t \in S : claim[t] # "none"}, "released")

\* recover: hold every interrupted task, never take it over.
Recover ==
  /\ Interrupted # {}
  /\ LET S == {t \in Interrupted : current[t] > 0} IN
     /\ status' = Assign(status, Interrupted, "blocked")
     /\ eligible' = Assign(eligible, Interrupted, FALSE)
     /\ execution' = Assign(execution,
                            {e \in CurrentOf(S) : execution[e] \notin ExecTerminal}, "lost")
     /\ claim' = Released(S)
  /\ UNCHANGED <<attempts, generation, current, parent, target, dismissed, sequence,
                 launching, runner, outcome, delivery, claimExec, workerVars,
                 reviewVars, planVars, draftVars, fileVars, threadVars,
                 watchVars, faults>>

\* 30 seconds pass without a renewal.  A live executor's monitor renews four
\* times a second, so there it takes a stall.
ClaimExpires(t) ==
  /\ claim[t] = "held"
  /\ IF pc[<<t, claimExec[t]>>] \in {"done", "dead"} THEN UNCHANGED faults ELSE Stall
  /\ claim' = [claim EXCEPT ![t] = "expired"]
  /\ UNCHANGED <<claimExec, workerVars, taskVars, resultVars, reviewVars, planVars,
                 draftVars, fileVars, threadVars, watchVars>>

\* The rows claim() may return to generation w, in any order of priority.
\* An apply runs alone in its workspace; requests share it.
Claimable(t, w) ==
  /\ status[t] = "queued" /\ eligible[t] /\ generation[t] = w
  /\ attempts[t] < MaxAttempts
  /\ ~EarlierWork(t)
  /\ \A u \in Tasks : Claimed(u) /\ WorkspaceOf(u) = WorkspaceOf(t)
                      => u \notin Applies /\ t \notin Applies

\* claim: one queued row becomes an execution under a fresh claim, and the
\* main loop hands it to an executor thread.  A released claim row of an
\* earlier attempt is deleted first; the worker's own freshness is not asked.
Claim(t, w) ==
  LET n == current[t] + 1  e == <<t, n>> IN
  /\ process[w] = "up"
  /\ Cardinality({x \in Executions : runner[x] = w /\ pc[x] \notin {"none", "done", "dead"}}) < Slots
  /\ Cardinality({u \in Tasks : Claimed(u)}) < Slots
  /\ Claimable(t, w) /\ ~Claimed(t)
  /\ execution' = [execution EXCEPT ![e] = "running"]
  /\ runner' = [runner EXCEPT ![e] = w]
  /\ claim' = [claim EXCEPT ![t] = "held"]
  /\ claimExec' = [claimExec EXCEPT ![t] = n]
  /\ status' = [status EXCEPT ![t] = "running"]
  /\ current' = [current EXCEPT ![t] = n]
  /\ attempts' = [attempts EXCEPT ![t] = @ + 1]
  /\ pc' = [pc EXCEPT ![e] = "start"]
  /\ UNCHANGED <<eligible, generation, parent, target, dismissed, sequence, launching,
                 outcome, delivery, flag, reply, seen, using, workerVars, reviewVars,
                 planVars, draftVars, fileVars, watchVars, faults>>

-----------------------------------------------------------------------------
\* _dismiss_conn, reached by dismiss and by cancel of a failed task.
Dismiss(t) ==
  /\ status[t] = "failed" /\ ~Unresolved(t)
  /\ t \notin dismissed
  /\ dismissed' = dismissed \cup {t}
  /\ UNCHANGED <<status, eligible, attempts, generation, current, parent, target,
                 sequence, launching, workerVars, resultVars, reviewVars, claimVars,
                 planVars, draftVars, fileVars, threadVars, watchVars, faults>>

\* Mutant: an ambiguous send counts as answered.
AnsweredUnlessSending(t) == current[t] > 0 => delivery[<<t, current[t]>>] # "sending"

\* No send of t's latest result is open or in doubt.
Answered(t) == current[t] > 0 => delivery[<<t, current[t]>>] \notin {"sending", "uncertain"}

\* resume: the owner asks for one more attempt.  The recovery it starts with
\* is the separate transaction Recover.
Resume(t, w) ==
  /\ t \in Requests /\ status[t] \in {"blocked", "failed"}
  /\ attempts[t] < MaxAttempts
  /\ Answered(t)
  /\ ~UnresolvedActive(t)
  /\ \A p \in PlansOf(t) : plan[p] \notin {"applying", "uncertain", "applied", "reconciled"}
  /\ WorkerReady(w)
  /\ status' = [status EXCEPT ![t] = "queued"]
  /\ eligible' = [eligible EXCEPT ![t] = TRUE]
  /\ generation' = [generation EXCEPT ![t] = w]
  /\ dismissed' = dismissed \ {t}
  /\ UNCHANGED <<attempts, current, parent, target, sequence, launching, workerVars,
                 resultVars, reviewVars, claimVars, planVars, draftVars, fileVars,
                 threadVars, watchVars, faults>>

\* execution_store.decide_approval from the dashboard, on the approval row of an
\* operation: it decides the row only, and a rejection also holds the task.
DecideApproval(e, decision) ==
  /\ approval[e] = "pending"
  /\ approval' = [approval EXCEPT ![e] = decision]
  /\ status' = IF decision = "rejected" THEN [status EXCEPT ![e[1]] = "blocked"] ELSE status
  /\ UNCHANGED <<eligible, attempts, generation, current, parent, target, dismissed,
                 sequence, launching, scoped, workerVars, resultVars, claimVars,
                 planVars, draftVars, fileVars, threadVars, watchVars, faults>>

\* Mutant: a plan is withdrawn whatever has become of it.
EveryPlanOf(t) == PlansOf(t)

\* The plans of task t its owner may still decide on, and their apply tasks.
OpenPlans(t) == {p \in PlansOf(t) : plan[p] \in {"pending", "approved"}}
AppliesOf(t) == {c \in Children(t) : target[c] \in OpenPlans(t)}

\* Mutant: a held apply is asked to stop like an active one.
ActiveOrHeld(S) == {c \in S : status[c] \in {"running", "cancelling", "blocked"}}

\* What withdrawing plans does to their apply tasks S: a queued one never
\* starts, an active one is asked to stop.
QueuedIn(S)     == {c \in S : status[c] = "queued"}
ActiveIn(S)     == {c \in S : status[c] \in {"running", "cancelling"}}
Withdrawn(S)    == Assign(Assign(status, QueuedIn(S), "cancelled"), ActiveIn(S), "cancelling")
AskedToStop(S)  == Assign(execution, {e \in Executions : /\ e[1] \in ActiveIn(S)
                                                         /\ execution[e] = "running"},
                          "cancelling")

\* Mutant: only the task's own runs leave a cancellation in doubt.
DoubtfulRun(t) == \E e \in ExecutionsOf(t) : execution[e] \in {"running", "cancelling"}

\* The execution of t under an unexpired claim, which its thread will settle.
Attended(t) == /\ claim[t] = "held" /\ claimExec[t] = current[t]
               /\ execution[<<t, current[t]>>] \in {"running", "cancelling"}
Doubtful(t) == \/ Unresolved(t)
               \/ \E e \in ExecutionsOf(t) : execution[e] \in {"running", "cancelling"}

\* cancel of a task that is neither terminal nor held with unresolved effects.
\* Its open plans are revoked with their applies; the execution under a live
\* claim is asked to stop, anything else is settled here.
Cancel(t) ==
  /\ status[t] \in {"queued", "running", "cancelling", "awaiting_approval", "blocked"}
  /\ ~(status[t] = "blocked" /\ Unresolved(t))
  /\ approval' = Assign(approval, {e \in ExecutionsOf(t) : approval[e] = "pending"}, "rejected")
  /\ plan' = Assign(plan, OpenPlans(t), "revoked")
  /\ IF Attended(t)
     THEN /\ status' = [Withdrawn(AppliesOf(t)) EXCEPT ![t] = "cancelling"]
          /\ eligible' = Assign(eligible, QueuedIn(AppliesOf(t)), FALSE)
          /\ execution' = [AskedToStop(AppliesOf(t)) EXCEPT ![<<t, current[t]>>] = "cancelling"]
          /\ UNCHANGED claim
     ELSE /\ status' = [Withdrawn(AppliesOf(t)) EXCEPT
                          ![t] = IF Doubtful(t) THEN "blocked" ELSE "cancelled"]
          /\ eligible' = Assign(eligible, QueuedIn(AppliesOf(t)) \cup {t}, FALSE)
          /\ execution' = Assign(AskedToStop(AppliesOf(t)),
                                 {e \in ExecutionsOf(t) : execution[e] \notin ExecTerminal},
                                 IF Doubtful(t) THEN "lost" ELSE "cancelled")
          /\ claim' = Released({t})
  /\ UNCHANGED <<attempts, generation, current, parent, target, dismissed, sequence,
                 launching, runner, outcome, delivery, scoped, claimExec, planExec,
                 planFresh, planPaths, preimage, journal, resolved, workerVars,
                 draftVars, fileVars, threadVars, watchVars, faults>>
=============================================================================

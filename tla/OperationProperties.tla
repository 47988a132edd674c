------------------------- MODULE OperationProperties -------------------------
(***************************************************************************)
(* What the control plane of OperationWorker promises.  Root(p) is the     *)
(* workspace of plan p, TaskOf(p) the task that proposed it.               *)
(***************************************************************************)
EXTENDS OperationWorker

-----------------------------------------------------------------------------
\* Claims and attempts

\* A claim row that nobody has released belongs to the task's current
\* execution, and that execution is still open: recover, cancel and finish
\* release the claim whenever they end the execution, so a slot is never held
\* by an attempt that is over.
ClaimFence ==
  \A t \in Tasks : Claimed(t) =>
    /\ claimExec[t] = current[t]
    /\ execution[<<t, current[t]>>] \in {"running", "cancelling"}

\* A task that shows as running or being cancelled is under an unreleased claim
\* and eligible, so that some thread or recover() will end it; a queued task is
\* eligible and unclaimed, so that it can start.  Cancelling a parent touches
\* the rows of its applies, and must not make a held one look active.
ActiveIsClaimed ==
  \A t \in Tasks :
    /\ status[t] \in {"running", "cancelling"} => eligible[t] /\ Claimed(t)
    /\ status[t] = "queued" => eligible[t] /\ ~Claimed(t)
    /\ eligible[t] => status[t] \in {"queued", "running", "cancelling"}

\* Two turns of one conversation are never active together, whatever the
\* workers that claim them and however slots are free.
TurnsAlone ==
  \A t, u \in Requests :
    /\ t # u /\ Conversation[t] = Conversation[u]
    => ~({status[t], status[u]} \subseteq {"running", "cancelling"})

\* What the record of an execution finally says stays: a thread that lost its
\* execution to recover() or to cancel cannot overwrite "lost" or "cancelled".
TerminalExecutions ==
  [][\A e \in Executions : execution[e] \in ExecTerminal => execution'[e] = execution[e]]_vars

-----------------------------------------------------------------------------
\* Reviews

\* An approval row that waits for the owner belongs to the current execution of
\* a task that waits for the owner, so a decision on it never concerns a review
\* that finish, link_plan, open, close, cancel or a later attempt has ended.
PendingIsWaiting ==
  \A e \in Executions : approval[e] = "pending" =>
    /\ status[e[1]] = "awaiting_approval" /\ current[e[1]] = e[2]
    /\ execution[e] = "awaiting_approval"

\* A task that waits for the owner has something to decide on, or a plan whose
\* application or expiry will end the wait: finish() turns the wait of a plan
\* withdrawn during the run into a cancellation.
ReviewHasSubject ==
  \A t \in Tasks : status[t] = "awaiting_approval" =>
    \/ \E p \in PlansOf(t) : plan[p] \notin {"revoked", "expired", "reconciled"}
    \/ t \in Requests /\ draft[t] = "pending"

\* Cancelling the original task prevents the application of its plan: no plan of
\* a cancelled task is being applied, may have been half applied, or can still
\* be decided on.
CancelledIsClosed ==
  \A t \in Tasks : status[t] = "cancelled" =>
    \A p \in PlansOf(t) : /\ plan[p] \notin {"applying", "uncertain"}
                          /\ plan[p] \in PlanOpen => ~planFresh[p]

\* Of all the plans made for one draft at most one can still be decided on,
\* applied or reconciled: a new result replaces the earlier one.
OnePlanPerDraft ==
  \A p, q \in Plans :
    /\ p # q /\ {plan[p], plan[q]} \subseteq {"pending", "approved", "applying", "uncertain"}
    => DraftOf(TaskOf(p)) # DraftOf(TaskOf(q))

-----------------------------------------------------------------------------
\* Application

\* One workspace has at most one plan that is being applied or was interrupted
\* while it was.
OneUnsettledPlan ==
  \A p, q \in Plans :
    /\ p # q /\ {plan[p], plan[q]} \subseteq {"applying", "uncertain"}
    => Root(p) # Root(q)

\* No effect is forgotten: content that an application put into a file, or its
\* half-made creation, belongs to a plan of that workspace that journalled the
\* file and is not recorded as untouched (pending, approved, revoked, expired).
EffectsRecorded ==
  \A s \in Workspaces, x \in Paths :
    disk[s][x] \in {"partial"} \cup Plans =>
      \E p \in Plans : /\ plan[p] \in {"applying", "uncertain", "applied", "reconciled"}
                       /\ Root(p) = s /\ journal[p][x] # "none"
                       /\ disk[s][x] \in {"partial", p}

\* A plan is recorded as applied, by its application or by the owner's
\* resolution, only when every one of its files holds what it writes.  The one
\* exception is an edit that somebody makes between resolve()'s look at that file
\* and its record; a file that is untouched, half made or another plan's is none.
AppliedMeansWritten ==
  [][\A p \in Plans : plan[p] # "applied" /\ plan'[p] = "applied" =>
       \A x \in planPaths[p] :
         \/ disk'[Root(p)][x] = p
         \/ x \in shown[p] /\ disk'[Root(p)][x] = "edited"]_vars

\* A completed apply task is one whose plan was applied: it stays so against
\* every later decision, expiry or reconciliation.
CompletedIsApplied ==
  \A c \in Applies : status[c] = "completed" => plan[target[c]] \in {"applied", "reconciled"}

\* A settled draft shows the plan that settled it as applied.
AppliedDraft ==
  \A d \in Requests : draft[d] = "applied" =>
    draftPlan[d] # None /\ plan[draftPlan[d]] \in {"applied", "reconciled"}

\* An edit made outside the agent is overwritten only by a plan that was made
\* from that very content, however the edit interleaves with copying the files,
\* the review and the single file operations of the application.
EditsSurvive ==
  [][\A s \in Workspaces, x \in Paths :
       disk[s][x] = "edited" /\ disk'[s][x] \in Plans => preimage[disk'[s][x]][x] = "edited"]_vars

-----------------------------------------------------------------------------
\* Delivery

\* The result of an attempt is sent at most once, whatever watchers of however
\* many controllers wait for it and however their sends end.
SentOnce == \A e \in Executions : sent[e] <= 1

\* A result that is being sent, or whose sending is in doubt, is the task's
\* latest: the owner is asked about it before a new attempt replaces it.
SendingIsCurrent ==
  \A e \in Executions : delivery[e] \in {"sending", "uncertain"} => current[e[1]] = e[2]

-----------------------------------------------------------------------------
\* Progress, under FairSpec

\* A claim does not outlive its attempt for ever: the thread finishes or
\* recover() releases it, unless no worker runs at all.
ClaimsReleased ==
  \A t \in Tasks : Claimed(t) ~> ~Claimed(t) \/ ~SomeWorkerUp

\* A queued task does not stay queued for ever while some worker runs: it is
\* claimed, or held when its worker generation is gone.
QueueMoves ==
  \A t \in Tasks : status[t] = "queued" ~> status[t] # "queued" \/ ~SomeWorkerUp

-----------------------------------------------------------------------------
\* What the task's transition table says and the ledger does not keep to: a
\* completed task is final (TASK_TRANSITIONS: "completed" has no successor).
CompletedIsFinal ==
  [][\A t \in Tasks : status[t] = "completed" => status'[t] = "completed"]_vars
=============================================================================

------------------------------ MODULE WorkDrafts ------------------------------
(***************************************************************************)
(* work_drafts.py: the reviewed working copy of a request.  A draft is     *)
(* keyed by the request that opened it.  A scope that reads files waits    *)
(* for the owner; opening it copies the files and submits a child request  *)
(* that plans against the copy; each result links one latest plan to it.   *)
(***************************************************************************)
EXTENDS OperationService

\* The files whose copy a read scope asks for.
Reviewed == Existing
\* Where the changes of draft d may create files.
NewFiles(d) == {d} \X Names

\* create, in the transaction of an executor thread of task t.  It asks for no
\* claim, so a thread that has lost its execution still creates the row; the
\* prior draft of a retry is returned when its paths are the same.
DraftAccepted(t, reads) == draft[t] # "none" => draftReads[t] = reads

CreateDraft(t, reads) ==
  IF draft[t] # "none" THEN UNCHANGED draftVars
  ELSE /\ draft' = [draft EXCEPT ![t] = IF reads THEN "pending" ELSE "ready"]
       /\ draftFresh' = [draftFresh EXCEPT ![t] = TRUE]
       /\ draftRev' = [draftRev EXCEPT ![t] = 1]
       /\ draftReads' = [draftReads EXCEPT ![t] = reads]
       /\ UNCHANGED <<draftPlan, draftTask, snapshot>>

\* load: a ready, unexpired draft whose plan, if any, still waits for the owner.
Loadable(d) ==
  /\ draft[d] = "ready" /\ draftFresh[d]
  /\ draftPlan[d] # None => plan[draftPlan[d]] = "pending"

\* Mutant: the review ends without its approval row.
NonePending(S) == {}

\* _settle_review over a set of tasks.
ReviewStatus(S, st, ended) == Assign(st, {t \in S : st[t] = "awaiting_approval"}, ended)
ReviewExecution(S, ended) ==
  Assign(execution, {e \in Executions : e[1] \in S /\ execution[e] = "awaiting_approval"},
         IF ended = "completed" THEN "succeeded" ELSE ended)
PendingOf(S) == {e \in Executions : e[1] \in S /\ approval[e] = "pending"}

\* open_and_submit: the owner approves the exact read scope of draft d; the
\* files are copied and the planning continues as the child request c.
\* Repeating it returns the child it submitted.
OpenDraft(d, c, w) ==
  /\ draft[d] = "pending" /\ draftFresh[d] /\ status[d] = "awaiting_approval"
  /\ c \in Requests /\ Conversation[c] = Conversation[d] /\ Workspace[c] = Workspace[d]
  /\ \A x \in Reviewed : disk[Workspace[d]][x] # "absent"
  /\ WorkerReady(w)
  /\ draft' = [draft EXCEPT ![d] = "ready"]
  /\ draftRev' = [draftRev EXCEPT ![d] = @ + 1]
  /\ draftTask' = [draftTask EXCEPT ![d] = c]
  /\ snapshot' = [snapshot EXCEPT ![d] = [x \in Paths |-> IF x \in Reviewed
                                            THEN disk[Workspace[d]][x] ELSE "absent"]]
  /\ approval' = Assign(approval, PendingOf({d}) \cap scoped, "approved")
  /\ execution' = ReviewExecution({d}, "completed")
  /\ InsertTask(c, w, d, d, ReviewStatus({d}, status, "completed"))
  /\ UNCHANGED <<attempts, current, dismissed, launching, runner, outcome, delivery,
                 scoped, draftFresh, draftPlan, draftReads, workerVars, claimVars,
                 planVars, fileVars, threadVars, watchVars, faults>>

\* link_plan_conn's checks, over the plan column as the caller has left it: the
\* thread still owns its execution, it planned for this draft at the revision it
\* loaded, and the plan it replaces is only waiting for the owner.
Linkable(e, d, pl) ==
  LET t == e[1]  prev == draftPlan[d] IN
  /\ OwnsExecution(e)
  /\ target[t] = d \/ (target[t] = None /\ d = t)
  /\ draft[d] = "ready" /\ draftRev[d] = seen[e]
  /\ prev # None =>
       /\ pl[prev] = "pending" \/ (pl[prev] = "revoked" /\ TaskOf(prev) = t)
       /\ TaskOf(prev) # t => ~UnresolvedGiven(TaskOf(prev), execution, pl,
                                               resolved, InDoubt)

\* link_plan_conn's updates but for the plan column: p (or NULL) becomes the
\* draft's plan, and the review of the replaced plan's task is settled.
LinkPlan(e, d, p) ==
  LET prev == draftPlan[d]
      other == IF prev = None THEN {} ELSE {TaskOf(prev)} IN
  /\ draftPlan' = [draftPlan EXCEPT ![d] = p]
  /\ draftRev' = [draftRev EXCEPT ![d] = @ + 1]
  /\ approval' = Assign(approval, PendingOf(other), "rejected")
  /\ status' = ReviewStatus(other \ {e[1]}, status, "completed")
  /\ execution' = ReviewExecution(other \ {e[1]}, "completed")
  /\ UNCHANGED <<draft, draftFresh, draftReads, draftTask, snapshot, scoped, runner,
                 outcome, delivery>>

\* close: the owner gives up a draft none of whose tasks is active or uncertain
\* and whose plan is not being applied.
CloseDraft(d) ==
  LET tasks   == {d} \cup {c \in Requests : target[c] = d}
      waiting == {t \in tasks : status[t] = "awaiting_approval"}
      last    == draftPlan[d]
  IN
  /\ draft[d] \in {"pending", "ready"}
  /\ \A t \in tasks : /\ status[t] \notin {"queued", "running", "cancelling"}
                      /\ ~Unresolved(t)
  /\ last # None => plan[last] \in {"pending", "revoked", "expired"}
  /\ plan' = Assign(plan, {p \in Plans : p = last /\ plan[p] = "pending"}, "revoked")
  /\ status' = ReviewStatus(waiting, status, "cancelled")
  /\ execution' = ReviewExecution(waiting, "cancelled")
  /\ approval' = Assign(approval, PendingOf(waiting), "rejected")
  /\ draft' = [draft EXCEPT ![d] = "closed"]
  /\ draftRev' = [draftRev EXCEPT ![d] = @ + 1]
  /\ UNCHANGED <<eligible, attempts, generation, current, parent, target, dismissed,
                 sequence, launching, runner, outcome, delivery, scoped, planExec,
                 planFresh, planPaths, preimage, journal, resolved, draftFresh,
                 draftPlan, draftReads, draftTask, snapshot, workerVars, claimVars,
                 fileVars, threadVars, watchVars, faults>>

\* maintain: read scopes that expired without an answer are closed.  (The
\* deletion of old working copies it also does concerns settled drafts only.)
Lapsed == {d \in Requests : /\ draft[d] = "pending" /\ ~draftFresh[d]
                            /\ status[d] = "awaiting_approval" /\ ~Unresolved(d)}
MaintainDrafts ==
  /\ Lapsed # {}
  /\ status' = ReviewStatus(Lapsed, status, "cancelled")
  /\ execution' = ReviewExecution(Lapsed, "cancelled")
  /\ approval' = Assign(approval, PendingOf(Lapsed) \cap scoped, "expired")
  /\ draft' = Assign(draft, Lapsed, "closed")
  /\ draftRev' = [d \in Requests |-> IF d \in Lapsed THEN draftRev[d] + 1 ELSE draftRev[d]]
  /\ UNCHANGED <<eligible, attempts, generation, current, parent, target, dismissed,
                 sequence, launching, runner, outcome, delivery, scoped, draftFresh,
                 draftPlan, draftReads, draftTask, snapshot, workerVars, claimVars,
                 planVars, fileVars, threadVars, watchVars, faults>>

\* The hour of a read scope, or the month of a working copy, passes.
DraftExpires(d) ==
  /\ draft[d] \in {"pending", "ready"} /\ draftFresh[d]
  /\ draftFresh' = [draftFresh EXCEPT ![d] = FALSE]
  /\ UNCHANGED <<draft, draftRev, draftPlan, draftReads, draftTask, snapshot,
                 workerVars, taskVars, resultVars, reviewVars, claimVars, planVars,
                 fileVars, threadVars, watchVars, faults>>
=============================================================================

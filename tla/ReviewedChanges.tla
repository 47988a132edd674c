--------------------------- MODULE ReviewedChanges ---------------------------
(***************************************************************************)
(* reviewed_changes.py: immutable file plans, the owner's decisions on     *)
(* them, their settlement when they close, the journalled application to   *)
(* the workspace and the acknowledgement of what an interrupted            *)
(* application left behind.  The actions of an executor thread take its    *)
(* execution e; those of the owner or of maintenance take the plan.        *)
(***************************************************************************)
EXTENDS WorkDrafts

\* Mutant: whatever was not closed can still be decided.
PlanUnclosed == PlanStatus \ {"none", "revoked", "expired"}

PlanOpen   == {"pending", "approved"}
CanDecide  == {"queued", "running", "awaiting_approval"}
ThreadLocal == <<flag, seen, using>>

\* The thread of execution e ends perform() with the outcome r.
Conclude(e, r) ==
  /\ reply' = [reply EXCEPT ![e] = r]
  /\ pc' = [pc EXCEPT ![e] = IF r = "cancelled" THEN "settle" ELSE "finish"]

-----------------------------------------------------------------------------
\* Mutant: a new plan leaves the previous one of its draft open.
NothingReplaced(d) == {}

\* The plan of draft d that a new one replaces.
Replaced(d) == {draftPlan[d]} \cap Plans

\* propose, in draft d: the task's own open plans are revoked, the new plan is
\* stored against the copied preimages and linked to the draft, all or nothing.
Propose(e) ==
  LET t == e[1]  d == using[e]
      left == Assign(plan, OpenPlans(t), "revoked")
  IN
  /\ pc[e] = "propose"
  /\ IF Linkable(e, d, left)
     THEN \E p \in {q \in Plans : plan[q] = "none"} :
          \E S \in SUBSET (NewFiles(d) \cup (IF draftReads[d] THEN Reviewed ELSE {})) \ {{}} :
            /\ plan' = [Assign(left, Replaced(d), "revoked") EXCEPT ![p] = "pending"]
            /\ planExec' = [planExec EXCEPT ![p] = e]
            /\ planFresh' = [planFresh EXCEPT ![p] = TRUE]
            /\ planPaths' = [planPaths EXCEPT ![p] = S]
            /\ preimage' = [preimage EXCEPT ![p] = snapshot[d]]
            /\ LinkPlan(e, d, p)
            /\ pc' = [pc EXCEPT ![e] = "preview"]
            /\ UNCHANGED reply
     ELSE /\ Conclude(e, "blocked")
          /\ UNCHANGED <<plan, planExec, planFresh, planPaths, preimage, status,
                         resultVars, reviewVars, draftVars>>
  /\ UNCHANGED <<eligible, attempts, generation, current, parent, target, dismissed,
                 sequence, launching, journal, resolved, workerVars, claimVars,
                 fileVars, ThreadLocal, watchVars, faults>>

\* perform(), when feedback leaves no change in the draft: the plan is unlinked.
Clear(e) ==
  LET d == using[e] IN
  /\ pc[e] = "clear"
  /\ IF Linkable(e, d, plan)
     THEN /\ plan' = Assign(plan, Replaced(d), "revoked")
          /\ LinkPlan(e, d, None)
          /\ Conclude(e, "succeeded")
     ELSE /\ Conclude(e, "blocked")
          /\ UNCHANGED <<plan, status, resultVars, reviewVars, draftVars>>
  /\ UNCHANGED <<eligible, attempts, generation, current, parent, target, dismissed,
                 sequence, launching, planExec, planFresh, planPaths, preimage,
                 journal, resolved, workerVars, claimVars, fileVars, ThreadLocal,
                 watchVars, faults>>

-----------------------------------------------------------------------------
\* approve_and_submit_apply: the decision on plan p and the admission of its
\* only apply task c are one transaction.  An already admitted plan returns
\* the existing task.
Approve(p, c, w) ==
  LET t == TaskOf(p) IN
  /\ plan[p] \in PlanOpen /\ planFresh[p] /\ LatestOpenPlan(p)
  /\ status[t] \in CanDecide
  /\ \A a \in Applies : target[a] # p
  /\ c \in Applies /\ WorkerReady(w)
  /\ plan' = [plan EXCEPT ![p] = "approved"]
  /\ approval' = Assign(approval, PendingOf({t}) \ scoped, "approved")
  /\ InsertTask(c, w, t, p, status)
  /\ UNCHANGED <<attempts, current, dismissed, launching, scoped, planExec, planFresh,
                 planPaths, preimage, journal, resolved, workerVars, resultVars,
                 claimVars, draftVars, fileVars, threadVars, watchVars, faults>>

\* _settle_closed_plan for each task of S, on the rows given: a task with
\* another open plan is left alone; its pending approvals are closed; an
\* unexpired claim defers the rest to the worker.  A terminal task only has its
\* approval waits closed, and is held again when effects are in doubt; any
\* other is settled together with its children.
Settled(S, closed, st, el, ex, ap, pl) ==
  LET busy(t)    == \E p \in PlansOf(t) : pl[p] \in PlanOpen \cup {"applying"}
      idle       == {t \in S : ~busy(t)}
      free       == {t \in idle : claim[t] # "held"}
      doubtful   == {t \in free : UnresolvedGiven(t, ex, pl, resolved, InDoubt)}
      waiting    == {t \in free : st[t] \notin TaskTerminal}
      children   == UNION {Children(t) : t \in waiting}
      never      == {c \in children : st[c] = "queued"}
      asked      == {c \in children : st[c] \in {"running", "cancelling"}}
      review(X)  == {e \in Executions : e[1] \in X /\ ex[e] = "awaiting_approval"}
      halted     == Assign(ex, {e \in Executions : e[1] \in asked /\ ex[e] = "running"},
                           "cancelling")
  IN [status    |-> Assign(Assign(Assign(Assign(st, never, "cancelled"),
                                         asked, "cancelling"),
                                  waiting \ doubtful, "cancelled"),
                           doubtful, "blocked"),
      eligible  |-> Assign(el, never \cup waiting, FALSE),
      execution |-> Assign(Assign(halted, review(free \ doubtful), "cancelled"),
                           review(doubtful), "lost"),
      approval  |-> Assign(ap, {e \in Executions : e[1] \in idle /\ ap[e] = "pending"},
                           closed)]

\* decide(revoke=True): the owner rejects or withdraws an open plan.
Revoke(p) ==
  LET after == [plan EXCEPT ![p] = "revoked"]
      s == Settled({TaskOf(p)}, "rejected", status, eligible, execution, approval, after)
  IN
  /\ plan[p] \in PlanOpen
  /\ plan' = after
  /\ status' = s.status /\ eligible' = s.eligible
  /\ execution' = s.execution /\ approval' = s.approval
  /\ UNCHANGED <<attempts, generation, current, parent, target, dismissed, sequence,
                 launching, runner, outcome, delivery, scoped, planExec, planFresh,
                 planPaths, preimage, journal, resolved, workerVars, claimVars,
                 draftVars, fileVars, threadVars, watchVars, faults>>

\* Terminal tasks that still show an execution awaiting approval.
Leftover(st, ex, pl) ==
  {t \in Tasks : /\ st[t] \in TaskTerminal
                 /\ \E e \in Executions : e[1] = t /\ ex[e] = "awaiting_approval"
                 /\ \A p \in PlansOf(t) : pl[p] \notin PlanOpen \cup {"applying"}}

\* settle_expired: the maintenance pass closes every expired open plan, then the
\* approval waits that terminal tasks still show.
SettleExpired ==
  LET expired == {p \in Plans : plan[p] \in PlanOpen /\ ~planFresh[p]}
      after   == Assign(plan, expired, "expired")
      s1 == Settled({TaskOf(p) : p \in expired}, "expired",
                    status, eligible, execution, approval, after)
      s2 == Settled(Leftover(s1.status, s1.execution, after), "rejected",
                    s1.status, s1.eligible, s1.execution, s1.approval, after)
  IN
  /\ expired # {} \/ Leftover(status, execution, plan) # {}
  /\ plan' = after
  /\ status' = s2.status /\ eligible' = s2.eligible
  /\ execution' = s2.execution /\ approval' = s2.approval
  /\ UNCHANGED <<attempts, generation, current, parent, target, dismissed, sequence,
                 launching, runner, outcome, delivery, scoped, planExec, planFresh,
                 planPaths, preimage, journal, resolved, workerVars, claimVars,
                 draftVars, fileVars, threadVars, watchVars, faults>>

\* The hour of a plan passes without a decision or before its application.
PlanExpires(p) ==
  /\ plan[p] \in PlanOpen \cup {"applying"} /\ planFresh[p]
  /\ planFresh' = [planFresh EXCEPT ![p] = FALSE]
  /\ UNCHANGED <<plan, planExec, planPaths, preimage, journal, resolved, workerVars,
                 taskVars, resultVars, reviewVars, claimVars, draftVars, fileVars,
                 threadVars, watchVars, faults>>

-----------------------------------------------------------------------------
\* require_eligible inside apply(): checked in the transaction that opens the
\* journal, under every file operation, and in the one that commits the plan.
ApplyEligible(e, p, expected) ==
  /\ LatestOpenPlan(p) /\ ~flag[e]
  /\ status[TaskOf(p)] \in CanDecide
  /\ OwnsExecution(e)
  /\ plan[p] = expected /\ planFresh[p]

Root(p) == Workspace[TaskOf(p)]

\* Mutants: an uncertain plan does not hold its workspace; a file is overwritten
\* whatever it holds.
NoRunningRival(p) == \A q \in Plans \ {p} : plan[q] = "applying" => Root(q) # Root(p)
AnyContent(p, x, now) == TRUE

\* No other plan has an unsettled application in the workspace of plan p.
NoRival(p) == \A q \in Plans \ {p} : plan[q] \in {"applying", "uncertain"} => Root(q) # Root(p)

\* The file is as the plan expects it: unchanged, or its own half-made creation.
Expected(p, x, now) == now = preimage[p][x] \/ (x \in Created /\ now = "partial")

\* The workspace lock and the transaction that journals all preimages.  A lock
\* held elsewhere is a plain OS error; a failed check leaves the plan as it is.
ApplyBegin(e) ==
  LET p == target[e[1]] IN
  /\ pc[e] = "begin"
  /\ IF lock[Root(p)] # None THEN
          /\ Conclude(e, "failed")
          /\ UNCHANGED <<plan, journal, lock>>
     ELSE IF /\ ApplyEligible(e, p, "approved")
             /\ NoRival(p)
             /\ \A x \in planPaths[p] : disk[Root(p)][x] = preimage[p][x]
     THEN /\ plan' = [plan EXCEPT ![p] = "applying"]
          /\ journal' = [journal EXCEPT ![p] = Assign(@, planPaths[p], "prepared")]
          /\ lock' = [lock EXCEPT ![Root(p)] = e]
          /\ pc' = [pc EXCEPT ![e] = "apply"]
          /\ UNCHANGED reply
     ELSE /\ Conclude(e, "blocked")
          /\ UNCHANGED <<plan, journal, lock>>
  /\ UNCHANGED <<planExec, planFresh, planPaths, preimage, resolved, disk, shown,
                 workerVars, taskVars, resultVars, reviewVars, claimVars, draftVars,
                 ThreadLocal, watchVars, faults>>

\* The loop over the files of plan p has come to x, not written yet.
Turn(p, x) ==
  /\ x \in planPaths[p] /\ journal[p][x] = "prepared" /\ disk[Root(p)][x] # p
  /\ \A y \in planPaths[p] \ {x} : journal[p][y] = "prepared" =>
                                     disk[Root(p)][y] \notin {"partial", p}

\* One guarded file operation on path x: the preimage is compared again and a
\* replacement lands whole; a creation appears first and is filled afterwards.
Mutate(e, x) ==
  LET p == target[e[1]]  root == Root(p)  now == disk[root][x] IN
  /\ pc[e] = "apply" /\ Turn(p, x)
  /\ ApplyEligible(e, p, "applying") /\ Expected(p, x, now)
  /\ disk' = [disk EXCEPT ![root][x] = IF x \in Created /\ now # "partial"
                                       THEN "partial" ELSE p]
  /\ UNCHANGED <<pc, reply, lock, shown, planVars, workerVars, taskVars, resultVars,
                 reviewVars, claimVars, draftVars, ThreadLocal, watchVars, faults>>

\* The application ends in the except branch: at a guard of one of its steps (the
\* last of a file comes after its content is written), at a file that is not as
\* expected, or at an operating-system error before or after a write.
ApplyBreaks(e) ==
  LET p == target[e[1]] IN
  /\ pc[e] = "apply"
  /\ \/ /\ \/ ~ApplyEligible(e, p, "applying")
           \/ \E x \in Paths : Turn(p, x) /\ ~Expected(p, x, disk[Root(p)][x])
        /\ reply' = [reply EXCEPT ![e] = "blocked"]
        /\ UNCHANGED faults
     \/ /\ Stall
        /\ reply' = [reply EXCEPT ![e] = "failed"]
  /\ pc' = [pc EXCEPT ![e] = "undo"]
  /\ UNCHANGED <<fileVars, planVars, workerVars, taskVars, resultVars, reviewVars,
                 claimVars, draftVars, ThreadLocal, watchVars>>

\* The separate update of the journal row once the file is written; it asks for
\* no ownership.
JournalApplied(e, x) ==
  LET p == target[e[1]] IN
  /\ pc[e] = "apply" /\ x \in planPaths[p] /\ journal[p][x] = "prepared"
  /\ disk[Root(p)][x] = p
  /\ journal' = [journal EXCEPT ![p][x] = "applied"]
  /\ UNCHANGED <<plan, planExec, planFresh, planPaths, preimage, resolved, pc, reply,
                 fileVars, workerVars, taskVars, resultVars, reviewVars, claimVars,
                 draftVars, ThreadLocal, watchVars, faults>>

\* Every file is journalled as applied: the plan and its draft are.
ApplyCommit(e) ==
  LET p == target[e[1]] IN
  /\ pc[e] = "apply"
  /\ \A x \in planPaths[p] : journal[p][x] = "applied"
  /\ ApplyEligible(e, p, "applying")
  /\ plan' = [plan EXCEPT ![p] = "applied"]
  /\ draft' = Assign(draft, {d \in Requests : draftPlan[d] = p /\ draft[d] = "ready"},
                     "applied")
  /\ lock' = [lock EXCEPT ![Root(p)] = None]
  /\ Conclude(e, "succeeded")
  /\ UNCHANGED <<planExec, planFresh, planPaths, preimage, journal, resolved, disk,
                 shown, draftFresh, draftRev, draftPlan, draftReads, draftTask,
                 snapshot, workerVars, taskVars, resultVars, reviewVars, claimVars,
                 ThreadLocal, watchVars, faults>>

\* Mutant: a plan none of whose files is journalled as applied may be tried again.
UndoLightly(e) ==
  LET p == target[e[1]] IN
  /\ pc[e] = "undo"
  /\ plan' = [plan EXCEPT ![p] = IF \A x \in planPaths[p] : journal[p][x] = "prepared"
                                 THEN "approved" ELSE "uncertain"]
  /\ lock' = [lock EXCEPT ![Root(p)] = None]
  /\ pc' = [pc EXCEPT ![e] = "finish"]
  /\ UNCHANGED <<planExec, planFresh, planPaths, preimage, journal, resolved, disk,
                 shown, reply, workerVars, taskVars, resultVars, reviewVars, claimVars,
                 draftVars, ThreadLocal, watchVars, faults>>

\* The except branch, still under the workspace lock: the plan is uncertain,
\* whatever it was, and the worker reports a held or a failed operation.
ApplyUndo(e) ==
  LET p == target[e[1]] IN
  /\ pc[e] = "undo"
  /\ plan' = [plan EXCEPT ![p] = "uncertain"]
  /\ lock' = [lock EXCEPT ![Root(p)] = None]
  /\ pc' = [pc EXCEPT ![e] = "finish"]
  /\ UNCHANGED <<planExec, planFresh, planPaths, preimage, journal, resolved, disk,
                 shown, reply, workerVars, taskVars, resultVars, reviewVars, claimVars,
                 draftVars, ThreadLocal, watchVars, faults>>

-----------------------------------------------------------------------------
\* Mutant: the journal is taken for the files.
Journalled(p) == {x \in planPaths[p] : journal[p][x] # "none"}

\* observe: the files that hold what plan p writes.  It reads one file after the
\* other; an outside edit of one commutes with the reading of another, so the
\* look is one step.
Observed(p) == {x \in planPaths[p] : disk[Root(p)][x] = p}

\* reconcile and resolve take the workspace lock and look at the files.
Observe(p) ==
  /\ plan[p] # "none" /\ lock[Root(p)] = None
  /\ lock' = [lock EXCEPT ![Root(p)] = p]
  /\ shown' = [shown EXCEPT ![p] = Observed(p)]
  /\ UNCHANGED <<disk, workerVars, taskVars, resultVars, reviewVars, claimVars,
                 planVars, draftVars, threadVars, watchVars, faults>>

LetGo(p) ==
  /\ plan[p] # "none" /\ lock[Root(p)] = p
  /\ lock' = [lock EXCEPT ![Root(p)] = None]
  /\ shown' = [shown EXCEPT ![p] = {}]

\* reconcile has noted its evidence; or resolve raises, because the files are not
\* those the owner has seen or the plan is not to be resolved; or its process dies.
Withdraw(p) ==
  /\ LetGo(p)
  /\ UNCHANGED <<disk, workerVars, taskVars, resultVars, reviewVars, claimVars,
                 planVars, draftVars, threadVars, watchVars, faults>>

\* resolve: once the evidence is what reconcile has shown to the owner, a
\* transaction records it.  Nothing is written to the files, nor are they read
\* again.
Resolve(p) ==
  LET t        == TaskOf(p)
      complete == shown[p] = planPaths[p]
      after    == [plan EXCEPT ![p] = IF complete THEN "applied" ELSE "reconciled"]
      related  == {c \in Applies : target[c] = p /\ status[c] \in {"blocked", "failed"}}
      known    == {e \in Executions : /\ execution[e] = "lost"
                                      /\ \/ e = planExec[p] /\ current[t] = e[2]
                                         \/ e[1] \in Children(t) /\ target[e[1]] = p}
      noted    == [resolved EXCEPT ![p] = @ \cup known]
      doubt(u) == UnresolvedGiven(u, execution, after, noted, InDoubt)
      settled  == {d \in Requests : draftPlan[d] = p /\ draft[d] = "ready" /\ ~doubt(t)}
  IN
  /\ \/ plan[p] \in {"applying", "uncertain"}
     \/ plan[p] = "applied" /\ status[t] # "completed"
  /\ LetGo(p)
  /\ \A u \in {t} \cup Children(t) : claim[u] # "held"
  /\ plan' = after
  /\ resolved' = noted
  /\ draft' = Assign(draft, settled, IF complete THEN "applied" ELSE "closed")
  /\ draftRev' = [d \in Requests |-> IF d \in settled THEN draftRev[d] + 1 ELSE draftRev[d]]
  /\ status' = [u \in Tasks |->
       IF u = t THEN IF complete /\ ~doubt(t) THEN "completed" ELSE "blocked"
       ELSE IF u \in related
            THEN IF doubt(u) THEN "blocked" ELSE IF complete THEN "completed" ELSE "cancelled"
       ELSE status[u]]
  /\ eligible' = [eligible EXCEPT ![t] = FALSE]
  /\ UNCHANGED <<attempts, generation, current, parent, target, dismissed, sequence,
                 launching, planExec, planFresh, planPaths, preimage, journal,
                 draftFresh, draftPlan, draftReads, draftTask, snapshot, workerVars,
                 resultVars, reviewVars, claimVars, disk, threadVars, watchVars,
                 faults>>

\* Another program edits a file of the workspace.  An edit that hits a file while
\* an apply is writing it is outside the contract (docs/p0_execution, File
\* contracts: operating procedure must prevent it).
OutsideEdit(s, x) ==
  /\ Stall
  /\ lock[s] \in Executions => disk[s][x] \notin {"partial"} \cup Plans
  /\ disk[s][x] # "edited"
  /\ disk' = [disk EXCEPT ![s][x] = "edited"]
  /\ UNCHANGED <<lock, shown, workerVars, taskVars, resultVars, reviewVars, claimVars,
                 planVars, draftVars, threadVars, watchVars>>
=============================================================================

--------------------------- MODULE OperationLedger ---------------------------
(***************************************************************************)
(* The SQLite ledger every process of the agent shares, as the operation   *)
(* engine uses it: one variable per column (or per group of columns that   *)
(* are always written together), the predicates that the transactions of   *)
(* operation_store, work_queue, work_drafts and reviewed_changes evaluate, *)
(* and the initial, empty ledger.  The modules that EXTEND this one hold   *)
(* the transactions themselves; every transaction opens with BEGIN         *)
(* IMMEDIATE (or is a single statement), so it is one atomic action.       *)
(*                                                                         *)
(* Time is abstracted to what the code compares it with: a heartbeat is    *)
(* fresh or not (30 s), a claim is held or expired (30 s), a plan or a     *)
(* draft is fresh or not (1 h, 30 d).  One owner is modelled; requests and *)
(* reviewed applies draw their identifiers from two disjoint pools, so the *)
(* pool is the `kind' of the operation's spec.                             *)
(***************************************************************************)
EXTENDS Integers, FiniteSets

CONSTANTS
  Requests,       \* task ids of operations with kind = "request"
  Applies,        \* task ids of operations with kind = "apply"
  Plans,          \* change-plan ids
  Workers,        \* worker generations
  Watchers,       \* delivery threads of the connectors' operation services
  Existing,       \* files of a workspace that a plan may modify
  Names,          \* names of new files
  Workspaces,     \* registered workspace roots
  Conversations,  \* conversation sessions
  Workspace,      \* [Requests -> Workspaces]: where a request runs
  Conversation,   \* [Requests -> Conversations]: the session of its turn
  None,           \* SQL NULL
  Slots,          \* NYANYA_WORKER_CONCURRENCY
  MaxAttempts,    \* task_operations.max_attempts
  MaxFaults       \* bound on stalls, crashes and outside edits of a behaviour

Tasks      == Requests \cup Applies
\* One more execution than attempts: a failed worker start records one too.
MaxExecs   == MaxAttempts + 1
Executions == Tasks \X (1 .. MaxExecs)
\* A draft creates files only in its own directory, nyanya-tasks/drafts/<draft id>.
Created    == Requests \X Names
Paths      == Existing \cup Created

ASSUME LedgerAssumption ==
  /\ IsFiniteSet(Requests) /\ Requests \cap Applies = {}
  /\ Existing \cap Created = {}
  /\ Workspace \in [Requests -> Workspaces]
  /\ Conversation \in [Requests -> Conversations]
  /\ None \notin Tasks \cup Plans \cup Workers \cup Executions
  /\ Plans \cap Tasks = {} /\ Plans \cap Executions = {}
  /\ Plans \cap {"absent", "original", "edited", "partial"} = {}  \* see Content
  /\ Slots \in Nat \ {0}
  /\ MaxAttempts \in Nat \ {0}
  /\ MaxFaults \in Nat

VARIABLES
  \* operation_workers, and the worker processes behind the rows
  registered,   \* "absent", "open" or "closed"
  fresh,        \* heartbeat_at is within 30 s
  process,      \* "absent", "up", "stopping" (stop event set), "gone",
                \* or "unlaunched": registered for a launch that failed
  \* agent_tasks joined with task_operations
  status, eligible, attempts,
  generation,   \* worker_generation
  current,      \* number of current_execution_id, 0 for NULL
  parent,       \* parent_task_id
  target,       \* spec.plan_id of an apply, spec.draft_id of a request
  dismissed,    \* tasks with user_disposition = dismissed
  sequence,     \* conversation turn number, 0 before submission
  launching,    \* tasks whose submitter still has to record a failed launch
  \* executions, task_results, approvals: at most one row each per execution
  execution,    \* executions.status, "none" before the row exists
  runner,       \* metadata.worker_id, also task_claims.worker_id
  outcome,      \* task_results.outcome, "none" before the row exists
  delivery,     \* task_results.delivery_status
  approval,     \* approvals.status
  scoped,       \* executions whose approval has action draft.read_scope
  \* task_claims: one row per task
  claim,        \* "none", "held", "expired" (both released=0) or "released"
  claimExec,    \* number of the claim's execution_id
  \* change_plans and change_journal
  plan,         \* change_plans.status
  planExec,     \* the execution that proposed the plan
  planFresh,    \* expires_at is in the future
  planPaths,    \* the paths of changes_json
  preimage,     \* what before_hash was computed from, per path
  journal,      \* per path: "none", "prepared" or "applied"
  resolved,     \* resolved_execution_ids of its plan.resolved event
  \* operation_drafts, keyed by source_task_id
  draft, draftFresh,
  draftRev,     \* revision
  draftPlan,    \* plan_id
  draftReads,   \* paths_json is not empty
  draftTask,    \* open_task_id
  snapshot,     \* snapshot_json: the copied content, per path
  \* the workspaces' files, the apply-locks directory with the execution or the
  \* plan each lock is held for, and the evidence that observe() has collected:
  \* the files that were found as the plan leaves them
  disk, lock, shown,
  \* executor threads of the worker processes, one per claimed execution
  pc, flag,     \* program counter; the cancel event
  reply,        \* the TaskOutcome about to be committed
  seen,         \* revision of the draft the thread loaded
  using,        \* source task of the draft the thread loaded
  \* delivery threads of the connectors
  watcher,      \* per thread: its step and what it watches
  sent,         \* how often the responder was called with an execution's result
  faults        \* stalls, crashes and edits so far

workerVars == <<registered, fresh, process>>
taskVars   == <<status, eligible, attempts, generation, current, parent, target,
                dismissed, sequence, launching>>
resultVars == <<execution, runner, outcome, delivery>>
reviewVars == <<approval, scoped>>
claimVars  == <<claim, claimExec>>
planVars   == <<plan, planExec, planFresh, planPaths, preimage, journal, resolved>>
draftVars  == <<draft, draftFresh, draftRev, draftPlan, draftReads, draftTask,
                snapshot>>
fileVars   == <<disk, lock, shown>>
threadVars == <<pc, flag, reply, seen, using>>
watchVars  == <<watcher, sent>>
vars       == <<workerVars, taskVars, resultVars, reviewVars, claimVars, planVars,
                draftVars, fileVars, threadVars, watchVars, faults>>

-----------------------------------------------------------------------------
TaskStatus == {"none", "queued", "running", "cancelling", "awaiting_approval",
               "blocked", "completed", "failed", "cancelled"}
Outcomes   == {"succeeded", "failed", "timed_out", "cancelled",
               "awaiting_approval", "blocked"}
ExecTerminal == {"succeeded", "failed", "cancelled", "timed_out", "lost"}
ExecStatus == ExecTerminal \cup {"none", "running", "cancelling", "awaiting_approval"}
PlanStatus == {"none", "pending", "approved", "revoked", "expired", "applying",
               "uncertain", "applied", "reconciled"}
\* A file holds its original bytes, an outside edit, a half-written creation,
\* or what a plan wrote; a missing file is "absent".
Content    == {"absent", "original", "edited", "partial"} \cup Plans
Threads    == {"none", "start", "model", "scope", "draft", "propose", "clear", "preview",
               "begin", "apply", "undo", "settle", "finish", "done", "dead"}
\* A delivery thread: the task and attempt it was started for, and the execution
\* whose result it has read (0 before).
NotWatching == [step |-> "idle", task |-> None, attempt |-> 0, number |-> 0]
Watching    == [step : {"poll", "claim", "send", "delivered", "uncertain"},
                task : Tasks, attempt : 0 .. MaxAttempts, number : 0 .. MaxExecs]
               \cup {NotWatching}
TaskTerminal == {"completed", "failed", "cancelled"}

\* The type invariant, by the groups of columns the transactions write.
WorkerTypeOK ==
  /\ registered \in [Workers -> {"absent", "open", "closed"}]
  /\ fresh \in [Workers -> BOOLEAN]
  /\ process \in [Workers -> {"absent", "up", "stopping", "gone", "unlaunched"}]
TaskTypeOK ==
  /\ status \in [Tasks -> TaskStatus]
  /\ eligible \in [Tasks -> BOOLEAN]
  /\ attempts \in [Tasks -> 0 .. MaxAttempts]
  /\ generation \in [Tasks -> Workers \cup {None}]
  /\ current \in [Tasks -> 0 .. MaxExecs]
  /\ parent \in [Tasks -> Requests \cup {None}]
  /\ target \in [Tasks -> Requests \cup Plans \cup {None}]
  /\ dismissed \subseteq Tasks
  /\ sequence \in [Tasks -> Nat]
  /\ launching \subseteq Tasks
ResultTypeOK ==
  /\ execution \in [Executions -> ExecStatus]
  /\ runner \in [Executions -> Workers \cup {None}]
  /\ outcome \in [Executions -> Outcomes \cup {"none"}]
  /\ delivery \in [Executions -> {"none", "pending", "sending", "delivered",
                                  "uncertain", "acknowledged"}]
ReviewTypeOK ==
  /\ approval \in [Executions -> {"none", "pending", "approved", "rejected", "expired"}]
  /\ scoped \subseteq Executions
ClaimTypeOK ==
  /\ claim \in [Tasks -> {"none", "held", "expired", "released"}]
  /\ claimExec \in [Tasks -> 0 .. MaxExecs]
PlanTypeOK ==
  /\ plan \in [Plans -> PlanStatus]
  /\ planExec \in [Plans -> Executions \cup {None}]
  /\ planFresh \in [Plans -> BOOLEAN]
  /\ planPaths \in [Plans -> SUBSET Paths]
  /\ preimage \in [Plans -> [Paths -> Content]]
  /\ journal \in [Plans -> [Paths -> {"none", "prepared", "applied"}]]
  /\ resolved \in [Plans -> SUBSET Executions]
DraftTypeOK ==
  /\ draft \in [Requests -> {"none", "pending", "ready", "closed", "applied"}]
  /\ draftFresh \in [Requests -> BOOLEAN]
  /\ draftRev \in [Requests -> Nat]
  /\ draftPlan \in [Requests -> Plans \cup {None}]
  /\ draftReads \in [Requests -> BOOLEAN]
  /\ draftTask \in [Requests -> Requests \cup {None}]
  /\ snapshot \in [Requests -> [Paths -> Content]]
FileTypeOK ==
  /\ disk \in [Workspaces -> [Paths -> Content]]
  /\ lock \in [Workspaces -> Executions \cup Plans \cup {None}]
  /\ shown \in [Plans -> SUBSET Paths]
ThreadTypeOK ==
  /\ pc \in [Executions -> Threads]
  /\ flag \in [Executions -> BOOLEAN]
  /\ reply \in [Executions -> Outcomes \cup {"none"}]
  /\ seen \in [Executions -> Nat]
  /\ using \in [Executions -> Requests \cup {None}]
WatchTypeOK ==
  /\ watcher \in [Watchers -> Watching]
  /\ sent \in [Executions -> Nat]
TypeOK == /\ WorkerTypeOK /\ TaskTypeOK /\ ResultTypeOK /\ ReviewTypeOK /\ ClaimTypeOK
          /\ PlanTypeOK /\ DraftTypeOK /\ FileTypeOK /\ ThreadTypeOK /\ WatchTypeOK
          /\ faults \in 0 .. MaxFaults

Init ==
  /\ registered = [w \in Workers |-> "absent"]
  /\ fresh = [w \in Workers |-> FALSE]
  /\ process = [w \in Workers |-> "absent"]
  /\ status = [t \in Tasks |-> "none"]
  /\ eligible = [t \in Tasks |-> FALSE]
  /\ attempts = [t \in Tasks |-> 0]
  /\ generation = [t \in Tasks |-> None]
  /\ current = [t \in Tasks |-> 0]
  /\ parent = [t \in Tasks |-> None]
  /\ target = [t \in Tasks |-> None]
  /\ dismissed = {}
  /\ sequence = [t \in Tasks |-> 0]
  /\ launching = {}
  /\ execution = [e \in Executions |-> "none"]
  /\ runner = [e \in Executions |-> None]
  /\ outcome = [e \in Executions |-> "none"]
  /\ delivery = [e \in Executions |-> "none"]
  /\ approval = [e \in Executions |-> "none"]
  /\ scoped = {}
  /\ claim = [t \in Tasks |-> "none"]
  /\ claimExec = [t \in Tasks |-> 0]
  /\ plan = [p \in Plans |-> "none"]
  /\ planExec = [p \in Plans |-> None]
  /\ planFresh = [p \in Plans |-> FALSE]
  /\ planPaths = [p \in Plans |-> {}]
  /\ preimage = [p \in Plans |-> [x \in Paths |-> "absent"]]
  /\ journal = [p \in Plans |-> [x \in Paths |-> "none"]]
  /\ resolved = [p \in Plans |-> {}]
  /\ draft = [d \in Requests |-> "none"]
  /\ draftFresh = [d \in Requests |-> FALSE]
  /\ draftRev = [d \in Requests |-> 0]
  /\ draftPlan = [d \in Requests |-> None]
  /\ draftReads = [d \in Requests |-> FALSE]
  /\ draftTask = [d \in Requests |-> None]
  /\ snapshot = [d \in Requests |-> [x \in Paths |-> "absent"]]
  /\ disk = [s \in Workspaces |->
               [x \in Paths |-> IF x \in Created THEN "absent" ELSE "original"]]
  /\ lock = [s \in Workspaces |-> None]
  /\ shown = [p \in Plans |-> {}]
  /\ pc = [e \in Executions |-> "none"]
  /\ flag = [e \in Executions |-> FALSE]
  /\ reply = [e \in Executions |-> "none"]
  /\ seen = [e \in Executions |-> 0]
  /\ using = [e \in Executions |-> None]
  /\ watcher = [k \in Watchers |-> NotWatching]
  /\ sent = [e \in Executions |-> 0]
  /\ faults = 0

-----------------------------------------------------------------------------
\* UPDATE f SET value = v WHERE key IN S.
Assign(f, S, v) == [x \in DOMAIN f |-> IF x \in S THEN v ELSE f[x]]

ExecutionsOf(t) == {e \in Executions : e[1] = t /\ execution[e] # "none"}
CurrentOf(S)    == {e \in Executions : e[1] \in S /\ e[2] = current[e[1]]}
PlansOf(t)      == {p \in Plans : planExec[p] # None /\ planExec[p][1] = t}
TaskOf(p)       == planExec[p][1]
Children(t)     == {c \in Tasks : parent[c] = t}

WorkspaceOf(t) == IF t \in Requests THEN Workspace[t]
                  ELSE Workspace[parent[t]]

\* released = 0, whatever the lease says.
Claimed(t)     == claim[t] \in {"held", "expired"}

\* The row exists, is not closed, and its heartbeat is within 30 seconds.
WorkerReady(w) == w \in Workers /\ registered[w] = "open" /\ fresh[w]

\* require_execution_ownership: the current, running execution of an eligible
\* running task under an unexpired claim of its ready worker generation.
OwnsExecution(e) ==
  LET t == e[1] IN
  /\ status[t] = "running" /\ eligible[t]
  /\ current[t] = e[2] /\ execution[e] = "running"
  /\ claim[t] = "held" /\ claimExec[t] = e[2]
  /\ runner[e] = generation[t] /\ WorkerReady(generation[t])

\* work_queue.renew succeeds for the record of execution e.
Renewable(e) == claim[e[1]] = "held" /\ claimExec[e[1]] = e[2]

\* _unresolved_effects over given executions, plans and plan resolutions.  An
\* apply child answers for itself under its parent's resolutions; any other task
\* answers for its children as well.
UnresolvedGiven(t, ex, pl, res, counted) ==
  LET answering == IF t \in Applies /\ parent[t] # None THEN parent[t] ELSE t
      settled(e) == \E p \in PlansOf(answering) :
                       pl[p] \in {"applied", "reconciled"} /\ e \in res[p]
  IN \E u \in {t} \cup (IF answering = t THEN Children(t) ELSE {}) :
       \/ \E e \in Executions : e[1] = u /\ ex[e] \in counted
                                /\ ~(ex[e] = "lost" /\ settled(e))
       \/ \E p \in PlansOf(u) :
            \/ pl[p] \in {"applying", "uncertain"}
            \/ /\ pl[p] \notin {"applied", "reconciled"}
               /\ \E x \in Paths : journal[p][x] # "none"

InDoubt == {"lost", "running", "cancelling"}
Unresolved(t)       == UnresolvedGiven(t, execution, plan, resolved, InDoubt)
UnresolvedActive(t) == UnresolvedGiven(t, execution, plan, resolved, InDoubt \ {"lost"})

\* The draft a plan of task t belongs to: the one named by its spec, else its own.
DraftOf(t) == IF t \in Requests /\ target[t] # None THEN target[t] ELSE t

\* require_plan_conn: only the latest plan of an open draft can be decided or applied.
LatestOpenPlan(p) ==
  LET d == DraftOf(TaskOf(p)) IN draft[d] # "none" => draft[d] = "ready" /\ draftPlan[d] = p

\* Mutant: only the turns still queued are earlier work.
EarlierQueued(t) ==
  t \in Requests /\ \E u \in Requests \ {t} :
    Conversation[u] = Conversation[t] /\ sequence[u] < sequence[t] /\ status[u] = "queued"

\* has_earlier_work_conn: an active turn of the session blocks both directions,
\* a claimable earlier turn keeps its place.
EarlierWork(t) ==
  /\ t \in Requests
  /\ \E u \in Requests \ {t} :
       /\ Conversation[u] = Conversation[t]
       /\ \/ status[u] \in {"running", "cancelling"}
          \/ /\ sequence[u] < sequence[t]
             /\ status[u] = "queued" /\ eligible[u] /\ attempts[u] < MaxAttempts

\* The number bind_conn gives to the next turn of t's session.
NextSequence(t) == 1 + Cardinality({u \in Requests : Conversation[u] = Conversation[t]
                                                     /\ sequence[u] > 0})
Stall == faults < MaxFaults /\ faults' = faults + 1
=============================================================================

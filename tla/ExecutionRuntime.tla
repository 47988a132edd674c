--------------------------- MODULE ExecutionRuntime ---------------------------
(***************************************************************************)
(* The command coordinator: ExecutionCoordinator of execution_runtime,     *)
(* over the adapters, the runner process that writes the completion marker *)
(* and the tables executions, runtime_sessions, approvals and              *)
(* writer_leases.  The calls of one coordinator run in the threads of its  *)
(* process (the API serves each request in a thread of a pool); several    *)
(* processes may have a coordinator over the same ledger.  Each database   *)
(* transaction, each look at a process or marker and each signal is an     *)
(* action of its own; a call that raises ends its thread's work.           *)
(*                                                                         *)
(* Time: a lease is live, expired or released; an approval is fresh or     *)
(* not; whether an attempt is over its time limit is a choice at the time  *)
(* it is asked.  A command's scope is its task and the resource it writes. *)
(***************************************************************************)
EXTENDS Integers, FiniteSets

CONSTANTS
  Tasks,          \* tasks outside the operation engine
  Coordinators,   \* processes with an ExecutionCoordinator
  Callers,        \* threads that start commands
  Servers,        \* threads of the API, which reconciles and cancels
  Home,           \* [Threads -> Coordinators]
  Adapters,       \* the adapter types in use
  Resources,      \* write_resource_key
  Approvals,      \* approval ids
  None,           \* SQL NULL
  MaxExecutions,  \* bound on the executions of a behaviour
  MaxFaults       \* bound on crashes, dying runners and processes that resist

Execs   == 1 .. MaxExecutions
Threads == Callers \cup Servers

ASSUME RuntimeAssumption ==
  /\ Home \in [Threads -> Coordinators]
  /\ Adapters \subseteq {"subprocess", "tmux"}
  /\ None \notin Tasks \cup Coordinators \cup Resources \cup Approvals
  /\ MaxExecutions \in Nat
  /\ MaxFaults \in Nat

VARIABLES
  taskStatus, current,       \* agent_tasks: status, current_execution_id (0: NULL)
  created,                   \* how many executions exist; their ids are 1, 2, ...
  exec,                      \* executions.status, "none" before the row exists
  args,                      \* task_id, adapter_type, resource and approval of a row
  held,                      \* metadata.writer_lease.fence_token of a row, 0 if none
  session,                   \* status of the row runtime_<id> of runtime_sessions
  approval,                  \* approvals: status, task and resource, expiry
  lease,                     \* writer_leases: owner, fence token, state
  runner,                    \* the adapter_runner process of an execution
  marker,                    \* what it has written to its status.json
  child,                     \* the coordinator whose adapter holds the runner's Popen
  step, goal, job, on,       \* of a thread: place, call, arguments, execution
  seen, found, token, todo,  \* its locals: row active, observation, lease, list
  faults

taskVars   == <<taskStatus, current>>
rowVars    == <<created, exec, args, held>>
procVars   == <<runner, marker, child>>
callVars   == <<goal, job, on>>
localVars  == <<seen, found, token, todo>>
vars       == <<taskVars, rowVars, session, approval, lease, procVars, step, callVars,
                localVars, faults>>

-----------------------------------------------------------------------------
Terminal == {"succeeded", "failed", "cancelled", "timed_out", "lost"}
\* ACTIVE_EXECUTION_STATUSES that these rows reach: no adapter reports a running
\* process as stale, and the approvals of commands name a task, not an execution.
Active   == {"starting", "running", "cancelling"}
Statuses == Terminal \cup Active
Successors(s) ==
  CASE s = "starting"   -> {"running", "cancelling", "failed", "cancelled", "timed_out"}
    [] s = "running"    -> {"cancelling", "succeeded", "failed", "cancelled", "timed_out"}
    [] s = "cancelling" -> {"cancelled", "failed", "timed_out", "lost"}
    [] OTHER            -> {}
TaskFor(s) ==
  CASE s \in {"starting", "running"}         -> "running"
    [] s = "succeeded"                       -> "completed"
    [] s \in {"failed", "timed_out", "lost"} -> "failed"
    [] s = "cancelled"                       -> "cancelled"

Steps == {"idle", "create", "acquire", "refuse", "record", "consume", "launch", "fail",
          "session", "run", "next", "look", "missing", "marker", "alive", "beat",
          "cancelling", "kill", "settle", "close", "unlock", "task"}
Jobs  == [task : Tasks \cup {None}, adapter : Adapters \cup {None},
          resource : Resources \cup {None}, approval : Approvals \cup {None}]
NoJob == [task |-> None, adapter |-> None, resource |-> None, approval |-> None]

RowTypeOK ==
  /\ taskStatus \in [Tasks -> {"queued", "running", "awaiting_approval", "blocked",
                               "completed", "failed", "cancelled"}]
  /\ created \in 0 .. MaxExecutions
  /\ current \in [Tasks -> 0 .. created]
  /\ exec \in [Execs -> Statuses \cup {"none"}]
  /\ args \in [Execs -> Jobs]
  /\ held \in [Execs -> Nat]
StoreTypeOK ==
  /\ session \in [Execs -> {"none", "running", "stopped", "failed", "cancelled"}]
  /\ approval \in [Approvals ->
       [status : {"none", "pending", "approved", "rejected", "consumed", "expired"},
        task : Tasks \cup {None}, resource : Resources \cup {None}, fresh : BOOLEAN]]
  /\ lease \in [Resources -> [owner : 0 .. created, fence : Nat,
                              state : {"free", "live", "expired"}]]
ProcessTypeOK ==
  /\ runner \in [Execs -> {"none", "alive", "exited", "gone"}]
  /\ marker \in [Execs -> {"none", "succeeded", "failed"}]
  /\ child \in [Execs -> Coordinators \cup {None}]
  /\ faults \in 0 .. MaxFaults
ThreadTypeOK ==
  /\ step \in [Threads -> Steps]
  /\ goal \in [Threads -> {"none", "start", "recover", "timeout", "cancel"}]
  /\ job \in [Threads -> Jobs]
  /\ on \in [Threads -> 0 .. created]
  /\ seen \in [Threads -> BOOLEAN]
  /\ found \in [Threads -> Terminal \cup {"none"}]
  /\ token \in [Threads -> Nat]
  /\ todo \in [Threads -> SUBSET (1 .. created)]
RuntimeTypeOK == RowTypeOK /\ StoreTypeOK /\ ProcessTypeOK /\ ThreadTypeOK

Init ==
  /\ taskStatus = [t \in Tasks |-> "queued"]
  /\ current = [t \in Tasks |-> 0]
  /\ created = 0
  /\ exec = [x \in Execs |-> "none"]
  /\ args = [x \in Execs |-> NoJob]
  /\ held = [x \in Execs |-> 0]
  /\ session = [x \in Execs |-> "none"]
  /\ approval = [a \in Approvals |-> [status |-> "none", task |-> None,
                                      resource |-> None, fresh |-> FALSE]]
  /\ lease = [r \in Resources |-> [owner |-> 0, fence |-> 0, state |-> "free"]]
  /\ runner = [x \in Execs |-> "none"]
  /\ marker = [x \in Execs |-> "none"]
  /\ child = [x \in Execs |-> None]
  /\ step = [h \in Threads |-> "idle"]
  /\ goal = [h \in Threads |-> "none"]
  /\ job = [h \in Threads |-> NoJob]
  /\ on = [h \in Threads |-> 0]
  /\ seen = [h \in Threads |-> FALSE]
  /\ found = [h \in Threads |-> "none"]
  /\ token = [h \in Threads |-> 0]
  /\ todo = [h \in Threads |-> {}]
  /\ faults = 0

-----------------------------------------------------------------------------
\* Control of a thread.
Goto(h, s)    == step' = [step EXCEPT ![h] = s]
Proceed(h, s) == Goto(h, s) /\ UNCHANGED <<callVars, localVars>>
Without(f, H, v) == [h \in Threads |-> IF h \in H THEN v ELSE f[h]]
\* The threads in H return to their callers, or raise to them.
Return(H) ==
  /\ step'  = Without(step, H, "idle")
  /\ goal'  = Without(goal, H, "none")
  /\ job'   = Without(job, H, NoJob)
  /\ on'    = Without(on, H, 0)
  /\ seen'  = Without(seen, H, FALSE)
  /\ found' = Without(found, H, "none")
  /\ token' = Without(token, H, 0)
  /\ todo'  = Without(todo, H, {})
\* observe returns to recover_active, which goes on with its list.
Observed(h) ==
  /\ Goto(h, "next")
  /\ on' = [on EXCEPT ![h] = 0]
  /\ goal' = [goal EXCEPT ![h] = "recover"]
  /\ seen' = [seen EXCEPT ![h] = FALSE]
  /\ found' = [found EXCEPT ![h] = "none"]
  /\ token' = [token EXCEPT ![h] = 0]
  /\ UNCHANGED <<job, todo>>

\* transition_execution: only the current execution of a task, and never out of
\* a terminal status, whatever `force' says; otherwise it raises.
\* Mutant: `force' leaves a terminal status too.
MayLeave(x, s, force) ==
  /\ current[args[x].task] = x
  /\ force \/ s = exec[x] \/ s \in Successors(exec[x])
May(x, s, force) ==
  /\ current[args[x].task] = x
  /\ exec[x] \in Terminal => s = exec[x]
  /\ force \/ s = exec[x] \/ s \in Successors(exec[x])
Write(x, s) ==
  /\ exec' = [exec EXCEPT ![x] = s]
  /\ taskStatus' = IF s = "cancelling" THEN taskStatus
                   ELSE [taskStatus EXCEPT ![args[x].task] = TaskFor(s)]
  /\ UNCHANGED <<current, created, args>>
Refused == UNCHANGED <<taskVars, created, exec, args>>

\* check_approval
Approved(a, t, r) == approval[a] = [status |-> "approved", task |-> t,
                                    resource |-> r, fresh |-> TRUE]

-----------------------------------------------------------------------------
(* start_command *)
Start(h, j) ==
  /\ step[h] = "idle"
  /\ None \notin {j.task, j.adapter} /\ (j.resource = None <=> j.approval = None)
  /\ j.resource # None => Approved(j.approval, j.task, j.resource)
  /\ Goto(h, "create")
  /\ goal' = [goal EXCEPT ![h] = "start"]
  /\ job' = [job EXCEPT ![h] = j]
  /\ UNCHANGED <<taskVars, rowVars, session, approval, lease, procVars, on, localVars,
                 faults>>

Create(h) ==
  /\ step[h] = "create"
  /\ created < MaxExecutions
  /\ created' = created + 1
  /\ exec' = [exec EXCEPT ![created + 1] = "starting"]
  /\ args' = [args EXCEPT ![created + 1] = job[h]]
  /\ current' = [current EXCEPT ![job[h].task] = created + 1]
  /\ on' = [on EXCEPT ![h] = created + 1]
  /\ Goto(h, IF job[h].resource = None THEN "launch" ELSE "acquire")
  /\ UNCHANGED <<taskStatus, held, session, approval, lease, procVars, goal, job,
                 localVars, faults>>

\* acquire_writer_lease; the owner is an execution, so it never asks twice.
Free(r) == lease[r].state # "live"
Acquire(h) ==
  LET r == job[h].resource IN
  /\ step[h] = "acquire"
  /\ \/ /\ Free(r)
        /\ lease' = [lease EXCEPT ![r] = [owner |-> on[h], fence |-> @.fence + 1,
                                          state |-> "live"]]
        /\ token' = [token EXCEPT ![h] = lease[r].fence + 1]
        /\ Goto(h, "record")
     \/ /\ ~ Free(r)
        /\ Goto(h, "refuse")
        /\ UNCHANGED <<lease, token>>
  /\ UNCHANGED <<taskVars, rowVars, session, approval, procVars, callVars, seen, found,
                 todo, faults>>

Refuse(h) ==
  /\ step[h] = "refuse"
  /\ IF May(on[h], "failed", FALSE) THEN Write(on[h], "failed") ELSE Refused
  /\ Return({h})
  /\ UNCHANGED <<held, session, approval, lease, procVars, faults>>

RecordLease(h) ==
  /\ step[h] = "record"
  /\ \/ /\ May(on[h], "starting", FALSE)
        /\ Write(on[h], "starting")
        /\ held' = [held EXCEPT ![on[h]] = token[h]]
        /\ Proceed(h, "consume")
     \/ /\ ~ May(on[h], "starting", FALSE)
        /\ Refused
        /\ Return({h})
        /\ UNCHANGED held
  /\ UNCHANGED <<session, approval, lease, procVars, faults>>

\* check_approval with an execution_id: the check and the mark are one transaction.
\* Mutant: the approval is not marked.
Unspent(a) == approval
Spent(a)   == [approval EXCEPT ![a].status = "consumed"]
Consume(h) ==
  LET j == job[h] IN
  /\ step[h] = "consume"
  /\ \/ /\ Approved(j.approval, j.task, j.resource)
        /\ approval' = Spent(j.approval)
        /\ Proceed(h, "launch")
     \/ /\ ~ Approved(j.approval, j.task, j.resource)
        /\ Proceed(h, "fail")
        /\ UNCHANGED approval
  /\ UNCHANGED <<taskVars, rowVars, session, lease, procVars, faults>>

\* adapter.start.  tmux new-session may pass its ten seconds and still have worked.
Launched(h) ==
  LET x == on[h] IN
  /\ runner' = [runner EXCEPT ![x] = "alive"]
  /\ child' = [child EXCEPT ![x] = IF job[h].adapter = "tmux" THEN None ELSE Home[h]]
  /\ UNCHANGED marker
Launch(h) ==
  /\ step[h] = "launch"
  /\ \/ Launched(h) /\ Proceed(h, "session") /\ UNCHANGED faults
     \/ Proceed(h, "fail") /\ UNCHANGED <<procVars, faults>>
     \/ /\ job[h].adapter = "tmux" /\ faults < MaxFaults
        /\ faults' = faults + 1
        /\ Launched(h) /\ Proceed(h, "fail")
  /\ UNCHANGED <<taskVars, rowVars, session, approval, lease>>

Fail(h) ==
  /\ step[h] = "fail"
  /\ \/ /\ May(on[h], "failed", FALSE)
        /\ Write(on[h], "failed")
        /\ Goto(h, "unlock")
        /\ token' = [token EXCEPT ![h] = held[on[h]]]
        /\ UNCHANGED <<callVars, seen, found, todo>>
     \/ /\ ~ May(on[h], "failed", FALSE)
        /\ Refused
        /\ Return({h})
  /\ UNCHANGED <<held, session, approval, lease, procVars, faults>>

\* heartbeat_runtime_session inserts or overwrites the row without looking at it.
Session(h) ==
  /\ step[h] = "session"
  /\ session' = [session EXCEPT ![on[h]] = "running"]
  /\ Proceed(h, "run")
  /\ UNCHANGED <<taskVars, rowVars, approval, lease, procVars, faults>>

Run(h) ==
  /\ step[h] = "run"
  /\ IF May(on[h], "running", FALSE) THEN Write(on[h], "running") ELSE Refused
  /\ Return({h})
  /\ UNCHANGED <<held, session, approval, lease, procVars, faults>>

-----------------------------------------------------------------------------
(* recover_active and, for each execution of its list, observe *)
Recover(h) ==
  /\ step[h] = "idle"
  /\ \E x \in 1 .. created : exec[x] \in Active
  /\ todo' = [todo EXCEPT ![h] = {x \in 1 .. created : exec[x] \in Active}]
  /\ goal' = [goal EXCEPT ![h] = "recover"]
  /\ Goto(h, "next")
  /\ UNCHANGED <<taskVars, rowVars, session, approval, lease, procVars, job, on, seen,
                 found, token, faults>>

\* get_execution of the newest that is left; the list is ordered by created_at.
Observe(h, x) ==
  /\ step[h] = "next"
  /\ x \in todo[h] /\ \A y \in todo[h] : y <= x
  /\ on' = [on EXCEPT ![h] = x]
  /\ todo' = [todo EXCEPT ![h] = @ \ {x}]
  /\ seen' = [seen EXCEPT ![h] = exec[x] \in Active]
  /\ Goto(h, "look")
  /\ UNCHANGED <<taskVars, rowVars, session, approval, lease, procVars, goal, job, found,
                 token, faults>>

Recovered(h) ==
  /\ step[h] = "next" /\ todo[h] = {}
  /\ Return({h})
  /\ UNCHANGED <<taskVars, rowVars, session, approval, lease, procVars, faults>>

\* _session_for_execution, for observe and for cancel.  An attempt over its limit
\* is stopped, not observed.
Look(h) ==
  LET there == session[on[h]] # "none" IN
  /\ step[h] = "look"
  /\ \/ /\ ~ there
        /\ IF seen[h] THEN Proceed(h, "missing") ELSE Observed(h)
     \/ there /\ goal[h] = "cancel" /\ Proceed(h, "cancelling")
     \/ there /\ goal[h] = "recover" /\ Proceed(h, "marker")
     \/ /\ there /\ goal[h] = "recover" /\ seen[h]
        /\ goal' = [goal EXCEPT ![h] = "timeout"]
        /\ Goto(h, "kill")
        /\ UNCHANGED <<job, on, localVars>>
  /\ UNCHANGED <<taskVars, rowVars, session, approval, lease, procVars, faults>>

\* No session row: the attempt is lost, and its lease is left to expire.
Missing(h) ==
  /\ step[h] = "missing"
  /\ \/ /\ May(on[h], "lost", TRUE)
        /\ Write(on[h], "lost")
        /\ IF goal[h] = "cancel" THEN Proceed(h, "task") ELSE Observed(h)
     \/ /\ ~ May(on[h], "lost", TRUE)
        /\ Refused
        /\ Return({h})
  /\ UNCHANGED <<held, session, approval, lease, procVars, faults>>

\* adapter.observe: first the marker, then the process.  _read_marker takes a file
\* that it cannot read for one that is not there.
Found(h, s) == Goto(h, "settle") /\ found' = [found EXCEPT ![h] = s]
               /\ UNCHANGED <<callVars, seen, token, todo>>
ReadMarker(h) ==
  /\ step[h] = "marker"
  /\ \/ marker[on[h]] # "none" /\ Found(h, marker[on[h]])
     \/ Proceed(h, "alive")
  /\ UNCHANGED <<taskVars, rowVars, session, approval, lease, procVars, faults>>

Over(x) == runner[x] \in {"exited", "gone"}
\* A child whose parent has not polled it yet still has its pid.
Owned(h, x)   == child[x] = Home[h]
Visible(h, x) == runner[x] = "alive" \/ child[x] \notin {Home[h], None}
\* Mutant: a process that is no longer there ended well.
NoNews(h, x, m) == IF m = "none" THEN "succeeded" ELSE m
\* A child's marker is read once more; m is what is read.  Without one its return
\* code counts, which the runner returns after it has written it to the marker.
Ended(h, x, m) ==
  CASE ~ Owned(h, x) -> "lost"
    [] Owned(h, x) /\ m # "none" -> m
    [] OTHER -> IF runner[x] = "exited" /\ marker[x] = "succeeded" THEN "succeeded"
                ELSE "failed"
Alive(h) ==
  LET x == on[h] IN
  /\ step[h] = "alive"
  /\ \/ Visible(h, x) /\ Proceed(h, "beat")
     \/ Over(x) /\ \E m \in {marker[x], "none"} : Found(h, Ended(h, x, m))
  /\ UNCHANGED <<taskVars, rowVars, session, approval, lease, procVars, faults>>

\* _apply_observation, by whether the observation says running.
Beat(h) ==
  /\ step[h] = "beat"
  /\ session' = [session EXCEPT ![on[h]] = "running"]
  /\ Observed(h)
  /\ UNCHANGED <<taskVars, rowVars, approval, lease, procVars, faults>>

Settle(h) ==
  LET x == on[h] IN
  /\ step[h] = "settle"
  /\ \/ /\ May(x, found[h], TRUE)
        /\ Write(x, found[h])
        /\ token' = [token EXCEPT ![h] = held[x]]
        /\ Goto(h, "close")
        /\ UNCHANGED <<callVars, seen, found, todo>>
     \/ /\ ~ May(x, found[h], TRUE)
        /\ Refused
        /\ Return({h})
  /\ UNCHANGED <<held, session, approval, lease, procVars, faults>>

Closing(s) == CASE s = "succeeded" -> "stopped"
                [] s = "cancelled" -> "cancelled"
                [] OTHER           -> "failed"
Close(h) ==
  /\ step[h] = "close"
  /\ session' = [session EXCEPT ![on[h]] = Closing(found[h])]
  /\ Proceed(h, "unlock")
  /\ UNCHANGED <<taskVars, rowVars, approval, lease, procVars, faults>>

\* release_writer_lease, guarded by owner and fence token
\* Mutant: the guard looks at the resource only.
ReleasesAny(h, r) == token[h] # 0 /\ args[on[h]].resource = r
Releases(h, r) == /\ token[h] # 0 /\ args[on[h]].resource = r
                  /\ lease[r].owner = on[h] /\ lease[r].fence = token[h]
Unlock(h) ==
  /\ step[h] = "unlock"
  /\ lease' = [r \in Resources |-> IF Releases(h, r) THEN [lease[r] EXCEPT !.state = "free"]
                                   ELSE lease[r]]
  /\ CASE goal[h] = "start"  -> Return({h})
       [] goal[h] = "cancel" -> Proceed(h, "task")
       [] OTHER              -> Observed(h)
  /\ UNCHANGED <<taskVars, rowVars, session, approval, procVars, faults>>

-----------------------------------------------------------------------------
(* adapter.cancel, for a cancellation and for an attempt over its limit *)
Reaches(h, x) == args[x].adapter = "tmux" \/ Owned(h, x)

\* Mutant: a stop that was asked for counts as done.
Assumed(h, confirmed) == IF goal[h] = "timeout" THEN "timed_out" ELSE "cancelled"
Outcome(h, confirmed) == IF ~ confirmed THEN "lost"
                         ELSE IF goal[h] = "timeout" THEN "timed_out" ELSE "cancelled"

\* The runner's process group or tmux session is signalled; only the runner is
\* checked.  The adapter asks tmux for the session, which the model takes for the
\* runner in it.
Stopped(h) ==
  LET x == on[h] IN
  /\ step[h] = "kill" /\ Reaches(h, x)
  /\ runner' = [runner EXCEPT ![x] = IF @ = "exited" THEN @ ELSE "gone"]
  /\ Found(h, Outcome(h, TRUE))
  /\ UNCHANGED <<taskVars, rowVars, session, approval, lease, marker, child, faults>>

\* A runner that outlasts the signals, or one this coordinator did not start.
Unstopped(h) ==
  LET x == on[h] IN
  /\ step[h] = "kill"
  /\ \/ /\ Reaches(h, x) /\ runner[x] = "alive" /\ faults < MaxFaults
        /\ faults' = faults + 1
     \/ ~ Reaches(h, x) /\ UNCHANGED faults
  /\ \/ goal[h] = "timeout" /\ Visible(h, x) /\ Proceed(h, "beat")
     \/ (goal[h] = "cancel" \/ Over(x)) /\ Found(h, Outcome(h, FALSE))
  /\ UNCHANGED <<taskVars, rowVars, session, approval, lease, procVars>>

-----------------------------------------------------------------------------
(* The owner cancels a task: cancel_operation_task *)
Cancel(h, t) ==
  LET x == current[t]
      open == x # 0 /\ exec[x] \in Active IN
  /\ step[h] = "idle"
  /\ Goto(h, IF open THEN "look" ELSE "task")
  /\ goal' = [goal EXCEPT ![h] = "cancel"]
  /\ job' = [job EXCEPT ![h].task = t]
  /\ on' = [on EXCEPT ![h] = x]
  /\ seen' = [seen EXCEPT ![h] = open]
  /\ UNCHANGED <<taskVars, rowVars, session, approval, lease, procVars, found, token,
                 todo, faults>>

Cancelling(h) ==
  /\ step[h] = "cancelling"
  /\ \/ /\ May(on[h], "cancelling", TRUE)
        /\ Write(on[h], "cancelling")
        /\ Proceed(h, "kill")
     \/ /\ ~ May(on[h], "cancelling", TRUE)
        /\ Refused
        /\ Return({h})
  /\ UNCHANGED <<held, session, approval, lease, procVars, faults>>

\* operation_store.cancel of a task without operation, plans or claims
Uncertain(t) == \E x \in 1 .. created : args[x].task = t /\ exec[x] \in Active \cup {"lost"}
Cancellable(h, t) ==
  /\ on[h] \in {0, current[t]}
  /\ taskStatus[t] \notin {"completed", "failed", "cancelled"}
  /\ ~ (taskStatus[t] = "blocked" /\ Uncertain(t))
CancelTask(h) ==
  LET t == job[h].task IN
  /\ step[h] = "task"
  /\ \/ /\ Cancellable(h, t)
        /\ approval' = [a \in Approvals |->
             IF approval[a].task = t /\ approval[a].status = "pending"
             THEN [approval[a] EXCEPT !.status = "rejected"] ELSE approval[a]]
        /\ taskStatus' = [taskStatus EXCEPT ![t] = IF Uncertain(t) THEN "blocked"
                                                   ELSE "cancelled"]
        /\ exec' = [x \in Execs |-> IF args[x].task = t /\ exec[x] \in Active THEN "lost"
                                    ELSE exec[x]]
     \/ ~ Cancellable(h, t) /\ UNCHANGED <<approval, taskStatus, exec>>
  /\ Return({h})
  /\ UNCHANGED <<current, created, args, held, session, lease, procVars, faults>>

-----------------------------------------------------------------------------
(* request_approval and decide_approval *)
RequestApproval(a, t, r) ==
  /\ approval[a].status = "none"
  /\ approval' = [approval EXCEPT ![a] = [status |-> "pending", task |-> t,
                                          resource |-> r, fresh |-> TRUE]]
  /\ taskStatus' = [taskStatus EXCEPT ![t] = "awaiting_approval"]
  /\ UNCHANGED <<current, rowVars, session, lease, procVars, step, callVars, localVars,
                 faults>>

Decide(a, decision) ==
  LET p == approval[a] IN
  /\ p.status = "pending"
  /\ approval' = [approval EXCEPT ![a].status = IF p.fresh THEN decision ELSE "expired"]
  /\ taskStatus' = IF p.fresh /\ decision = "rejected"
                   THEN [taskStatus EXCEPT ![p.task] = "blocked"] ELSE taskStatus
  /\ UNCHANGED <<current, rowVars, session, lease, procVars, step, callVars, localVars,
                 faults>>

-----------------------------------------------------------------------------
(* Time, processes and crashes *)
ApprovalExpires(a) ==
  /\ approval[a].status \in {"pending", "approved"} /\ approval[a].fresh
  /\ approval' = [approval EXCEPT ![a].fresh = FALSE]
  /\ UNCHANGED <<taskVars, rowVars, session, lease, procVars, step, callVars, localVars,
                 faults>>

\* Nothing renews a lease: renew_writer_lease has no caller.
LeaseExpires(r) ==
  /\ lease[r].state = "live"
  /\ lease' = [lease EXCEPT ![r].state = "expired"]
  /\ UNCHANGED <<taskVars, rowVars, session, approval, procVars, step, callVars,
                 localVars, faults>>

\* adapter_runner: wait for the command, write the marker atomically, exit with the
\* command's return code.  A runner that is killed, or cannot write its marker, ends
\* with another.
WriteMarker(x, result) ==
  /\ runner[x] = "alive" /\ marker[x] = "none"
  /\ marker' = [marker EXCEPT ![x] = result]
  /\ UNCHANGED <<taskVars, rowVars, session, approval, lease, runner, child, step,
                 callVars, localVars, faults>>
RunnerExits(x) ==
  /\ runner[x] = "alive" /\ marker[x] # "none"
  /\ runner' = [runner EXCEPT ![x] = "exited"]
  /\ UNCHANGED <<taskVars, rowVars, session, approval, lease, marker, child, step,
                 callVars, localVars, faults>>

RunnerDies(x) ==
  /\ runner[x] = "alive" /\ faults < MaxFaults
  /\ faults' = faults + 1
  /\ runner' = [runner EXCEPT ![x] = "gone"]
  /\ UNCHANGED <<taskVars, rowVars, session, approval, lease, marker, child, step,
                 callVars, localVars>>

\* start_new_session: the runners survive the coordinator that started them.
Crash(c) ==
  /\ faults < MaxFaults
  /\ faults' = faults + 1
  /\ child' = [x \in Execs |-> IF child[x] = c THEN None ELSE child[x]]
  /\ Return({h \in Threads : Home[h] = c})
  /\ UNCHANGED <<taskVars, rowVars, session, approval, lease, runner, marker>>

-----------------------------------------------------------------------------
StartCommand(h) ==
  \/ \E j \in Jobs : Start(h, j)
  \/ Create(h) \/ Acquire(h) \/ Refuse(h) \/ RecordLease(h) \/ Consume(h) \/ Launch(h)
  \/ Fail(h) \/ Unlock(h) \/ Session(h) \/ Run(h)
Reconcile(h) ==
  \/ \E x \in Execs : Observe(h, x)
  \/ Recover(h) \/ Recovered(h) \/ Look(h) \/ Missing(h) \/ ReadMarker(h) \/ Alive(h)
  \/ Beat(h) \/ Settle(h) \/ Close(h) \/ Unlock(h)
Stop(h) ==
  \/ \E t \in Tasks : Cancel(h, t)
  \/ Cancelling(h) \/ Stopped(h) \/ Unstopped(h) \/ CancelTask(h)
Owner ==
  \/ \E a \in Approvals, t \in Tasks, r \in Resources : RequestApproval(a, t, r)
  \/ \E a \in Approvals, d \in {"approved", "rejected"} : Decide(a, d)
Environment ==
  \/ \E a \in Approvals : ApprovalExpires(a)
  \/ \E r \in Resources : LeaseExpires(r)
  \/ \E x \in Execs, result \in {"succeeded", "failed"} : WriteMarker(x, result)
  \/ \E x \in Execs : RunnerExits(x) \/ RunnerDies(x)
  \/ \E c \in Coordinators : Crash(c)

Next == \/ \E h \in Callers : StartCommand(h)
        \/ \E h \in Servers : Reconcile(h) \/ Stop(h)
        \/ Owner \/ Environment
Spec == Init /\ [][Next]_vars

-----------------------------------------------------------------------------
(* Properties *)

\* A live writer lease is given up by time or after its owner's attempt was
\* recorded as ended: no late release under an old fence token and no other
\* writer takes it from an attempt that may still be writing
\* (acquire_writer_lease, release_writer_lease and the order of their callers).
LeaseOutlastsAttempt ==
  [][\A r \in Resources :
       lease[r].state = "live" /\ lease'[r] # lease[r]
         => lease'[r].state = "expired" \/ exec[lease[r].owner] \in Terminal]_vars

\* An approval is spent on one command, also when two calls present it together:
\* check_approval looks again, and marks it, after the first look of start_command.
ApprovalOnce ==
  \A x, y \in Execs :
    /\ x # y /\ args[x].approval = args[y].approval /\ args[x].approval # None
    => "none" \in {runner[x], runner[y]}

\* Success is recorded only of a command that its runner has reported as ended with
\* return code 0, by the marker or, when a coordinator cannot read that, by its own
\* return code: never of a process that is merely gone (the adapters' observe).
SuccessIsReported ==
  \A x \in Execs : exec[x] = "succeeded" => marker[x] = "succeeded"

\* A cancellation or time-out is recorded only when the runner is gone; a stop
\* that could not be confirmed is recorded as lost (the adapters' cancel).
StoppedIsGone ==
  \A x \in Execs : exec[x] \in {"cancelled", "timed_out"} => Over(x)

\* A closed session says the same as its execution, whoever closed it: of two
\* threads that end an attempt the one that loses writes no session.
SessionAgrees ==
  \A x \in Execs : session[x] \notin {"none", "running"}
    => exec[x] \in Terminal /\ session[x] = Closing(exec[x])

\* "Single-writer lock": no two runners write one resource.  The code does not
\* keep this, see the findings.
OneWriter ==
  \A x, y \in Execs : /\ x # y /\ args[x].resource = args[y].resource
                      /\ args[x].resource # None
                      => "alive" \notin {runner[x]} \cap {runner[y]}
=============================================================================

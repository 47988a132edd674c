# NyaNya Agent: a formal model

NyaNya Agent takes requests from chat connectors, the terminal and a dashboard, runs
them through language models in worker processes, and applies file changes only after
the owner has reviewed them. All its processes share one SQLite ledger. What is hard in
it is not any single statement but the order in which connectors, workers, executor
threads, delivery threads, the maintenance pass and the owner reach that ledger, and
what a crash or an expired lease leaves behind. This directory models that part in
TLA+, checks it with TLC and proves part of it with TLAPS. Beside it stand models of the
parts with hazards of their own: the command coordinator, the queue of the connectors
with its document transfers, the audit archive, the memory of a conversation, the output
of the services, one call of a model, and the polling of a chat.

Paths below are relative to `src/src/nyanya_agent/` unless they start with `docs/`.

## 1. The system

| Component | State it keeps | Operations | Modelled by |
|---|---|---|---|
| `operation_store` | `agent_tasks`, `task_operations`, `operation_workers`, `executions`, `task_claims` | register and heartbeat a worker, submit, approve and admit an apply, claim, recover, cancel, resume, dismiss, delivery claims, start failures | `OperationStore`, `OperationService`, `ReviewedChanges` |
| `work_queue` | the same tables, `task_results`, `approvals` | renew, finish, results | `OperationWorker` |
| `operation_worker` | one process per generation, a thread pool, a cancel event per execution | main loop, perform, monitor, shutdown | `OperationWorker` |
| `reviewed_changes` | `change_plans`, `change_journal`, workspace files, lock files | propose, decide, settle, apply, resolve | `ReviewedChanges` |
| `work_drafts` | `operation_drafts` | create, open, load, link, close, maintain | `WorkDrafts` |
| `operation_service` | delivery threads of a controller process, its worker child | submit, ensure_worker, deliver, control, close | `OperationService`, `OperationStore` |
| `conversation_store` | `conversation_sessions`, `conversation_turns` | bind a turn, order of turns, history, complete, reset | `OperationStore` (order), `ConversationMemory` |
| `execution_store` | the tables above, `runtime_sessions`, `writer_leases` | executions, transitions, sessions, approvals, leases | `OperationLedger`, `OperationStore`, `ExecutionRuntime`, `TaskService`; not hosts, artifacts |
| `execution_runtime` | none of its own; the adapters keep the `Popen` objects of their process | start a command, observe, cancel, recover all active | `ExecutionRuntime` |
| `execution_adapters`, `adapter_runner` | runner processes, tmux sessions, completion markers | start, observe, cancel; write the marker | `ExecutionRuntime` |
| `approval_contract` | `approvals` | check and consume | `ExecutionRuntime` |
| `task_service` | callbacks, cancel events and threads of a connector process, over `agent_tasks` | submit, dispatch, run, monitor, cancel, close | `TaskService` |
| `discord_bridge`, `upload_approval`, `bridge_store` | upload consents in `approvals`, recorded messages | receive, inspect, confirm, reject, send a document | `DocumentUploads` |
| `work_memory`, `wiki_store`, `memory_worker` | work records, topic notes, memory candidates | derive at finish, recall, review, forget, extract, refine | `ConversationMemory` |
| `log_archive`, `log_maintenance` | monthly archives of `audit_logs` | recover, export, verify, prune, expire; hourly | `LogArchive`, `AuditTrail` |
| `service_logs` | segments, monthly archives, pins | write, rotate, archive, retire, remove | `ServiceLogs` |
| `process_runner`, `model_routing` | one child process and its group | run, look, terminate, read the reply | `ModelProcess` |
| `telegram_bridge` | update offset | poll, handle, answer | `ChatUpdates` |
| `dashboard_store`, `dashboard_api` | request records, memory items, audit rows | record, list, decide, cancel, reconcile | claims of messages, memory items, `log_audit`; decide, cancel, reconcile |
| everything else | none, or files written by a tool that runs alone | text rules, path rules, packaging | no: see `PROJECT.json` |

How they interact. A connector's `OperationService` submits a task for the worker
generation it has launched. The worker's main loop claims it (a row in `task_claims`
with a 30 second lease, an execution) and hands it to an executor thread; a monitor
thread renews the lease and sets the cancel event. The thread calls the model, may ask
for a read scope (`work_drafts`), may propose a plan (`reviewed_changes`) and ends in
`work_queue.finish`. The owner opens the scope, approves or rejects the plan; approval
admits an apply task, which is claimed like any other and writes the files under a
journal. A delivery thread per attempt waits for the saved result and sends it. The
main loop also recovers tasks whose lease or worker is gone, and closes expired plans
and drafts.

Beside this path the repository keeps an older one, for single external commands: a
caller obtains an approval for one command, `start_command` takes the writer lease of
the resource, spends the approval and starts a runner process, detached from the
coordinator, that runs the command and leaves a completion marker. The dashboard's API
reconciles active executions (`observe`) and cancels tasks, in the threads of its pool.
Only the repository's tests call `start_command` today; the reconciliation and the
cancellation are live. The two paths meet in the tables, but a task belongs to one of
them: `observe` skips executions of a worker, and a task with an operation is cancelled
without the coordinator. That is why they are two state machines here.

What makes it hard, and what correct means:

* Leases expire while the thread that held them still runs. Correct: the ledger ignores
  it from then on, and no slot stays with an attempt that is over.
* The owner cancels, rejects, resumes or reconciles at any step of a run. Correct: the
  task's status, its execution, claim, plans, drafts, approvals and apply tasks end in a
  combination that is still consistent.
* An application may be cut off between two file operations. Correct: what it wrote is
  never forgotten, blocks the next application and is never recorded as something else.
* The files may be edited outside. Correct: such an edit is never overwritten by a plan
  that had not seen it.
* Sending a message has no acknowledgement that can be trusted. Correct: at most one
  attempt to send each result; doubt is shown to the owner.
* A command's process may outlive the coordinator that started it, be seen by one that
  did not start it, finish while it is being cancelled, or not be stoppable. Correct: one
  approval starts one process, success is recorded on evidence only, a stop only when it
  is confirmed, whoever ends an attempt second changes nothing, and a writer lease stays
  with an attempt that may still write.
* A job of a connector can be cancelled, lose its lease or its process while a document
  is inspected, confirmed or sent. Correct: one consent sends one version once, a message
  sends once, and what the ledger says of a transfer is what happened.
* Retention deletes rows and output that an archive is to keep. Correct: at every kill,
  error and power loss the archive that justified a deletion survives it.
* An owner forgets or resets while a run finishes, a model refines, a reviewer looks.
  Correct: nothing brings a forgotten text back, nothing from before a reset reaches a
  prompt after it.
* A provider's command may exit, fork or resist while it is stopped. Correct: a stop is
  reported when it is confirmed.
* The hazards are listed with their source lines in `PROJECT.json`.

## 2. The modules

From `OperationLedger` to `OperationProperties` each module EXTENDS the one above it; the
control plane is one state machine because its parts share the ledger's tables.
`ExecutionRuntime` stands alone. `DocumentUploads` EXTENDS `TaskService`, which knows
nothing of what its jobs do. The modules below them share no state with each other;
`MCRecords` puts the last three into one run, of which a behaviour is one machine's.

| Module | Contents |
|---|---|
| `OperationLedger` | the tables as VARIABLES, types, `Init`, and the predicates several transactions evaluate (`OwnsExecution`, `UnresolvedGiven`, `EarlierWork`, ...) |
| `OperationStore` | workers, submission, claim, recover, cancel, resume, dismiss, decided approvals |
| `OperationService` | the delivery threads and `acknowledge_delivery` |
| `WorkDrafts` | reviewed working copies |
| `ReviewedChanges` | plans, decisions, journalled application, reconciliation, outside edits |
| `OperationWorker` | executor threads, monitors, crashes, `finish`, `Next`, fairness |
| `OperationProperties` | the properties |
| `MCOperations` | the instances for TLC |
| `OperationProofs`, `FenceProofs`, `PlanProofs`, `ReviewProofs` | its theorems, each EXTENDS the one before |
| `ExecutionRuntime` | the command coordinator, its adapters and their processes, with its properties |
| `MCRuntime` | its instances for TLC |
| `RuntimeProofs` | its theorems |
| `TaskService` | the jobs of the connector processes: queue, leases, threads, cancellation, end of a process |
| `DocumentUploads` | messages, consents and the transfer, as the callback of a job, with the properties |
| `MCUploads`, `UploadsProofs` | its instances and theorems |
| `AuditTrail` | the abstract specification: what retention promises of audit rows |
| `LogArchive` | `run_archive` step by step, which implements `AuditTrail` |
| `ArchiveProofs` | the proof of that |
| `ConversationMemory` | turns, attempts, plans, recall, records, notes, candidates, reviews |
| `ServiceLogs` | segments of a service, their archives and pins |
| `ModelProcess` | a call of a model and its process group |
| `ChatUpdates` | the polling loop and its offset |
| `RecordsProofs` | the theorems of the last four |
| `MCRecords` | the instances of these four and of `LogArchive`, in one |

### The control plane

State. A variable is a column or a group of columns that are always written together.
`status`, `eligible`, `attempts`, `generation`, `current`, `parent`, `target` are
functions of the task; executions are pairs of a task and its number, so
`current_execution_id` is a number and NULL is 0. `task_claims` has one row per task,
so `claim[t]` says whether the row exists, is unreleased under a live lease (`held`),
unreleased under an expired one (`expired`) or released. `pc`, `flag`, `reply`, `seen`,
`using` are the locals of the executor thread of an execution. `disk[s][x]` is the
content of a file, as far as the code compares it: absent, original, edited by somebody
else, half created, or what plan `p` leaves there. `lock[s]` is the thread or the plan for
which the workspace is locked, `shown[p]` the files that `resolve` found as the plan leaves
them when it looked.

Actions. Every transaction opens with BEGIN IMMEDIATE or is one statement, so it is one
action with all it writes. Steps that the code takes outside a transaction are actions
of their own: each file operation, each journal row, each look at the draft, the model
call, the message to the owner. So is the look of `resolve` at the files (`Observe`), which
comes before its transaction (`Resolve`): the workspace lock keeps other applications out
between the two, but not an edit from outside. `Conclude` is the return of `perform`; `Settle` the
check of `execute` before a cancelled run is finished; `Finish` the transaction.

Abstractions.

* Time: a heartbeat is fresh or not, a lease live or expired, a plan or draft fresh or
  not; actions let them lapse. Renewal is therefore no action: a lease that was
  renewed is one that has not expired.
* One owner. Ownership checks compare with it and always succeed.
* Priorities: `claim` may take any row it could return.
* The worker a claim names is the `runner` of its execution, which the same statement
  group writes.
* Prompts, replies, hashes, diagnoses and notifications are left out; a model reply is a
  choice among what `perform` tells apart.
* Plans live in a pool of identifiers, and a thread heads for a proposal only while one
  is left (`PlanLeft`). Requests and applies come from two pools; a follow-up or child
  request uses the pool of requests.
* New files of a draft have names in a directory of their own, so two drafts never
  create the same path; they may modify the same existing file.
* `recover` at the start of `resume` and at the end of `Worker.close` is the separate
  action `Recover`: the code runs it in a transaction of its own.
* In `apply`, taking the workspace lock and opening the journal are one step, and so are
  the check under a file operation and the operation. Outside edits do not hit a file
  while an application is writing it; `docs/p0_execution_20260912.md` asks the operator for
  that. They may hit it between the look of `resolve` and its record, and
  `AppliedMeansWritten` names what that leaves: a plan recorded as applied over an edit.
* A file of a plan is written by its two visible effects (created, complete). The guards
  between them, the temporary file and the synchronisations only fail, and a failure
  after a file operation is `ApplyBreaks`: blocked when a guard refused, failed when the
  system did.
* The pending question, a reset and the records that `finish` derives in the same
  transaction touch no variable of this state machine; `ConversationMemory` models them.
* Not modelled: the limit of twenty open drafts, deletion of old working copies, adoption
  of rows an older connector queued, a database error inside `finish` (its effect on the
  ledger is a worker that stops), the selection of listed tasks in `control`.

### The command coordinator

State. Executions are numbered in the order of their rows; `exec`, `args` and `held` are
the columns of a row (its status, what it was started with, the fence token in its
metadata), `session` the status of its row in `runtime_sessions`, `lease[r]` the row of
resource `r` in `writer_leases`. `runner`, `marker` and `child` are the process, its
`status.json` and the coordinator whose adapter holds the `Popen`. `step[h]` is the place
of thread `h` in a call, `goal` says which call it is (a time-out inside `observe` is
`timeout`), the others are its local variables.

Actions. `Start`, `Create`, `Acquire`, `Refuse`, `RecordLease`, `Consume`, `Launch`,
`Fail`, `Session`, `Run` are the steps of `start_command` in order; `Recover`, `Observe`,
`Look`, `Missing`, `ReadMarker`, `Alive`, `Beat`, `Settle`, `Close`, `Unlock`, `Recovered`
those of `recover_active` and `observe`; `Cancel`, `Look`, `Missing`, `Cancelling`,
`Stopped`, `Unstopped`, `Settle`, `Close`, `Unlock`, `CancelTask` those of a cancellation.
`May` is the refusal of `transition_execution` and `Write` its update; a refused
transition raises, and the thread's whole call ends (`Return`).

Abstractions.

* A command's scope is its task and the resource it writes; a caller presents matching
  or other approvals, and `Start` is the calls that pass the first check.
* Leases and approvals expire by actions; whether an attempt is over its time limit is a
  choice at `Look`.
* The runner is the process the adapters see. A command that outlives its killed runner
  and a process identifier that is used again are left out.
* Two coordinators differ only in which `Popen` objects they hold. After a crash nobody
  holds them.
* A marker that is there may not be readable (`_read_marker` turns an error into no
  marker). A process that is not the parent then finds the attempt lost; the parent goes by
  the return code of its child, which the runner takes from the command and returns after
  it wrote the marker (`Ended`).
* The tmux adapter asks whether the session is there; the model takes the session for the
  runner in it (`Stopped`). `StoppedIsGone` says no more than that of a tmux attempt.
* The requesting side of an approval has no caller in `src/`; `RequestApproval` is any
  caller with any scope.
* Tasks of this path have no operation, plan or claim, so `operation_store.cancel` is
  reduced to the branches such a task reaches.
* A tmux start that times out and has started is an action (`Launch`), but what it does to
  leases is not asked: `OneWriter` fails without it.

### Jobs of the connectors and document transfers

State. `jobStatus`, `attempt`, `lease`, `saved`, `told` are the row of a job in
`agent_tasks`, `executions`, `task_claims` and `task_results` (outcome, delivery).
`handlers`, `stopping` and `stage` are what its process keeps for it: the callback, the
cancel event and the place of its thread in `_run`; they go with the process
(`EndService`). `aim` and `seen` are a call of `cancel_task` between its read and its
write. `consent`, `scope`, `consentAge`, `asker` are the approval row of an upload; a
write of the file makes a new version, and `Private` are the versions in which the
inspection finds personal data. `step` is the coroutine on the event loop and `transfer`
what the SDK was given.

Actions. `Dispatch` is `_dispatch` with `work_queue.claim`; the claim repeats in its
transaction what the list said, so they are one step. `HandlerReturns`, `FinishJob`,
`ReserveAnswer`, `AnswerJob`, `LeaveJob` are `_run`; `MonitorJob` its monitor. `ReadTask`,
then `CancelAttempt` and `SignalJob` or `CancelUnclaimed` are `cancel_task`, which holds no
lock between them. `SendUpload` is the stretch of `send_upload` without an `await`: on one
event loop no other coroutine runs in it, but the file may have changed before it, and
the cancel event may be set at any time before it is read. `EndUpload` is the wait of the
job's thread for the coroutine and for the event. `Receive` is the arrival of a copy of a
message. A process that records (`Recording`, `NYANYA_DASHBOARD_RECORDING_ENABLED`) claims
it in the ledger; one that does not looks there and keeps its own claims in memory, at most
`ClaimLimit` (`recent`; `evicted` is what it dropped). That memory ends with the process,
and a restarted one is another member of `Services`.

Abstractions. The inspection is a function of the version. The check of the expiry while
the consent is being listed adds nothing to the one in `consume_upload`. The channel, the
workspace and the size limit are the destination, which may fail (`DestinationFails`).
A blocked job holds its owner's queue, as in the code, and so does the unreleased claim of
a process that ended. A job that waits for an approval can be cancelled; for one whose
execution is lost `cancel_task` raises (`task_service.py:405`), and nothing in the service
lets that queue go on. The monitor of a job also ends by an error, which counts as a lost
lease although the claim is held (`MonitorJob`). Answers
of commands are not modelled; commands that change no state of this module are
`AnswerOnly`.

### The audit archive

State. `db` are the rows of `audit_logs`; `unusable` are the months with an archive that
does not pass the checks of `_read_archive` (corrupt, too large, no regular file). A month has an archive with no, one or two names
(two between the link of the final name and the removal of the temporary one). `visible`
is the directory, `stable` what a power loss leaves of it: the same as of its last
synchronisation, or any later change. The phases are the steps of `_run` for one month.

What blocks. A table beyond `ScanLimit` refuses every run before its lock is taken, more
months than `ArchiveLimit` after the repair of what an earlier run left (`RefuseRun`). A
month with more rows than `MonthLimit`, with an archive that lacks a row or has two names,
or that does not pass, is passed over. A spoilt archive stays so (`Spoil`): no code repairs it.

Abstractions. Commits of SQLite are durable. Content, digest and trailer of an archive are
the set of its rows. The limits count rows and stand for those of bytes. The checks of the
directory, the lock file and the database path, which refuse a run as `ScanLimit` does, and
the second `_read_rows` of a month are left out. The cutoffs of 30 and 90
days and of twelve months are states of a month (`Open`, `Closed`, `Old`, `Expiring`) that
come in that order. A row may be written for a month that is archived already (the writer
read its clock before midnight); such a row blocks the month.

### The memory of a conversation

State. `generation`, `nextSeq`, `pending` are the session row; `turnGen`, `turnSeq`, `asks`
a turn. A work record belongs to an execution: to an attempt of a request or, numbered 0, to
the run that applied its plan. `work` and `excerpt` are its status and whether it holds text;
`note`, `noteText`, `version` the notes of that execution by topic; `item`, `title` the
candidates of the request; `heard` the turns whose text went into the prompt of a run.
`screen` is what a reviewer sees and `refining` what the memory worker holds while the
model works: both are stale reads that later writes are based on. `run`, `attempt`, `lost`
and `change` are as much of the control plane as decides which executions end in success:
attempts that are lost or resumed, a plan that waits, is closed or is applied, and what
closing it does to a request that has gone on.

Actions. `FinishTurn` and `FinishApply` are `work_queue.finish` with the records, notes and
the pending question it writes; the record of an application holds the text of the request
it came from, if that request is completed by it or was before. `Forget` and the verdict
"forgotten" of `Review` clear one record and its notes, and the candidates of the request.

Abstractions. One owner, workspace and project. Ranking and the limits of a prompt drop
texts and add none. Requests that ask not to be remembered (`Refused`), texts that fail the
screening (`Sensitive`) and requests whose runs may propose a plan (`Changing`) are
constants. One plan of a request is applied, and none proposed after it; a `resolve` of it
is `LoseApply`. A plan, also one of a lost attempt, is applied while its request waits or is
queued again, not while an attempt of it runs nor once it has ended: `claim` keeps
applications and requests of one workspace apart, and `apply` refuses an ended request.

### The output of a service

State. A segment is current, then has the time of its name taken (`stamped`), is linked,
closed, perhaps quarantined, gone. `archive` and `kept` are the archives of the months as
the directory shows them and as a power loss leaves them, with their pins. Maintenance
takes a plan and works it off; an error undoes what the code undoes, a crash nothing.
A kill between a pin and its removal, or an entry that comes late, blocks further
maintenance until somebody looks (`docs/operations_guide.md:137`); the model does that too.

### A call of a model

State. `leader` and `helpers` are the process group; `signs` what the loop looks at (the
cancel event, the deadline, the size of the outputs, the result file), which may appear
between any two steps; `round` tells the termination in the loop from that in the
`finally` block.

Abstractions. POSIX only. Helpers that leave the group, and process numbers that are used
again, are left out; no document promises anything of them. Helpers of a command that
ended by itself may outlive the call.

### The updates of a chat

State. `held` is what the server still hands out, `offset` the connector's; `next..upto` is
the batch in hand. An exception drops the rest of the batch, which the next poll brings
again; a restart forgets the offset. Requests of an update may be repeated after a restart
(`docs/architecture_and_roadmap.md:49` disclaims exactly-once).

## 3. The runs

All instances of the control plane put their requests in one workspace and one conversation, where they
interact. Symmetry is used in the runs without liveness properties: the identifiers of
tasks, plans, workers and watchers are interchangeable, as are the callers, the threads of
the API, the approvals and the messages of the other instances. Deadlock is not checked in
any: the identifiers, the versions and the turns run out and the system may rest.

`MaxFaults` bounds, together, stalls of a live process or thread, crashes, outside
edits, failing previews, errors of a monitor and deaths of a controller. Leases of
threads that are gone and heartbeats of processes that are gone lapse without one, and
plans and drafts expire freely.

| Run | Instance | Shows |
|---|---|---|
| `Delivery` | 1 request, 1 worker, 2 watchers, 2 attempts, 1 fault | `SentOnce`, `SendingIsCurrent` |
| `Drafts` | 2 requests, 2 plans on one existing file, 1 apply, 2 faults | `PendingIsWaiting`, `AppliedDraft`, `EditsSurvive`, `ActiveIsClaimed`, `ReviewHasSubject`, `CancelledIsClosed`, `EffectsRecorded`, `CompletedIsApplied`, `AppliedMeansWritten` |
| `Rivals` | 2 requests, 2 plans, 2 applies, 2 slots, claims expire, no other fault | `OneUnsettledPlan`, `OnePlanPerDraft`, `TurnsAlone` |
| `Progress` | 1 request, 2 workers, 2 attempts, 1 fault, fair | `ClaimFence`, `TerminalExecutions`, `ClaimsReleased`, `QueueMoves` |
| `LeakedClaim` | 2 requests, 1 plan, 1 slot, fair | `QueueMoves` fails (finding) |
| `ReopenedTask` | 1 request, 1 plan, 2 attempts | `CompletedIsFinal` fails (finding) |
| `Commands` | 2 callers, 2 API threads, both adapters, 1 resource, 2 approvals; either 2 executions and no fault or 1 execution and 1 fault | `ApprovalOnce`, `LeaseOutlastsAttempt`, `SuccessIsReported`, `StoppedIsGone`, `SessionAgrees` |
| `OneWriter` | 1 caller and 1 API thread in two processes, 2 executions, no fault, no expiry | `OneWriter` fails (finding) |
| `Uploads` | 1 owner, 2 processes, of which one records messages and one remembers 1 claim, 2 jobs in each; either 3 messages in the first, 1 consent, 2 versions of the file, 1 cancellation and 1 fault, or 2 messages in both, again and again | `OwnerRunsAlone`, `OneConsentOneSend`, `ReportsTransfer`, `OneSendPerMessage` |
| `CancelRace` | 1 owner, 1 process, 2 jobs, 2 messages, no fault | `CancelledBeforeSending` fails (finding) |
| `ForgottenSource` | 1 turn with plans, 3 attempts | `SourceForgotten` fails (finding) |
| `Records`, services | 2 segments, 2 months, 2 accidents | `NoSegmentLost` |
| `Records`, a call | 2 helpers | `StopIsConfirmed` |
| `Records`, a chat | 3 updates, 1 restart | `EveryUpdateTaken` |
| `Records`, memory | 1 topic, 2 texts, 1 reviewer; either 2 turns, 3 attempts and 1 reset, or 1 turn with plans, 3 attempts and candidates beside 1 that refuses to be remembered | `QuestionIsLatest`, `ResetIsBoundary`, `ForgottenStaysForgotten`, `OneSelected` |
| `Records`, archive | 3 rows of 2 months and 2 failures, or 4 rows of 3 months and none; at most 3 rows scanned, 1 row in an archive, 2 archives | `KeepsTrail`, `AgedRowsLeave` |

Why the bounds are enough to be of interest. One request with two attempts has a thread
of a lost attempt, a current one and the records of both. Two requests with two plans
give a follow-up on a draft, a replaced plan and a rival in the workspace. Two faults let
a crash hit an application whose file was edited. Three executions of a task (two
attempts and a failed launch) is what `MaxExecs` allows. What the bounds leave out:
three turns, two workspaces, two conversations, plans with several files together with
several plans, and more than two faults. `Drafts` runs under the constraint
`LooksAtEffects`: the owner looks at the files of plans that `resolve` may still have to
record (of the others its transaction refuses to record anything). `Rivals` runs under the constraint `Steady`
(workers stay up, nothing but claims expires) so that two full reviews fit.

For the coordinator two executions are enough for every race over a lease or an approval,
which are between two attempts, and one execution with two observers for every race
about its end. A fault is a crash of a coordinator, a runner that dies without a marker,
a process that survives its signals, or a tmux start that times out and works. `Commands`
runs under the constraint `OneRace`, which is the union of these two cases. In the first
(`TwoWriters`) all runners are subprocesses and the API works in one thread at a time; in
the second (`TwoObservers`) one call starts the execution and both threads of the API may
end it. In both the approvals are granted before the first command and do not expire
meanwhile, as in `OneWriter` (`GrantedFirst`), where besides no lease expires
(`LeasesLast`), so that what fails there is not the clock's doing. What these bounds leave
out: three executions, several resources, more than one fault, a fault between two writers.

For the transfers two jobs of one owner are what the queue, a consent and a message can be
shared by. `Uploads` runs under the constraint `OneTrouble`, again a union of two cases. In
`Recorded` only the process that records receives messages, and the file is edited or the
process fails or closes, not both. In `Repeated` messages arrive again and again in both
processes, and nothing is cancelled, fails or needs a consent, since the question is how
often a message moves a document; a memory of one claim is the smallest that forgets, and
of a message a process has one copy at a time waiting for its command. Both jobs of this
case are of the process that does not record, where they may carry the same message; that
two processes share a message only if one of them does not record, and that consents and
queues hold between processes, is proved, not run.

`Records` has five machines that share no state: its initial state picks one, and each has
the bounds at which its mutants fail and every action happens. Bounds that depend on the
state are part of `MCRecords`' next-state relation; those of the archive stop only what its
environment does, never a step its fairness is about. For the memory one case (`Talk`) leaves plans and candidates out and the other (`OneChange`) resets:
a reset decides what is recalled, a plan how often a request leaves a record. Three
attempts are what the finding needs, and with them `OneChange` contains it: after it every
forgotten record is still empty. `RecordsProofs` proves the properties for plans, candidates
and resets together, and for any requests refused or sensitive. For the archive two months
are a month to keep beside one to expire, two failures an error during the repair of
another, and only a third month brings more archives than there may be; the rows of a
month, the whole table and the number of archives can each pass their limit, one without
the other. `KeepsTrail` is a refinement: the table and the durable archives together behave
as `AuditTrail` says.

Type invariants are no properties of the runs: the proofs of section 5 establish them.

Every property of a passing run has a mutant in `PROJECT.json`: a plausible mistake in
one definition under which TLC finds the property violated. The mutated definitions
are kept in the modules, marked `Mutant`, just before the definition they would replace.

Fairness (`FairSpec`). Executor threads go on, because model calls have a time limit;
main loops claim and, as long as one worker is up, recover every ten seconds; delivery
threads poll; a stopping worker closes; nobody renews the lease of a thread or the
heartbeat of a process that is gone. Nothing is assumed of the owner, of clocks of
plans and drafts, of workers being started, or of file locks. `ClaimsReleased` and
`QueueMoves` therefore say "or no worker is up". `AgedRowsLeave` assumes that
the audit maintenance is started and takes its steps: `maintenance_loop` starts a run every
hour, and a run is bounded in rows and killed after five minutes. Kills and failures are
bounded, so that runs eventually end. The property says of a row that stays for good that
its month is blocked for good, by one of the four causes the guide names (`Blocked`); it
does not excuse a row of another month, nor one whose month was blocked only for a time.

## 4. Findings

**Leaked claim.** `_settle_closed_plan` (`reviewed_changes.py:390-441`) defers while the
task's claim is live, and otherwise sets the task to blocked with `eligible=0`. If the
claim has expired but `recover()` has not run yet, the claim stays `released=0` and the
execution `running`; `recover()` looks at eligible tasks only
(`operation_store.py:321`), so nothing releases it any more. The slot it counts against
(`operation_store.py:352-356`) is gone, and every apply in that workspace waits for it.
The window is the time between the expiry of a lease and the next recovery, at most ten
seconds while a worker is up, and the owner (or the expiry of the plan) must close the
plan in it. The run shows it with one slot; the default configuration has two.

**Completed tasks reopen.** `TASK_TRANSITIONS` and `docs/execution_control_plane.md` give
`completed` no successor. A task whose first attempt proposed a plan and was lost, and
whose second attempt completed, goes to `blocked` when the owner rejects the first
plan, because the lost execution counts as an unresolved effect.

**Lease of a running process.** `cancel()` of the coordinator releases the writer lease in
every case, also when the adapter answered that the process is still running
(`execution_runtime.py:358-386`). A process that did not start the runner never signals
it (`execution_adapters.py:267-273`), so after a restart of the API a cancellation records
the attempt as lost, frees the resource and leaves the command writing. The table in
`docs/execution_control_plane.md:28` calls the lease a single-writer lock. For the same
answer `observe` keeps the lease.

**Cancelled and sent.** `cancel_task` reads a queued job (`task_service.py:381-388`); the
scheduler thread claims it before the call goes on to `transition_task`, which updates by
id alone (`execution_store.py:1214-1223`). The owner is told that the job is cancelled and
its row says so, but its thread runs, without a cancel event. If the job is a document
transfer, its consent is consumed and the document is sent, and `finish` writes `completed`
over the row. `docs/security_and_reliability.md:75` says that cancellation before sending
cannot authorize a send. The window is the time between two statements of one call.

**Forgotten source.** `docs/security_and_reliability.md:37` says that forgetting a source
clears all work records and notes of it. `forget_record` clears those of one execution
(`work_memory.py:366-383`), and `complete_conn` inserts a record per execution without
looking at what was forgotten of the same source (`work_memory.py:189-196`). A request
leaves two records when it completes, is reopened as in "Completed tasks reopen", and
completes again, or has its plan applied. Forgetting one leaves the text in the other, and
one that comes after the forgetting brings it back. What the code does keep is
`ForgottenStaysForgotten`: the forgotten record itself, its notes and all candidates of the
request stay empty, whatever ends late. History and extraction leave out the whole source
(`conversation_store.py:152`); the recall of records and notes asks only for the record of
the current execution.

**One divergence without a run.** A time-out is recorded with confidence 1.0 and without a
marker (`execution_runtime.py:235-243`), where `docs/execution_control_plane.md:57` trusts
1.0 only to a marker. The model has no confidences. A success that rests on the return code
of an owned child has 0.8 (`execution_adapters.py:240-247`), so the sentence does not
exclude it; `SuccessIsReported` covers it.

Other behaviours seen while modelling, which contradict no document: an apply that was
queued when its plan was rejected during the parent's run is claimed, fails and stays
blocked; a cancelled task can have an applied plan (approved while a later attempt
waits in the queue, then cancelled), which is why `CancelledIsClosed` excludes only
plans in progress or in doubt; a plan recorded as applied may become reconciled when
the owner resolves it again after an edit; the reply of a cancelled run is saved but no
watcher sends it. Of the command coordinator: an attempt can be recorded as lost although
its marker says success (the marker is read, the runner writes it and exits, then the
process is looked for); a second start on a task makes the first attempt stale for every
transition, and `recover_active` raises at it and leaves the rest of its list; a session
that was closed is shown as running again by an observer that saw the process before it
ended. Of the document transfers: a process that does not record messages may handle one
again, after it restarted or dropped its claim, or beside another process; the guide says
so (`docs/security_and_reliability.md:132`), and `OneSendPerMessage` says that there are no
other duplicates. Of the memory: a refinement that began
before its candidate was approved replaces the approved title, and a renamed candidate
lets the extraction create another one of its request. Of the chat polling: a database
error passes through `handle_update` after the offset has moved, so that update is neither
answered nor handled again. Of the tmux adapter: a start that times out after the session
exists is recorded as failed and its lease released (`execution_adapters.py:358`). The
cancel command of a chat reaches the tasks of the operation engine as well.

## 5. The proofs

`OperationProofs` proves `TypeCorrect`: `Spec => []TypeOK`. `TypeOK` alone is not
inductive. `claim` and `record_start_failure` count up the number of an execution, so
its bound needs `Numbered` (at most one execution was not counted as an attempt); the
threads use fields of the task's spec as keys, so `RequestTargets`, `QueuedApplies` and
`ThreadSubjects` say which task a thread at each step runs and which draft or plan it
names; `PlannedByRequest` says who proposed a plan that can still be decided. Their
conjunction is `Coherent`, and `TypeOK /\ Coherent` is inductive. There is one lemma per
action; `TypeFrames` and `CoherentFrames` reduce each to the groups of columns it writes.

`FenceProofs` proves `ClaimFenceCorrect` and `SentOnceCorrect` from one invariant,
`Guarded`. `Fenced`: an unreleased claim covers the current execution, which is open and
has no result yet. `Delivered`: results exist only for executions a task has reached;
a thread about to send has taken its result, alone, unsent; a sent result stays taken.
The two need each other: `finish` writes `pending` over whatever the result's delivery
was, and only because its execution is under a live claim is there nothing sent to lose.

`PlanProofs` proves the properties of plans, files and finished executions from two
invariants and one description of what every step leaves alone.

* `Lineage` adds to the types what names what. A plan names the execution of a submitted
  request (`Origin`), a draft begins with a request that continues none (`DraftRoots`),
  a draft names a plan that was proposed for it (`DraftPlans`), the plan of a draft that is
  not withdrawn or expired is the latest (`Latest`), an apply is the child of the task that
  proposed its plan (`ApplyParent`). `Beyond` says that an execution no claim has reached
  has no row and no thread, `Concluded` that a thread that is about to finish has an
  outcome, `NoDraftYet` that only a request without a draft heads for one, `Applying` that
  a thread inside `apply` holds the lock of its workspace while its plan is being applied.
  `OnePlanPerDraft` is a consequence.
* `Forward` is what no step undoes: a submitted task, its spec and its parent, the content
  of a plan, a closed plan, the end of an execution, the count of attempts.
  `TerminalExecutions` is part of it.
* `Filed` relates journal and files. A plan that was not applied has no journal
  (`Unjournalled`); what the journal of a running application calls applied is in the
  file (`Written`). `OneUnsettledPlan` is a conjunct of its own: while an application is
  not settled, no other begins in its workspace.
  What `resolve` found written is still there, or was edited since (`Evidence`).
  `EffectsRecorded` and `AppliedDraft` are the other conjuncts.
* `AppliedMeansWritten` and `EditsSurvive` are action properties and follow from the two:
  a step that commits an application finds every file applied, one that records a
  resolution as applied finds every file applied or edited since the look, and one that
  replaces a file compared it before.

The lemmas are about columns rather than actions: `TaskFrame` and `PlanFrame` say which
transactions write which, `PlanMoves`, `ExecutionsMove` and `FileMoves` how one column
moves, so that an invariant is argued once for each kind of move.

`ReviewProofs` proves what a task of each status may still have. These properties
need each other. `Governed` adds to `Lineage` and `Guarded`:

* `Standing`: status, eligibility and claim of a task agree (`ActiveIsClaimed`). A task
  whose lease has expired still shows as active, under a claim that is still unreleased.
* `QueuedAnswered`: a new attempt is queued only when the delivery before it was settled;
  `SendingIsCurrent` needs it, because `claim` makes the next execution the current one
  without a look at the results.
* `Reviewing`: a pending approval is of the current execution of a waiting task, and has
  a plan that can be decided on or a read scope, never both; with `ScopedPast` this gives
  `PendingIsWaiting` and `ReviewHasSubject`.
* `CancelHasNoPlan`, `CancelReply`: only an execution that was asked to stop, and has no
  plan left, reports a cancellation. `CancelledIsClosed` rests on it, for `finish` does
  not look at the plans when it records one.
* `ChildOfDone`: a request with a parent was made by the decision on a read scope, and
  that parent is done for good: no later decision, cancellation or expiry changes its status.

The argument goes through `Conduct`, what one transaction may do to the rows of tasks,
executions and approvals. Each action has a lemma that it keeps to the conduct
(`ConductFinish`, `ConductCancel`, ...), and `GovernedKept` proves once that whatever keeps to
the conduct keeps `Governed`. The hard action is `settle_expired`, which passes twice
through `_settle_closed_plan` in one transaction: `SettledOnce` and `SettledTwice` describe
the rows between the passes and after them.

Assumptions are `LedgerAssumption` and `WorkerAssumption`: the pools are disjoint, NULL
is in none, requests are finitely many, and the numbers are positive where the code's
are. No plan has the name of one of the words for other contents of a file (absent,
original, edited, partial): a file holds either what a plan leaves there or one of these,
and `EffectsRecorded` and `EditsSurvive` tell them apart. The proofs hold for every number
of tasks, plans, workers, watchers, files, slots and attempts.

`RuntimeProofs` proves every property of `ExecutionRuntime` that the run `Commands`
checks, for every number of tasks, threads, coordinators, resources,
approvals, executions and faults, under `RuntimeAssumption` (every thread has a
coordinator, NULL is no task, coordinator, resource or approval, the bounds are numbers).
None of the properties is inductive: what a thread will write depends on what it looked
at some steps ago. `RuntimeInv` says why that is still true when it writes.

* `Knowing`: what a thread at each place of its call knows. One that is about to launch
  presented an approval that is consumed; one about to settle has evidence for the end
  it found (for success a runner that reported it, for a cancellation or time-out one that
  is gone);
  one about to close the session or release the lease finds its execution ended.
* `Apart`: no two threads of `start_command` work on the same execution.
* `Unborn`: nothing has happened to executions that have no row.
* `Spending`: an approval with a process under it, or about to have one, is consumed,
  and by that execution alone. `ApprovalOnce` follows.
* `Recorded`: terminal statuses have their evidence, and a closed session agrees with
  its execution. `SuccessIsReported`, `StoppedIsGone` and `SessionAgrees` follow.

The argument is one of monotonicity: `Forward` says that terminal statuses, markers,
ended runners and consumed approvals stay, so a thread that does nothing goes on knowing
what it knew (`SameKnows`), and a step that creates no row, consumes no approval and
starts no process keeps the invariant once its thread's own place is right (`Onward`).
There is one lemma per action; `Create`, `Consume` and `Launch` are the three that need
an argument of their own. `LeaseOutlastsAttemptCorrect` is an action property: of the
steps that change a lease only a release can end a live one, and it names the owner and
its fence token, whose end the releasing thread knows to be recorded.

`UploadsProofs` proves the four properties of `Uploads` for every number of jobs, owners,
processes, messages, consents and faults, under the assumptions of `TaskService` and
`DocumentUploads` (finitely many jobs, each with an owner and a process; the word for "no
consent" names none). `UploadsInv` has five parts beside the types. `Leased`: a job is
claimed once, its thread works only while the claim is open, and an owner has one open
claim; `OwnerRunsAlone` follows. `Reported`: an outcome, returned or saved, agrees with the
place of the coroutine, and that with the transfer; `ReportsTransfer` follows although the
thread may leave a coroutine behind. `Consented`: a job is bound to the version its consent
was asked for when it is submitted, a transfer has spent its consent, and no two transfers
have the same; `OneConsentOneSend` follows. `Carried`: a message that waits in a process or
was submitted by it is one the process knows, in the ledger or in its memory, and a second
one means that it forgot the first; `OneSendPerMessage` follows. `Aimed`: a cancellation under way
is about a submitted job, whatever its status has become, so that no overwriting makes a
job look unsubmitted.

`ArchiveProofs` proves `KeepsTrailCorrect`, that `LogArchive` implements `AuditTrail`, for
every set of rows and months, batch size, budget and limits. `Safe` relates the table to the
directory as it is and as a power loss would leave it: what a synchronisation would add is
still in the table, what it would take away is still in the table or may be given up.
`Running` and `Visiting` say what a run knows: what it read of the months still to visit is
in the table, what it read of the month at hand is in its archive, and what it is about to
delete is in the archive that survives a power loss. So every step of the code is a step of
`AuditTrail` or changes nothing it can see; a refused run repairs at most the names. The
fairness of `ArchiveSpec` plays no part.

`RecordsProofs` has four parts. It proves the four properties of `ConversationMemory` for
every set of turns, refused, sensitive, changing or none of these, of topics, texts and
reviewers, and any number of candidates, attempts and resets; a conversation has a turn and
a topic (`NotesAssumption`). Three of them are inductive with `Accepted` (a turn that was
never accepted has left nothing, and no turn is of a generation to come).
`ForgottenStaysForgotten` needs `Backed`: a text in a record or a note stands on the
retained record of its execution, that of a candidate on a source of which no record was
forgotten, and a refused source has none. That is why a candidate the memory worker holds,
a note on a reviewer's screen, a later attempt or an application that ends late cannot
bring a text back into what was forgotten. `SourceForgotten` has no theorem: the code does
not keep it.

The parts about a model call and the chat polling are short. A cancellation or time-out on its way out of
the loop is raised of a group that has ended, and nothing in such a group can fork
(`Carried`). What is below the server's mark or the connector's offset was taken up, what is
above the offset only in an earlier life (`Counted`), and the batch in hand begins at the
first update that is below neither (`InHand`).

The part about `ServiceLogs` proves its type invariant and `NoSegmentLost` for every set of
segments, months (a non-empty set of numbers), size limit and number of accidents. A
removed segment has to be in the archive that is there and in the one a power loss would
leave (`Preserved`), which is why the synchronisation before the removal matters. What a
run listed keeps its name while the run lasts (`Listed`); only the month at hand has an
archive already (`MonthByMonth`); and a
segment about to be removed is in an archive, or will be before the archives are pinned
(`Retiring`). The limit counts segments, and the set it counts is finite because only
finitely many were ever opened, whether or not `Segments` is.

Only model-checked: the liveness properties `ClaimsReleased`, `QueueMoves` and
`AgedRowsLeave`. Liveness under fairness is out of the prover's reach, and so is ENABLED.
The properties of the runs that expect a violation have no theorem, since the code does
not keep them. Every other property of a passing run has one.

## 6. Not modelled, and what could follow

Not modelled: the validation of JSON, paths and texts, prompts and their limits, provider
isolation, the pure classification of commands and of personal data (no state, one
thread); the HTTP routes and statistics of the dashboard; `manager` and the launchers
(launchd, files of a tool that runs alone); backups and packaging; the older provider calls
of `core`. Of the Windows branches nothing is modelled.

What could follow: an abstract specification of one task's attempts and the refinement
from the control plane; liveness of an approved plan (applied, failed or held).

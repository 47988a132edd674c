------------------------------ MODULE TaskService ------------------------------
(***************************************************************************)
(* DurableTaskService (task_service.py) over the claims of work_queue.py:  *)
(* the queue of callbacks each connector process runs for its owners.  A   *)
(* job is a row of agent_tasks; its callback, its cancel event and its     *)
(* thread live in the process that submitted it and die with that process. *)
(* The module that extends this one says what a callback does.             *)
(***************************************************************************)
EXTENDS Naturals, FiniteSets

CONSTANTS Jobs, Owners, Services,
          JobOwner,    \* [Jobs -> Owners], the owner_key of a job
          Home,        \* [Jobs -> Services], the process that submits it
          Cancellers,  \* calls of cancel_task
          Site,        \* [Cancellers -> Services], the process of a call
          MaxFaults    \* bound: crashes, leases that expire under a live process, and
                       \* renewals that raise

ASSUME JobsAssumption     == IsFiniteSet(Jobs) /\ Jobs # {}
ASSUME JobOwnerAssumption == JobOwner \in [Jobs -> Owners]
ASSUME HomeAssumption     == Home \in [Jobs -> Services]
ASSUME SiteAssumption     == Site \in [Cancellers -> Services]
ASSUME FaultsAssumption   == MaxFaults \in Nat

VARIABLES
  jobStatus,   \* agent_tasks.status
  turn,        \* creation order of the jobs, 0 for none
  attempt,     \* status of the job's only execution
  lease,       \* its task_claims row: none, held, expired, released
  saved,       \* task_results.outcome
  told,        \* task_results.delivery_status
  handlers,    \* the jobs whose callback is registered in their process
  stopping,    \* the jobs whose cancel event is set
  leaseLost,   \* the jobs whose monitor saw the lease lost
  stage,       \* the thread of a job
  found,       \* the outcome its callback returned
  service,     \* the processes: up, closing, down
  aim,         \* the job a cancel_task call is about
  seen,        \* what the call read of it, and how far it is
  crashes      \* faults so far

ledgerVars == <<jobStatus, turn, attempt, lease, saved, told>>
localVars  == <<handlers, stopping, leaseLost, stage, found>>
jobVars    == <<jobStatus, turn, attempt, lease, saved, told, handlers, stopping,
                leaseLost, stage, found, service, aim, seen, crashes>>

JobOutcomes     == {"succeeded", "failed", "cancelled", "timed_out", "blocked",
                    "awaiting_approval"}
JobTerminal     == {"completed", "failed", "cancelled"}
JobActive       == {"running", "awaiting_approval", "blocked"}
AttemptTerminal == {"succeeded", "failed", "cancelled", "timed_out", "lost"}

JobsTypeOK ==
  /\ jobStatus \in [Jobs -> JobActive \cup JobTerminal \cup {"none", "queued"}]
  /\ turn \in [Jobs -> Nat]
  /\ attempt \in [Jobs -> AttemptTerminal
                          \cup {"none", "running", "awaiting_approval", "cancelling"}]
  /\ lease \in [Jobs -> {"none", "held", "expired", "released"}]
  /\ saved \in [Jobs -> JobOutcomes \cup {"none"}]
  /\ told \in [Jobs -> {"none", "pending", "sending", "delivered", "uncertain"}]
  /\ handlers \subseteq Jobs /\ stopping \subseteq Jobs /\ leaseLost \subseteq Jobs
  /\ stage \in [Jobs -> {"none", "working", "returned", "saved", "answering", "leaving"}]
  /\ found \in [Jobs -> JobOutcomes \cup {"none"}]
  /\ service \in [Services -> {"up", "closing", "down"}]
  /\ aim \in [Cancellers -> Jobs]
  /\ seen \in [Cancellers -> {"idle", "unclaimed", "active", "held", "signal", "ended"}]
  /\ crashes \in Nat

JobsInit ==
  /\ jobStatus = [j \in Jobs |-> "none"] /\ turn = [j \in Jobs |-> 0]
  /\ attempt = [j \in Jobs |-> "none"]   /\ lease = [j \in Jobs |-> "none"]
  /\ saved = [j \in Jobs |-> "none"]     /\ told = [j \in Jobs |-> "none"]
  /\ handlers = {} /\ stopping = {} /\ leaseLost = {}
  /\ stage = [j \in Jobs |-> "none"]     /\ found = [j \in Jobs |-> "none"]
  /\ service = [s \in Services |-> "up"]
  /\ aim = [c \in Cancellers |-> CHOOSE j \in Jobs : TRUE]
  /\ seen = [c \in Cancellers |-> "idle"] /\ crashes = 0

-----------------------------------------------------------------------------
\* pending_tasks of an owner, in the order of creation.
PendingJobs(o) == {j \in Jobs : JobOwner[j] = o /\ jobStatus[j] \notin JobTerminal \cup {"none"}}

\* submit: the row, then the callback and a fresh cancel event.
SubmitJob(j) ==
  /\ jobStatus[j] = "none" /\ service[Home[j]] = "up"
  /\ jobStatus' = [jobStatus EXCEPT ![j] = "queued"]
  /\ turn' = [turn EXCEPT ![j] = Cardinality({i \in Jobs : turn[i] > 0}) + 1]
  /\ handlers' = handlers \cup {j}
  /\ UNCHANGED <<attempt, lease, saved, told, stopping, leaseLost, stage, found,
                 service, aim, seen, crashes>>

\* Mutant: an expired claim no longer holds its owner's queue.
LeaseFreeAfterExpiry(j) == /\ lease[j] = "none"
                           /\ \A i \in Jobs : JobOwner[i] = JobOwner[j] => lease[i] # "held"

\* The two checks of work_queue.claim besides the status: no claim of this job,
\* however old, and no unreleased claim of its owner.
LeaseFree(j) == /\ lease[j] = "none"
                /\ \A i \in Jobs : JobOwner[i] = JobOwner[j] => lease[i] \in {"none", "released"}

\* Nothing of the owner is active or held, and j is its oldest queued job.
NextInLine(j) ==
  \A i \in PendingJobs(JobOwner[j]) : /\ jobStatus[i] \notin JobActive
                                      /\ jobStatus[i] = "queued" => turn[j] <= turn[i]

\* _dispatch and claim: start the owner's oldest queued job if its callback is
\* here.  The claim repeats what could change after the list was read.
Dispatch(j) ==
  /\ service[Home[j]] = "up" /\ j \in handlers
  /\ jobStatus[j] = "queued" /\ NextInLine(j) /\ LeaseFree(j)
  /\ jobStatus' = [jobStatus EXCEPT ![j] = "running"]
  /\ attempt' = [attempt EXCEPT ![j] = "running"]
  /\ lease' = [lease EXCEPT ![j] = "held"]
  /\ stage' = [stage EXCEPT ![j] = "working"]
  /\ UNCHANGED <<turn, saved, told, handlers, stopping, leaseLost, found, service,
                 aim, seen, crashes>>

\* The monitor thread of a running job: a renewal that fails, or a cancellation
\* of the execution, sets the cancel event.  A renewal or a read that raises (a
\* locked database) counts as a lost lease, though the claim is still held.
MonitorJob(j) ==
  /\ stage[j] \notin {"none", "leaving"} /\ j \notin leaseLost
  /\ \/ /\ lease[j] # "held"
        /\ leaseLost' = leaseLost \cup {j} /\ UNCHANGED crashes
     \/ /\ lease[j] = "held" /\ attempt[j] = "cancelling"
        /\ UNCHANGED <<leaseLost, crashes>>
     \/ /\ crashes < MaxFaults /\ crashes' = crashes + 1
        /\ leaseLost' = leaseLost \cup {j}
  /\ stopping' = stopping \cup {j}
  /\ UNCHANGED <<ledgerVars, handlers, stage, found, service, aim, seen>>

\* The callback of _run returns r; a lost lease ends the thread without a result.
HandlerReturns(j, r) ==
  /\ stage[j] = "working"
  /\ found' = [found EXCEPT ![j] = r]
  /\ stage' = [stage EXCEPT ![j] = IF j \in leaseLost THEN "leaving" ELSE "returned"]
  /\ UNCHANGED <<ledgerVars, handlers, stopping, leaseLost, service, aim, seen, crashes>>

\* finish() of an attempt asked to stop: only the outcome "cancelled" says it did.
Accepted(j) == IF attempt[j] = "cancelling" /\ found[j] # "cancelled" THEN "blocked"
               ELSE found[j]

\* finish: under the unexpired claim and an open execution it saves the outcome
\* and writes the task over whatever its status is; otherwise it raises.
FinishJob(j) ==
  /\ stage[j] = "returned"
  /\ IF lease[j] = "held" /\ attempt[j] \notin AttemptTerminal
     THEN LET r == Accepted(j) IN
          /\ jobStatus' = [jobStatus EXCEPT ![j] =
                             CASE r = "succeeded" -> "completed"
                               [] r = "timed_out" -> "failed"
                               [] OTHER           -> r]
          /\ attempt' = [attempt EXCEPT ![j] = IF r = "blocked" THEN "lost" ELSE r]
          /\ lease' = [lease EXCEPT ![j] = "released"]
          /\ saved' = [saved EXCEPT ![j] = r]
          /\ told' = [told EXCEPT ![j] = "pending"]
          /\ stage' = [stage EXCEPT ![j] = "saved"]
     ELSE /\ stage' = [stage EXCEPT ![j] = "leaving"]
          /\ UNCHANGED <<jobStatus, attempt, lease, saved, told>>
  /\ UNCHANGED <<turn, handlers, stopping, leaseLost, found, service, aim, seen, crashes>>

\* claim_delivery, then the responder, which returns or raises; record_delivery.
ReserveAnswer(j) ==
  /\ stage[j] = "saved" /\ told[j] = "pending"
  /\ told' = [told EXCEPT ![j] = "sending"]
  /\ stage' = [stage EXCEPT ![j] = "answering"]
  /\ UNCHANGED <<jobStatus, turn, attempt, lease, saved, handlers, stopping, leaseLost,
                 found, service, aim, seen, crashes>>
AnswerJob(j) ==
  /\ stage[j] = "answering"
  /\ \E d \in {"delivered", "uncertain"} : told' = [told EXCEPT ![j] = d]
  /\ stage' = [stage EXCEPT ![j] = "leaving"]
  /\ UNCHANGED <<jobStatus, turn, attempt, lease, saved, handlers, stopping, leaseLost,
                 found, service, aim, seen, crashes>>

\* The finally block of _run forgets the callback and its cancel event.
LeaveJob(j) ==
  /\ stage[j] = "leaving"
  /\ stage' = [stage EXCEPT ![j] = "none"]
  /\ handlers' = handlers \ {j} /\ stopping' = stopping \ {j}
  /\ UNCHANGED <<ledgerVars, leaseLost, found, service, aim, seen, crashes>>

-----------------------------------------------------------------------------
\* cancel_task, first reads: the task, and the status of its execution if it has
\* one.  A finished task or execution ends the call.
ReadTask(c, j) ==
  /\ seen[c] = "idle" /\ service[Site[c]] # "down"
  /\ jobStatus[j] \notin JobTerminal \cup {"none"}
  /\ aim' = [aim EXCEPT ![c] = j]
  /\ seen' = [seen EXCEPT ![c] = CASE attempt[j] = "none"              -> "unclaimed"
                                   [] attempt[j] = "awaiting_approval" -> "held"
                                   [] attempt[j] \in AttemptTerminal   -> "ended"
                                   [] OTHER                            -> "active"]
  /\ UNCHANGED <<ledgerVars, localVars, service, crashes>>

\* The execution was read as active or held: transition_execution, which refuses
\* an execution that ended meanwhile, and one the review no longer holds.
CancelAttempt(c) ==
  /\ seen[c] \in {"active", "held"} /\ service[Site[c]] # "down"
  /\ LET j == aim[c]
         held == seen[c] = "held" IN
     IF attempt[j] \in AttemptTerminal
     THEN /\ seen' = [seen EXCEPT ![c] = "ended"]
          /\ UNCHANGED <<jobStatus, attempt>>
     ELSE /\ attempt' = [attempt EXCEPT ![j] = IF held THEN "cancelled" ELSE "cancelling"]
          /\ jobStatus' = IF held THEN [jobStatus EXCEPT ![j] = "cancelled"] ELSE jobStatus
          /\ seen' = [seen EXCEPT ![c] = "signal"]
  /\ UNCHANGED <<turn, lease, saved, told, localVars, service, aim, crashes>>

\* Persisted first, then signalled, if the callback lives in this process.
SignalJob(c) ==
  /\ seen[c] = "signal" /\ service[Site[c]] # "down"
  /\ stopping' = stopping \cup {j \in handlers \cap {aim[c]} : Home[j] = Site[c]}
  /\ seen' = [seen EXCEPT ![c] = "ended"]
  /\ UNCHANGED <<ledgerVars, handlers, leaseLost, stage, found, service, aim, crashes>>

\* transition_task with force: the status is overwritten, whatever it is by now.
CancelUnclaimed(c) ==
  /\ seen[c] = "unclaimed" /\ service[Site[c]] # "down"
  /\ jobStatus' = [jobStatus EXCEPT ![aim[c]] = "cancelled"]
  /\ seen' = [seen EXCEPT ![c] = "ended"]
  /\ UNCHANGED <<turn, attempt, lease, saved, told, localVars, service, aim, crashes>>

-----------------------------------------------------------------------------
\* close(): no more dispatches, every cancel event set; daemon threads end with
\* the process, at most five seconds later.
CloseService(s) ==
  /\ service[s] = "up"
  /\ service' = [service EXCEPT ![s] = "closing"]
  /\ stopping' = stopping \cup {j \in handlers : Home[j] = s}
  /\ UNCHANGED <<ledgerVars, handlers, leaseLost, stage, found, aim, seen, crashes>>

\* The end of a process, after close() or by a crash.
EndService(s) ==
  /\ \/ service[s] = "closing" /\ UNCHANGED crashes
     \/ service[s] = "up" /\ crashes < MaxFaults /\ crashes' = crashes + 1
  /\ LET mine == {j \in Jobs : Home[j] = s} IN
     /\ handlers' = handlers \ mine /\ stopping' = stopping \ mine
     /\ leaseLost' = leaseLost \ mine
     /\ stage' = [j \in Jobs |-> IF j \in mine THEN "none" ELSE stage[j]]
     /\ found' = [j \in Jobs |-> IF j \in mine THEN "none" ELSE found[j]]
  /\ service' = [service EXCEPT ![s] = "down"]
  /\ seen' = [c \in Cancellers |-> IF Site[c] = s THEN "ended" ELSE seen[c]]
  /\ UNCHANGED <<ledgerVars, aim>>

\* Thirty seconds without a renewal: the thread or its monitor is gone, or stalled.
LeaseExpires(j) ==
  /\ lease[j] = "held"
  /\ \/ (stage[j] = "none" \/ j \in leaseLost) /\ UNCHANGED crashes
     \/ stage[j] # "none" /\ crashes < MaxFaults /\ crashes' = crashes + 1
  /\ lease' = [lease EXCEPT ![j] = "expired"]
  /\ UNCHANGED <<jobStatus, turn, attempt, saved, told, localVars, service, aim, seen>>

ThreadStep(j) == \/ FinishJob(j) \/ ReserveAnswer(j) \/ AnswerJob(j) \/ LeaveJob(j)
CancelStep(c) == \/ \E j \in Jobs : ReadTask(c, j)
                 \/ CancelAttempt(c) \/ SignalJob(c) \/ CancelUnclaimed(c)

\* Every step but those of the callbacks and of their submission.
ServiceStep == \/ \E j \in Jobs : Dispatch(j) \/ MonitorJob(j) \/ ThreadStep(j) \/ LeaseExpires(j)
               \/ \E c \in Cancellers : CancelStep(c)
               \/ \E s \in Services : CloseService(s) \/ EndService(s)
=============================================================================

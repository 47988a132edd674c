---------------------------- MODULE DocumentUploads ----------------------------
(***************************************************************************)
(* The Discord document transfer (discord_bridge.py, upload_approval.py):  *)
(* a command inspects a file, a file with personal data needs the consent  *)
(* of its requester, and the transfer itself is a callback of the task     *)
(* service that runs a coroutine on the event loop of the bridge.          *)
(***************************************************************************)
EXTENDS TaskService, Sequences

CONSTANTS Messages,    \* Discord messages, each of which may arrive again and again
          Recording,   \* the processes with NYANYA_DASHBOARD_RECORDING_ENABLED
          ClaimLimit,  \* _UnrecordedMessageClaims.limit, 4096
          Consents,    \* approvals rows of action discord.upload.pii
          LastVersion, \* bound: each write of the file, even of equal bytes, is a version
          Private,     \* the versions with detected personal data
          MaxPending,  \* MAX_PENDING_PER_OWNER
          QueueMax     \* NYANYA_TASK_QUEUE_MAX

ASSUME LimitsAssumption == LastVersion \in Nat \ {0} /\ MaxPending \in Nat /\ QueueMax \in Nat
ASSUME ClaimsAssumption == Recording \subseteq Services /\ ClaimLimit \in Nat \ {0}

Versions  == 1..LastVersion
NoConsent == "none"
NoMessage == "none"

ASSUME NamesAssumption == NoConsent \notin Consents

VARIABLES
  claimed,    \* the messages claim_agent_request has recorded
  recent,     \* the claims a process keeps in memory, the oldest first
  evicted,    \* history: the claims a process dropped, with it
  waiting,    \* the messages whose command has not run yet, with their process
  file,       \* the content on disk
  consent,    \* status of a consent
  scope,      \* the version it was asked for
  consentAge, \* fresh, or past its expires_at
  asker,      \* the owner it belongs to
  using,      \* the consent a job presents
  expected,   \* the version a job is bound to
  exact,      \* the jobs whose approval named the hash of the consent
  carrier,    \* the message a job was submitted for
  step,       \* the coroutine of a job
  transfer    \* what reached the SDK: none, begun, done

consentVars == <<consent, scope, consentAge, asker>>
boundVars   == <<using, expected, exact, carrier>>
claimVars   == <<claimed, recent, evicted>>
uploadVars  == <<claimVars, waiting, file, consent, scope, consentAge, asker, using,
                 expected, exact, carrier, step, transfer>>
uploadsVars == <<jobVars, uploadVars>>

ClaimsTypeOK ==
  /\ claimed \subseteq Messages /\ recent \in [Services -> Seq(Messages)]
  /\ evicted \subseteq Messages \X Services /\ waiting \subseteq Messages \X Services
UploadsTypeOK ==
  /\ JobsTypeOK /\ ClaimsTypeOK
  /\ file \in Versions
  /\ consent \in [Consents -> {"none", "pending", "approved", "rejected", "expired"}]
  /\ scope \in [Consents -> Versions] /\ consentAge \in [Consents -> {"fresh", "past"}]
  /\ asker \in [Consents -> Owners]
  /\ using \in [Jobs -> Consents \cup {NoConsent}] /\ expected \in [Jobs -> Versions]
  /\ exact \subseteq Jobs /\ carrier \in [Jobs -> Messages \cup {NoMessage}]
  /\ step \in [Jobs -> {"idle", "scheduled", "sending", "sent", "stopped", "refused"}]
  /\ transfer \in [Jobs -> {"none", "begun", "done"}]

UploadsInit ==
  /\ JobsInit
  /\ claimed = {} /\ recent = [s \in Services |-> <<>>] /\ evicted = {}
  /\ waiting = {} /\ file = 1
  /\ consent = [c \in Consents |-> "none"]
  /\ scope = [c \in Consents |-> 1]
  /\ consentAge = [c \in Consents |-> "fresh"]
  /\ asker = [c \in Consents |-> CHOOSE o \in Owners : TRUE]
  /\ using = [j \in Jobs |-> NoConsent]
  /\ expected = [j \in Jobs |-> 1]
  /\ exact = {} /\ carrier = [j \in Jobs |-> NoMessage]
  /\ step = [j \in Jobs |-> "idle"] /\ transfer = [j \in Jobs |-> "none"]

-----------------------------------------------------------------------------
\* The messages whose claim the process s still has in memory.
Heard(s) == {recent[s][k] : k \in 1..Len(recent[s])}

\* Mutant: the message is recorded, but a recorded copy is not recognised.
Unseen(m, s) == s \in Recording \/ m \notin Heard(s)

\* create_dashboard_request: a recorded message ends there, in every process; one
\* that does not record also knows the claims it has in memory.
New(m, s) == m \notin claimed /\ (s \in Recording \/ m \notin Heard(s))

\* Mutant: the claim is granted without being kept.
NotKept(m, s) == UNCHANGED <<recent, evicted>>

\* _UnrecordedMessageClaims.claim: the oldest claim makes room for one too many.
\* The memory goes with its process, and a restarted one is another service here.
Keep(m, s) ==
  LET kept == Append(recent[s], m) IN
  IF Len(kept) > ClaimLimit
  THEN /\ recent' = [recent EXCEPT ![s] = Tail(kept)]
       /\ evicted' = evicted \cup {<<Head(kept), s>>}
  ELSE /\ recent' = [recent EXCEPT ![s] = kept]
       /\ UNCHANGED evicted

\* on_message: a message arrives, for the first time or again.  claim_agent_request
\* records it in a transaction; without recording nothing is stored of it.  Bound:
\* of one message a process has one copy at a time waiting for its command.
Receive(m, s) ==
  /\ service[s] = "up" /\ New(m, s) /\ <<m, s>> \notin waiting
  /\ IF s \in Recording
     THEN claimed' = claimed \cup {m} /\ UNCHANGED <<recent, evicted>>
     ELSE Keep(m, s) /\ UNCHANGED claimed
  /\ waiting' = waiting \cup {<<m, s>>}
  /\ UNCHANGED <<jobVars, file, consentVars, boundVars, step, transfer>>

\* handle_command takes the message m in the process s.
Taken(m, s) == /\ <<m, s>> \in waiting /\ service[s] = "up"
               /\ waiting' = waiting \ {<<m, s>>}

\* A command that only answers: an argument error, a refusal, another request.
AnswerOnly(m, s) ==
  /\ Taken(m, s)
  /\ UNCHANGED <<jobVars, claimVars, file, consentVars, boundVars, step, transfer>>

PendingConsents(o) == {c \in Consents : asker[c] = o /\ consent[c] = "pending"}

\* upload of a file with personal data: request_upload closes what expired and
\* refuses a request beyond the limit.
RequestUpload(m, s, o, c) ==
  /\ Taken(m, s) /\ file \in Private
  /\ consent[c] = "none"
  /\ LET lapsed == {d \in PendingConsents(o) : consentAge[d] = "past"}
         closed == [d \in Consents |-> IF d \in lapsed THEN "expired" ELSE consent[d]] IN
     IF Cardinality(PendingConsents(o) \ lapsed) < MaxPending
     THEN /\ consent' = [closed EXCEPT ![c] = "pending"]
          /\ scope' = [scope EXCEPT ![c] = file]
          /\ asker' = [asker EXCEPT ![c] = o]
     ELSE /\ consent' = closed
          /\ UNCHANGED <<scope, asker>>
  /\ UNCHANGED <<jobVars, claimVars, file, consentAge, boundVars, step, transfer>>

\* queue_bound_upload: submit the transfer of version v, under consent c or none.
QueueUpload(m, s, j, c, v) ==
  /\ Home[j] = s /\ SubmitJob(j)
  /\ Cardinality({i \in PendingJobs(JobOwner[j]) : jobStatus[i] = "queued"}) < QueueMax
  /\ using' = [using EXCEPT ![j] = c]
  /\ expected' = [expected EXCEPT ![j] = v]
  /\ carrier' = [carrier EXCEPT ![j] = m]

\* upload of a file without personal data.
UploadClean(m, s, j) ==
  /\ Taken(m, s) /\ file \notin Private
  /\ QueueUpload(m, s, j, NoConsent, file)
  /\ UNCHANGED <<claimVars, file, consentVars, exact, step, transfer>>

\* upload-approve by the requester.  The consent is only read here, whatever its
\* status; the hash the message names is checked when it is consumed.
ApproveUpload(m, s, j, c, match) ==
  /\ Taken(m, s)
  /\ consent[c] # "none" /\ asker[c] = JobOwner[j]
  /\ QueueUpload(m, s, j, c, scope[c])
  /\ exact' = IF match THEN exact \cup {j} ELSE exact
  /\ UNCHANGED <<claimVars, file, consentVars, step, transfer>>

\* What reject_upload makes of a confirmation: only a pending one is closed.
Closed(c) == IF consent[c] # "pending" THEN consent[c]
             ELSE IF consentAge[c] = "past" THEN "expired" ELSE "rejected"

\* upload-reject and upload-cancel.
RejectUpload(m, s, c) ==
  /\ Taken(m, s) /\ consent[c] # "none"
  /\ consent' = [consent EXCEPT ![c] = Closed(c)]
  /\ UNCHANGED <<jobVars, claimVars, file, scope, consentAge, asker, boundVars, step,
                 transfer>>

-----------------------------------------------------------------------------
\* operation(): stop at once if cancelled, otherwise put send_upload on the loop.
BeginUpload(j) ==
  /\ stage[j] = "working" /\ step[j] = "idle"
  /\ IF j \in stopping
     THEN HandlerReturns(j, "cancelled") /\ UNCHANGED step
     ELSE step' = [step EXCEPT ![j] = "scheduled"] /\ UNCHANGED jobVars
  /\ UNCHANGED <<claimVars, waiting, file, consentVars, boundVars, transfer>>

\* Mutant: a consent is good for every send until it expires.
Spendable(c) == consent[c] \in {"pending", "approved"} /\ consentAge[c] = "fresh"

\* consume_upload would grant its send claim.
Grants(c) == consent[c] = "pending" /\ consentAge[c] = "fresh"

\* send_upload finds the bytes the consent, or the inspection, was about.
Unchanged(j) == file = expected[j]

\* Consent c of the job after a failed consumption: expired, or out of scope.
Spent(c) == IF consent[c] # "pending" THEN consent[c]
            ELSE IF consentAge[c] = "past" THEN "expired" ELSE "rejected"

\* send_upload, the stretch without an await: the file is opened and inspected
\* again, then the cancel event is read, then the consent is consumed, and the
\* SDK call begins.  A changed file closes a pending consent.
SendUpload(j) ==
  /\ step[j] = "scheduled" /\ service[Home[j]] # "down"
  /\ LET c == using[j] IN
     \/ /\ ~Unchanged(j)
        /\ step' = [step EXCEPT ![j] = "refused"]
        /\ consent' = IF c = NoConsent THEN consent ELSE [consent EXCEPT ![c] = Closed(c)]
        /\ UNCHANGED transfer
     \/ /\ Unchanged(j) /\ j \in stopping
        /\ step' = [step EXCEPT ![j] = "stopped"]
        /\ UNCHANGED <<consent, transfer>>
     \/ /\ Unchanged(j) /\ j \notin stopping
        /\ c # NoConsent => Grants(c) /\ j \in exact
        /\ consent' = IF c = NoConsent THEN consent ELSE [consent EXCEPT ![c] = "approved"]
        /\ step' = [step EXCEPT ![j] = "sending"]
        /\ transfer' = [transfer EXCEPT ![j] = "begun"]
     \/ /\ Unchanged(j) /\ j \notin stopping
        /\ c # NoConsent /\ ~(Grants(c) /\ j \in exact)
        /\ consent' = [consent EXCEPT ![c] = Spent(c)]
        /\ step' = [step EXCEPT ![j] = "refused"]
        /\ UNCHANGED transfer
  /\ UNCHANGED <<jobVars, claimVars, waiting, file, scope, consentAge, asker, boundVars>>

\* send_upload ends before it reads the file: the destination is unavailable, or
\* the loop cancels it, or the destination changed, which closes a pending consent.
DestinationFails(j) ==
  /\ step[j] = "scheduled" /\ service[Home[j]] # "down"
  /\ step' = [step EXCEPT ![j] = "refused"]
  /\ \/ UNCHANGED consent
     \/ /\ using[j] # NoConsent
        /\ consent' = [consent EXCEPT ![using[j]] = Closed(using[j])]
  /\ UNCHANGED <<jobVars, claimVars, waiting, file, scope, consentAge, asker, boundVars,
                 transfer>>

\* The SDK call ends: delivered, or with an error that proves nothing.
SendEnds(j) ==
  /\ step[j] = "sending" /\ service[Home[j]] # "down"
  /\ \/ /\ step' = [step EXCEPT ![j] = "sent"]
        /\ transfer' = [transfer EXCEPT ![j] = "done"]
     \/ /\ step' = [step EXCEPT ![j] = "refused"]
        /\ UNCHANGED transfer
  /\ UNCHANGED <<jobVars, claimVars, waiting, file, consentVars, boundVars>>

\* Mutant: every coroutine that ended without an error counts as a transfer.
EndedWell(j) == CASE step[j] \in {"sent", "stopped"} -> "succeeded"
                  [] OTHER                           -> "blocked"

\* The outcome of a coroutine that ended.
UploadOutcome(j) == CASE step[j] = "sent"    -> "succeeded"
                      [] step[j] = "stopped" -> "cancelled"
                      [] OTHER               -> "blocked"

\* operation() waits for the coroutine and for the cancel event; the event
\* abandons a coroutine that has not ended, and the outcome is doubtful.
EndUpload(j) ==
  /\ stage[j] = "working"
  /\ \/ step[j] \in {"sent", "stopped", "refused"} /\ HandlerReturns(j, UploadOutcome(j))
     \/ step[j] \in {"scheduled", "sending"} /\ j \in stopping /\ HandlerReturns(j, "blocked")
  /\ UNCHANGED uploadVars

\* Another program writes the file.
EditFile ==
  /\ file < LastVersion
  /\ file' = file + 1
  /\ UNCHANGED <<jobVars, claimVars, waiting, consentVars, boundVars, step, transfer>>

\* Five minutes without a decision.
ConsentExpires(c) ==
  /\ consent[c] = "pending" /\ consentAge[c] = "fresh"
  /\ consentAge' = [consentAge EXCEPT ![c] = "past"]
  /\ UNCHANGED <<jobVars, claimVars, waiting, file, consent, scope, asker, boundVars, step,
                 transfer>>

Command(m, s) ==
  \/ AnswerOnly(m, s)
  \/ \E j \in Jobs : UploadClean(m, s, j)
  \/ \E c \in Consents :
       \/ RejectUpload(m, s, c)
       \/ \E o \in Owners : RequestUpload(m, s, o, c)
       \/ \E j \in Jobs, match \in BOOLEAN : ApproveUpload(m, s, j, c, match)
UploadStep(j) == \/ BeginUpload(j) \/ SendUpload(j) \/ DestinationFails(j) \/ SendEnds(j)
                 \/ EndUpload(j)

UploadsNext == \/ ServiceStep /\ UNCHANGED uploadVars
               \/ \E m \in Messages, s \in Services : Receive(m, s) \/ Command(m, s)
               \/ \E j \in Jobs : UploadStep(j)
               \/ EditFile
               \/ \E c \in Consents : ConsentExpires(c)
UploadsSpec == UploadsInit /\ [][UploadsNext]_uploadsVars

-----------------------------------------------------------------------------
\* Of all the threads of all processes at most one runs a callback of an owner,
\* stalled threads whose lease expired included (task_service._dispatch,
\* work_queue.claim).
OwnerRunsAlone ==
  \A i, j \in Jobs : /\ i # j /\ JobOwner[i] = JobOwner[j]
                     => ~(stage[i] = "working" /\ stage[j] = "working")

\* A document with personal data reaches the SDK only under the consent that
\* named this very version, that nobody withdrew, and that no other transfer
\* used (upload_approval.consume_upload, discord_bridge.send_upload).
OneConsentOneSend ==
  \A j \in Jobs : transfer[j] # "none" /\ expected[j] \in Private =>
    /\ using[j] # NoConsent
    /\ consent[using[j]] = "approved" /\ scope[using[j]] = expected[j]
    /\ \A i \in Jobs \ {j} : using[i] = using[j] => transfer[i] = "none"

\* What a job reports of its transfer is what happened: completed means
\* delivered, and a saved outcome "cancelled" means that nothing was sent
\* (discord_bridge.operation, work_queue.finish).
ReportsTransfer ==
  \A j \in Jobs : /\ saved[j] = "succeeded" => transfer[j] = "done"
                  /\ saved[j] = "cancelled" => transfer[j] = "none"

\* A message moves two documents only if one of the two processes does not record,
\* and twice in one process only after its claim was evicted there: the duplicates
\* "restart, multiple bridge processes or oldest-entry eviction can admit" are all
\* there are (discord_bridge.create_dashboard_request).
OneSendPerMessage ==
  \A i, j \in Jobs :
    /\ i # j /\ carrier[i] = carrier[j] /\ transfer[i] # "none" /\ transfer[j] # "none"
    => /\ ~({Home[i], Home[j]} \subseteq Recording)
       /\ Home[i] = Home[j] => <<carrier[i], Home[i]>> \in evicted

\* A transfer never begins for a job already recorded as cancelled: "cancellation
\* before sending ... cannot authorize a ... send".
CancelledBeforeSending ==
  [][\A j \in Jobs : jobStatus[j] = "cancelled" => transfer'[j] = transfer[j]]_uploadsVars
=============================================================================

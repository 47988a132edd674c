--------------------------- MODULE OperationService ---------------------------
(***************************************************************************)
(* operation_service.deliver: the daemon threads of the connectors that    *)
(* wait for one attempt of a task and send its saved result, with the      *)
(* ledger statements they use (watch_attempt, delivery_state,              *)
(* claim_delivery, settle_delivery, acknowledge_delivery).  Several        *)
(* threads, of several controllers, may watch the same task.               *)
(***************************************************************************)
EXTENDS OperationStore

ledgerVars == <<workerVars, taskVars, execution, runner, outcome, reviewVars, claimVars,
                planVars, draftVars, fileVars, threadVars>>

\* Thread k is started for task t.  watch_attempt names the next attempt while
\* the task is queued and the last one otherwise; after a failed worker launch
\* the attempt is 0.  The thread is started after the transaction that
\* submitted, opened, approved or resumed t has ended.
Watch(k, t) ==
  /\ watcher[k].step = "idle" /\ status[t] # "none"
  /\ \E a \in {attempts[t] + (IF status[t] = "queued" THEN 1 ELSE 0)}
              \cup (IF process[generation[t]] = "unlaunched" THEN {0} ELSE {}) :
       /\ a <= MaxAttempts
       /\ watcher' = [watcher EXCEPT ![k] = [step |-> "poll", task |-> t,
                                             attempt |-> a, number |-> 0]]
  /\ UNCHANGED <<ledgerVars, delivery, sent, faults>>

\* One round of the polling loop, over one delivery_state row.  The thread ends
\* without sending when a later attempt exists, when the result of its attempt
\* is missing or not pending, or when the task ended without that attempt.
Poll(k) ==
  LET t == watcher[k].task  a == watcher[k].attempt  n == current[t]
      ready == attempts[t] = a /\ n > 0 /\ status[t] \notin {"queued", "running"}
  IN
  /\ watcher[k].step = "poll"
  /\ \/ /\ \/ attempts[t] > a
           \/ ready /\ delivery[<<t, n>>] # "pending"
           \/ ~ready /\ status[t] \in {"blocked", "cancelled", "failed"}
        /\ watcher' = [watcher EXCEPT ![k] = NotWatching]
     \/ /\ attempts[t] <= a /\ ready /\ delivery[<<t, n>>] = "pending"
        /\ watcher' = [watcher EXCEPT ![k].step = "claim", ![k].number = n]
  /\ UNCHANGED <<ledgerVars, delivery, sent, faults>>

\* The task status under which a result of outcome r may still be claimed.
Reported(r) == CASE r = "succeeded"                -> "completed"
                 [] r \in {"failed", "timed_out"} -> "failed"
                 [] OTHER                          -> r

\* Mutant: the result is matched with the attempt but may already be claimed.
DeliverableAgain(k) ==
  LET t == watcher[k].task IN
  attempts[t] = watcher[k].attempt /\ status[t] = Reported(outcome[<<t, watcher[k].number>>])

\* The pending result is still that of the watched attempt and the task still
\* says the same.
Deliverable(k) ==
  LET t == watcher[k].task  e == <<t, watcher[k].number>> IN
  /\ delivery[e] = "pending" /\ current[t] = e[2]
  /\ attempts[t] = watcher[k].attempt /\ status[t] = Reported(outcome[e])

\* claim_delivery: the result becomes this thread's to send, or the thread ends.
ClaimDelivery(k) ==
  LET e == <<watcher[k].task, watcher[k].number>> IN
  /\ watcher[k].step = "claim"
  /\ IF Deliverable(k)
     THEN /\ delivery' = [delivery EXCEPT ![e] = "sending"]
          /\ watcher' = [watcher EXCEPT ![k].step = "send"]
     ELSE /\ watcher' = [watcher EXCEPT ![k] = NotWatching]
          /\ UNCHANGED delivery
  /\ UNCHANGED <<ledgerVars, sent, faults>>

\* The responder: the message goes out, or an exception leaves it open whether
\* it did.
Send(k) ==
  LET e == <<watcher[k].task, watcher[k].number>> IN
  /\ watcher[k].step = "send"
  /\ \/ /\ sent' = [sent EXCEPT ![e] = @ + 1]
        /\ \E s \in {"delivered", "uncertain"} : watcher' = [watcher EXCEPT ![k].step = s]
     \/ /\ watcher' = [watcher EXCEPT ![k].step = "uncertain"]
        /\ UNCHANGED sent
  /\ UNCHANGED <<ledgerVars, delivery, faults>>

\* settle_delivery: a result somebody acknowledged meanwhile stays acknowledged.
SettleDelivery(k) ==
  LET e == <<watcher[k].task, watcher[k].number>> IN
  /\ watcher[k].step \in {"delivered", "uncertain"}
  /\ delivery' = IF delivery[e] = "sending" THEN [delivery EXCEPT ![e] = watcher[k].step]
                 ELSE delivery
  /\ watcher' = [watcher EXCEPT ![k] = NotWatching]
  /\ UNCHANGED <<ledgerVars, sent, faults>>

\* The service closes between two polls, or the controller dies at any step.
StopWatching(k) ==
  /\ watcher[k].step # "idle"
  /\ IF watcher[k].step = "poll" THEN UNCHANGED faults ELSE Stall
  /\ watcher' = [watcher EXCEPT ![k] = NotWatching]
  /\ UNCHANGED <<ledgerVars, delivery, sent>>

\* acknowledge_delivery: the owner stops asking about an ambiguous send.
AcknowledgeDelivery(t) ==
  /\ current[t] > 0 /\ delivery[<<t, current[t]>>] \in {"sending", "uncertain"}
  /\ delivery' = [delivery EXCEPT ![<<t, current[t]>>] = "acknowledged"]
  /\ UNCHANGED <<ledgerVars, watchVars, faults>>
=============================================================================

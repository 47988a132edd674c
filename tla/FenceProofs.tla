----------------------------- MODULE FenceProofs -----------------------------
(***************************************************************************)
(* The claim fence and the single delivery of a result, for every instance *)
(* of the control plane.  Both rest on one invariant: what a claim row     *)
(* covers is the current execution, still open and without a result; a     *)
(* result exists only for executions the task has already reached; and a   *)
(* thread about to send holds a result nobody else can take.  Hence        *)
(* finish() never turns a result that was claimed for sending back into a  *)
(* pending one, whatever resumes, recovers or crashes in between.          *)
(***************************************************************************)
EXTENDS OperationProofs

\* The execution under task t's claim.
Ongoing(t) == execution[<<t, current[t]>>] \in {"running", "cancelling"}

\* An unreleased claim covers the current execution, which has no result yet.
Fenced == \A t \in Tasks : Claimed(t) => /\ claimExec[t] = current[t] /\ current[t] >= 1
                                         /\ Ongoing(t)
                                         /\ delivery[<<t, current[t]>>] = "none"

\* Only executions up to the current one have results.
ResultsPast == \A e \in Executions : delivery[e] # "none" => e[2] <= current[e[1]]

\* The execution whose result delivery thread k has read.
Result(k)  == <<watcher[k].task, watcher[k].number>>
Sending(k) == watcher[k].step = "send"
Taken(e)   == delivery[e] \notin {"none", "pending"}

\* A thread that looked at a result looked at a recorded execution.
Addressed == \A k \in Watchers : watcher[k].step \notin {"idle", "poll"}
                                   => watcher[k].number >= 1
\* A thread about to send has taken the result, and has it alone and unsent.
Senders == /\ \A k \in Watchers : Sending(k) => Taken(Result(k)) /\ sent[Result(k)] = 0
           /\ \A k, l \in Watchers : Sending(k) /\ Sending(l) /\ Result(k) = Result(l) => k = l

\* A sent result stays taken.
SentResults == \A e \in Executions : sent[e] > 0 => Taken(e)

Delivered == ResultsPast /\ Addressed /\ Senders /\ SentResults /\ SentOnce
Guarded   == Fenced /\ Delivered

-----------------------------------------------------------------------------
\* A transaction keeps the fence if it claims nothing, records no result and
\* ends no execution under a claim.
LEMMA FencedKept ==
  ASSUME Fenced, UNCHANGED <<claimExec, current, delivery>>,
         \A t \in Tasks : Claimed(t)' => Claimed(t) /\ (Ongoing(t) => Ongoing(t)')
  PROVE  Fenced'
BY DEF Fenced

\* It keeps the deliveries if it touches none of their columns.
LEMMA DeliveredKept ==
  ASSUME Delivered, UNCHANGED <<current, delivery, watcher, sent>>
  PROVE  Delivered'
BY DEF Delivered, ResultsPast, Addressed, Senders, SentResults, SentOnce, Sending, Result, Taken

\* Most transactions touch nothing of either.
LEMMA GuardedKept ==
  ASSUME Guarded, UNCHANGED <<claim, claimExec, current, execution, delivery, watcher, sent>>
  PROVE  Guarded'
BY FencedKept, DeliveredKept DEF Guarded, Claimed, Ongoing

\* Settling reviews ends only executions that wait for an approval.
LEMMA ReviewKeepsGuarded ==
  ASSUME TypeOK, Guarded, NEW S, NEW ended,
         UNCHANGED <<claim, claimExec, current, delivery, watcher, sent>>,
         execution' = ReviewExecution(S, ended)
  PROVE  Guarded'
<1>1. \A e \in Executions : execution[e] \in {"running", "cancelling"}
                              => execution'[e] = execution[e]
  BY DEF TypeOK, ResultTypeOK, ReviewExecution, Assign
<1>2. \A t \in Tasks : Claimed(t) => <<t, current[t]>> \in Executions
  BY DEF Guarded, Fenced, TypeOK, TaskTypeOK, Executions
<1> QED
  BY <1>1, <1>2, FencedKept, DeliveredKept DEF Guarded, Claimed, Ongoing

\* Settling closed plans asks running applies to stop and ends only waits.
LEMMA SettledKeepsRuns ==
  ASSUME NEW S, NEW closed, NEW st, NEW el, NEW ex \in [Executions -> ExecStatus],
         NEW ap, NEW pl, NEW e \in Executions, ex[e] \in {"running", "cancelling"}
  PROVE  Settled(S, closed, st, el, ex, ap, pl).execution[e] \in {"running", "cancelling"}
<1>1. PICK A, B, C :
        /\ Settled(S, closed, st, el, ex, ap, pl).execution =
             Assign(Assign(Assign(ex, A, "cancelling"), B, "cancelled"), C, "lost")
        /\ \A r \in B \cup C : ex[r] = "awaiting_approval"
  BY SettledRows
<1> QED
  BY <1>1 DEF Assign

-----------------------------------------------------------------------------
\* claim() opens a fence around the next execution, which has no result.
LEMMA GuardedClaim ==
  ASSUME TypeOK, TypeOK', Guarded, NEW t \in Tasks, NEW w \in Workers, Claim(t, w)
  PROVE  Guarded'
<1> DEFINE n == current[t] + 1
<1>1. n \in 1 .. MaxExecs /\ <<t, n>> \in Executions
  BY DEF TypeOK, TaskTypeOK, Claim, Executions
<1>2. delivery[<<t, n>>] = "none"
  BY <1>1 DEF Guarded, Delivered, ResultsPast, TypeOK, TaskTypeOK
<1>3. /\ claim' = [claim EXCEPT ![t] = "held"]
      /\ claimExec' = [claimExec EXCEPT ![t] = n]
      /\ current' = [current EXCEPT ![t] = n]
      /\ execution' = [execution EXCEPT ![<<t, n>>] = "running"]
      /\ UNCHANGED <<delivery, watcher, sent>>
  BY DEF Claim, watchVars
<1>4. Fenced'
  <2> SUFFICES ASSUME NEW u \in Tasks, Claimed(u)'
               PROVE  /\ claimExec'[u] = current'[u] /\ current'[u] >= 1 /\ Ongoing(u)'
                      /\ delivery'[<<u, current'[u]>>] = "none"
    BY DEF Fenced
  <2>1. CASE u = t
    BY <1>1, <1>2, <1>3, <2>1 DEF Ongoing, TypeOK, TaskTypeOK, ResultTypeOK, ClaimTypeOK
  <2>2. CASE u # t
    <3>1. Claimed(u) /\ current'[u] = current[u] /\ claimExec'[u] = claimExec[u]
      BY <1>3, <2>2 DEF Claimed, TypeOK, TaskTypeOK, ClaimTypeOK
    <3>2. execution'[<<u, current[u]>>] = execution[<<u, current[u]>>]
      BY <1>3, <2>2 DEF TypeOK, ResultTypeOK
    <3> QED
      BY <1>3, <3>1, <3>2 DEF Guarded, Fenced, Ongoing
  <2> QED
    BY <2>1, <2>2
<1>5. ResultsPast'
  BY <1>1, <1>3 DEF Guarded, Delivered, ResultsPast, TypeOK, TaskTypeOK, Executions
<1>6. Addressed' /\ Senders' /\ SentResults' /\ SentOnce'
  BY <1>3 DEF Guarded, Delivered, Addressed, Senders, SentResults, SentOnce, Sending,
     Result, Taken
<1> QED
  BY <1>4, <1>5, <1>6 DEF Guarded, Delivered

\* An expired claim still fences its execution.
LEMMA GuardedClaimExpires ==
  ASSUME TypeOK, Guarded, NEW t \in Tasks, ClaimExpires(t)
  PROVE  Guarded'
<1>1. \A u \in Tasks : Claimed(u)' => Claimed(u)
  BY DEF TypeOK, ClaimTypeOK, ClaimExpires, Claimed
<1>2. UNCHANGED <<claimExec, current, execution, delivery, watcher, sent>>
  BY DEF ClaimExpires, taskVars, resultVars, watchVars
<1> QED
  BY <1>1, <1>2, FencedKept, DeliveredKept DEF Guarded, Ongoing

\* recover() ends executions only together with their claims.
LEMMA GuardedRecover ==
  ASSUME TypeOK, Guarded, Recover
  PROVE  Guarded'
<1>1. UNCHANGED <<claimExec, current, delivery, watcher, sent>>
  BY DEF Recover, watchVars
<1>2. \A t \in Tasks : Claimed(t)' => Claimed(t) /\ (Ongoing(t) => Ongoing(t)')
  <2> SUFFICES ASSUME NEW t \in Tasks, Claimed(t)', Ongoing(t) PROVE Claimed(t) /\ Ongoing(t)'
    BY DEF Recover, Released, Claimed, Assign, TypeOK, ClaimTypeOK
  <2> DEFINE S == {u \in Interrupted : current[u] > 0}
  <2>1. Claimed(t) /\ t \notin S
    BY DEF Recover, Released, Claimed, Assign, TypeOK, ClaimTypeOK
  <2>2. <<t, current[t]>> \in Executions
    BY <2>1 DEF Guarded, Fenced, TypeOK, TaskTypeOK, Executions
  <2>3. <<t, current[t]>> \notin CurrentOf(S)
    BY <2>1 DEF CurrentOf
  <2>4. execution'[<<t, current[t]>>] = execution[<<t, current[t]>>]
    BY <2>2, <2>3 DEF Recover, Assign, TypeOK, ResultTypeOK
  <2> QED
    BY <1>1, <2>1, <2>4 DEF Ongoing
<1> QED
  BY <1>1, <1>2, FencedKept, DeliveredKept DEF Guarded

\* cancel ends an execution only when its claim is released or was expired.
LEMMA GuardedCancel ==
  ASSUME TypeOK, Guarded, NEW t \in Tasks, Cancel(t)
  PROVE  Guarded'
<1>1. UNCHANGED <<claimExec, current, delivery, watcher, sent>>
  BY DEF Cancel, watchVars
<1>2. \A S, e : e \in Executions /\ execution[e] \in {"running", "cancelling"}
                => AskedToStop(S)[e] \in {"running", "cancelling"}
  BY DEF AskedToStop, Assign, TypeOK, ResultTypeOK
<1>3. \A S : AskedToStop(S) \in [Executions -> ExecStatus]
  BY WithdrawnTypes
<1>4. \A u \in Tasks : Claimed(u)' => Claimed(u) /\ (Ongoing(u) => Ongoing(u)')
  <2> SUFFICES ASSUME NEW u \in Tasks, Claimed(u)' PROVE Claimed(u) /\ (Ongoing(u) => Ongoing(u)')
    OBVIOUS
  <2>1. Claimed(u)
    BY DEF Cancel, Released, Assign, Claimed, TypeOK, ClaimTypeOK
  <2>2. <<u, current[u]>> \in Executions
    BY <2>1 DEF Guarded, Fenced, TypeOK, TaskTypeOK, Executions
  <2>3. CASE Attended(t)
    <3>1. execution' = [AskedToStop(AppliesOf(t)) EXCEPT ![<<t, current[t]>>] = "cancelling"]
      BY <2>3 DEF Cancel
    <3> QED
      BY <1>1, <1>2, <1>3, <2>1, <2>2, <3>1 DEF Ongoing
  <2>4. CASE ~Attended(t)
    <3>1. u # t
      BY <2>4 DEF Cancel, Released, Assign, Claimed, TypeOK, ClaimTypeOK
    <3>2. \E v : execution' = Assign(AskedToStop(AppliesOf(t)),
                                     {e \in ExecutionsOf(t) : execution[e] \notin ExecTerminal}, v)
      BY <2>4 DEF Cancel
    <3>3. execution'[<<u, current[u]>>] = AskedToStop(AppliesOf(t))[<<u, current[u]>>]
      BY <1>3, <2>2, <3>1, <3>2 DEF Assign, ExecutionsOf
    <3> QED
      BY <1>1, <1>2, <2>1, <2>2, <3>3 DEF Ongoing
  <2> QED
    BY <2>3, <2>4
<1> QED
  BY <1>1, <1>4, FencedKept, DeliveredKept DEF Guarded

\* A result is recorded only where none was: nobody has taken or sent it.
LEMMA GuardedResult ==
  ASSUME TypeOK, TypeOK', Guarded, NEW e \in Executions, delivery[e] = "none", e[2] <= current'[e[1]],
         \A t \in Tasks : current[t] <= current'[t],
         delivery' = [delivery EXCEPT ![e] = "pending"], UNCHANGED <<watcher, sent>>
  PROVE  Delivered'
<1>1. ~Taken(e)
  BY DEF Taken
<1>2. \A x \in Executions : x # e => (Taken(x)' <=> Taken(x))
  BY DEF Taken, TypeOK, ResultTypeOK
<1>3. \A k \in Watchers : Sending(k) => Result(k) # e /\ Result(k) \in Executions
  BY <1>1 DEF Guarded, Delivered, Senders, Addressed, Sending, Result, TypeOK, WatchTypeOK,
     Watching, NotWatching, Executions
<1>4. ResultsPast'
  <2> SUFFICES ASSUME NEW x \in Executions, delivery'[x] # "none" PROVE x[2] <= current'[x[1]]
    BY DEF ResultsPast
  <2>1. CASE x = e
    BY <2>1
  <2>2. CASE x # e
    <3>1. x[1] \in Tasks /\ x[2] \in Int
      BY DEF Executions, MaxExecs
    <3>2. x[2] <= current[x[1]]
      BY <2>2 DEF Guarded, Delivered, ResultsPast, TypeOK, ResultTypeOK
    <3> QED
      BY <3>1, <3>2 DEF TypeOK, TaskTypeOK
  <2> QED
    BY <2>1, <2>2
<1>5. Senders'
  BY <1>2, <1>3 DEF Guarded, Delivered, Senders, Sending, Result
<1>6. SentResults'
  BY <1>1, <1>2 DEF Guarded, Delivered, SentResults
<1> QED
  BY <1>4, <1>5, <1>6 DEF Guarded, Delivered, Addressed, SentOnce

\* finish() commits the one execution under the claim and releases it.
LEMMA GuardedFinish ==
  ASSUME TypeOK, TypeOK', Guarded, NEW e \in Executions, Finish(e)
  PROVE  Guarded'
<1>1. UNCHANGED <<claimExec, current, watcher, sent>>
  BY DEF Finish, watchVars
<1>2. CASE UNCHANGED <<claim, execution, delivery>>
  BY <1>1, <1>2, GuardedKept
<1>3. CASE /\ ~Stale(e)
           /\ \E r : execution' = [execution EXCEPT ![e] = r]
           /\ claim' = [claim EXCEPT ![e[1]] = "released"]
           /\ delivery' = [delivery EXCEPT ![e] = "pending"]
  <2>1. e[1] \in Tasks /\ e = <<e[1], current[e[1]]>>
    BY <1>3 DEF Stale, Executions
  <2>2. delivery[e] = "none"
    BY <1>3, <2>1 DEF Stale, Renewable, Guarded, Fenced, Claimed
  <2>3. Fenced'
    <3> SUFFICES ASSUME NEW t \in Tasks, Claimed(t)'
                 PROVE  /\ claimExec'[t] = current'[t] /\ current'[t] >= 1 /\ Ongoing(t)'
                        /\ delivery'[<<t, current'[t]>>] = "none"
      BY DEF Fenced
    <3>1. t # e[1] /\ Claimed(t)
      BY <1>3 DEF Claimed, TypeOK, ClaimTypeOK
    <3>2. <<t, current[t]>> # e
      BY <3>1
    <3> QED
      BY <1>1, <1>3, <3>1, <3>2 DEF Guarded, Fenced, Ongoing, TypeOK, ResultTypeOK
  <2>4. e[2] <= current'[e[1]] /\ \A t \in Tasks : current[t] <= current'[t]
    BY <1>1, <2>1 DEF TypeOK, TaskTypeOK
  <2>5. Delivered'
    BY <1>1, <1>3, <2>2, <2>4, GuardedResult
  <2> QED
    BY <2>3, <2>5 DEF Guarded
<1> QED
  BY <1>2, <1>3 DEF Finish

\* record_start_failure only writes the result of a task that was never claimed.
LEMMA GuardedRecordStartFailure ==
  ASSUME TypeOK, TypeOK', Guarded, NEW t \in Tasks, RecordStartFailure(t)
  PROVE  Guarded'
<1>1. UNCHANGED <<claim, claimExec, watcher, sent>>
  BY DEF RecordStartFailure, claimVars, watchVars
<1>2. CASE UNCHANGED <<current, execution, delivery>>
  BY <1>1, <1>2, GuardedKept
<1>3. CASE /\ current[t] = 0
           /\ current' = [current EXCEPT ![t] = 1]
           /\ execution' = [execution EXCEPT ![<<t, 1>>] = "failed"]
           /\ delivery' = [delivery EXCEPT ![<<t, 1>>] = "pending"]
  <2>1. <<t, 1>> \in Executions
    BY LedgerAssumption DEF Executions, MaxExecs
  <2>2. delivery[<<t, 1>>] = "none"
    BY <1>3, <2>1 DEF Guarded, Delivered, ResultsPast
  <2>3. \A u \in Tasks : current[u] <= current'[u]
    BY <1>3 DEF TypeOK, TaskTypeOK
  <2>4. 1 <= current'[t]
    BY <1>3 DEF TypeOK, TaskTypeOK
  <2>5. Delivered'
    BY <1>1, <1>3, <2>1, <2>2, <2>3, <2>4, GuardedResult
  <2>6. Fenced'
    <3> SUFFICES ASSUME NEW u \in Tasks, Claimed(u)'
                 PROVE  /\ claimExec'[u] = current'[u] /\ current'[u] >= 1 /\ Ongoing(u)'
                        /\ delivery'[<<u, current'[u]>>] = "none"
      BY DEF Fenced
    <3>1. Claimed(u)
      BY <1>1 DEF Claimed
    <3>2. current[u] >= 1
      BY <3>1 DEF Guarded, Fenced
    <3>3. u # t
      BY <1>3, <3>2
    <3> QED
      BY <1>1, <1>3, <3>1, <3>3 DEF Guarded, Fenced, Ongoing, TypeOK, TaskTypeOK, ResultTypeOK
  <2> QED
    BY <2>5, <2>6 DEF Guarded
<1> QED
  BY <1>2, <1>3 DEF RecordStartFailure

-----------------------------------------------------------------------------
\* A result that changes hands keeps the fence: it belongs to no open claim.
LEMMA FencedDelivery ==
  ASSUME TypeOK, Fenced, UNCHANGED <<claim, claimExec, current, execution>>,
         \A e \in Executions : delivery[e] = "none" => delivery'[e] = "none"
  PROVE  Fenced'
<1>1. \A t \in Tasks : Claimed(t) => <<t, current[t]>> \in Executions
  BY DEF Fenced, TypeOK, TaskTypeOK, Executions
<1> QED
  BY <1>1 DEF Fenced, Claimed, Ongoing

\* claim_delivery takes a pending result, which nobody has sent or is sending.
LEMMA GuardedClaimDelivery ==
  ASSUME TypeOK, Guarded, NEW k \in Watchers, ClaimDelivery(k)
  PROVE  Guarded'
<1> DEFINE e == Result(k)
<1>1. watcher[k].step = "claim" /\ e \in Executions
  BY DEF ClaimDelivery, Guarded, Delivered, Addressed, Result, TypeOK, WatchTypeOK, Watching,
     NotWatching, Executions
<1>2. UNCHANGED <<claim, claimExec, current, execution, sent>>
  BY DEF ClaimDelivery, ledgerVars, claimVars, taskVars
<1>3. CASE delivery' = delivery /\ watcher' = [watcher EXCEPT ![k] = NotWatching]
  BY <1>2, <1>3, FencedDelivery DEF Guarded, Delivered, ResultsPast, Addressed, Senders,
     SentResults, SentOnce, Sending, Result, Taken, NotWatching, TypeOK, WatchTypeOK
<1>4. CASE /\ delivery[e] = "pending"
           /\ delivery' = [delivery EXCEPT ![e] = "sending"]
           /\ watcher' = [watcher EXCEPT ![k].step = "send"]
  <2>1. \A x \in Executions : delivery[x] = "none" => delivery'[x] = "none"
    BY <1>4 DEF TypeOK, ResultTypeOK
  <2>2. Fenced'
    BY <1>2, <2>1, FencedDelivery DEF Guarded
  <2>3. \A l \in Watchers : /\ Result(l)' = Result(l)
                            /\ watcher'[l].step = IF l = k THEN "send" ELSE watcher[l].step
                            /\ watcher'[l].number = watcher[l].number
    BY <1>4 DEF Result, TypeOK, WatchTypeOK, Watching, NotWatching
  <2>4. \A x : Taken(x) => Taken(x)'
    BY <1>4 DEF Taken, TypeOK, ResultTypeOK
  <2>5. Taken(e)' /\ ~Taken(e)
    BY <1>1, <1>4, <2>3 DEF Taken, TypeOK, ResultTypeOK
  <2>6. sent[e] = 0
    BY <1>1, <2>5 DEF Guarded, Delivered, SentResults, TypeOK, WatchTypeOK
  <2>7. ResultsPast'
    BY <1>1, <1>2, <1>4 DEF Guarded, Delivered, ResultsPast, TypeOK, ResultTypeOK
  <2>8. Addressed'
    BY <1>1, <2>3 DEF Guarded, Delivered, Addressed
  <2>9. Senders'
    BY <1>2, <2>3, <2>4, <2>5, <2>6 DEF Guarded, Delivered, Senders, Sending
  <2>10. SentResults' /\ SentOnce'
    BY <1>2, <2>4 DEF Guarded, Delivered, SentResults, SentOnce
  <2> QED
    BY <2>2, <2>7, <2>8, <2>9, <2>10 DEF Guarded, Delivered
<1> QED
  BY <1>1, <1>3, <1>4 DEF ClaimDelivery, Deliverable, Result

\* The responder is called by the only thread that holds the result.
LEMMA GuardedSend ==
  ASSUME TypeOK, Guarded, NEW k \in Watchers, Send(k)
  PROVE  Guarded'
<1> DEFINE e == Result(k)
<1>1. Sending(k) /\ Taken(e) /\ sent[e] = 0
  BY DEF Send, Sending, Guarded, Delivered, Senders
<1>2. e \in Executions
  BY <1>1 DEF Sending, Guarded, Delivered, Addressed, Result, TypeOK, WatchTypeOK, Watching,
     NotWatching, Executions
<1>3. UNCHANGED <<claim, claimExec, current, execution, delivery>>
  BY DEF Send, ledgerVars, claimVars, taskVars
<1>4. \A l \in Watchers : /\ Result(l)' = Result(l)
                          /\ watcher'[l].number = watcher[l].number
                          /\ l # k => watcher'[l].step = watcher[l].step
  BY DEF Send, Result, TypeOK, WatchTypeOK, Watching, NotWatching
<1>5. ~Sending(k)'
  BY DEF Send, Sending, TypeOK, WatchTypeOK, Watching, NotWatching
<1>6. sent' = sent \/ sent' = [sent EXCEPT ![e] = 1]
  BY <1>1, <1>2 DEF Send, Result, TypeOK, WatchTypeOK
<1>7. Fenced' /\ ResultsPast' /\ Addressed'
  BY <1>1, <1>3, <1>4, FencedDelivery DEF Guarded, Delivered, ResultsPast, Addressed, Sending
<1>8. Senders'
  <2>1. ASSUME NEW l \in Watchers, Sending(l)' PROVE Sending(l) /\ Result(l) # e
    BY <1>1, <1>4, <1>5, <2>1 DEF Guarded, Delivered, Senders, Sending
  <2>2. ASSUME NEW l \in Watchers, Sending(l)' PROVE Taken(Result(l))' /\ sent'[Result(l)'] = 0
    <3>1. Sending(l) /\ Result(l) # e /\ Result(l)' = Result(l)
      BY <1>4, <2>1, <2>2
    <3>2. Taken(Result(l)) /\ sent[Result(l)] = 0
      BY <3>1 DEF Guarded, Delivered, Senders
    <3>3. Result(l) \in Executions
      BY <3>1 DEF Sending, Guarded, Delivered, Addressed, Result, TypeOK, WatchTypeOK, Watching,
         NotWatching, Executions
    <3>4. sent'[Result(l)] = 0
      BY <1>6, <3>1, <3>2, <3>3 DEF TypeOK, WatchTypeOK
    <3> QED
      BY <1>3, <3>1, <3>2, <3>4 DEF Taken
  <2> QED
    BY <1>4, <2>1, <2>2 DEF Guarded, Delivered, Senders
<1>9. SentResults' /\ SentOnce'
  BY <1>1, <1>2, <1>3, <1>6 DEF Guarded, Delivered, SentResults, SentOnce, Taken, TypeOK, WatchTypeOK
<1> QED
  BY <1>7, <1>8, <1>9 DEF Guarded, Delivered

\* Threads that start, poll, give up or settle leave no result pending again.
LEMMA GuardedQuietThread ==
  ASSUME TypeOK, Guarded, NEW k \in Watchers, NEW r,
         UNCHANGED <<claim, claimExec, current, execution, sent>>,
         \A e \in Executions : delivery[e] = "none" => delivery'[e] = "none",
         \A e : Taken(e) => Taken(e)',
         watcher' = [watcher EXCEPT ![k] = r], r.step # "send",
         r.step \in {"idle", "poll"} \/ r.number >= 1
  PROVE  Guarded'
<1>1. Fenced' /\ ResultsPast'
  BY FencedDelivery DEF Guarded, Delivered, ResultsPast
<1>2. \A l \in Watchers : watcher'[l] = IF l = k THEN r ELSE watcher[l]
  BY DEF TypeOK, WatchTypeOK
<1>3. Addressed'
  BY <1>2 DEF Guarded, Delivered, Addressed
<1>4. \A l \in Watchers : Sending(l)' => Sending(l) /\ Result(l)' = Result(l)
  BY <1>2 DEF Sending, Result
<1>5. Senders'
  <2>1. ASSUME NEW l \in Watchers, Sending(l)' PROVE Taken(Result(l))' /\ sent'[Result(l)'] = 0
    <3>1. Taken(Result(l)) /\ sent[Result(l)] = 0 /\ Result(l)' = Result(l)
      BY <1>4, <2>1 DEF Guarded, Delivered, Senders
    <3> QED
      BY <3>1 DEF Taken
  <2> QED
    BY <1>4, <2>1 DEF Guarded, Delivered, Senders
<1>6. SentResults' /\ SentOnce'
  BY DEF Guarded, Delivered, SentResults, SentOnce
<1> QED
  BY <1>1, <1>3, <1>5, <1>6 DEF Guarded, Delivered

\* The other steps of a delivery thread are such threads' steps.
LEMMA GuardedWatcher ==
  ASSUME TypeOK, Guarded, NEW k \in Watchers, Watcher(k)
  PROVE  Guarded'
<1>1. CASE ClaimDelivery(k) \/ Send(k)
  BY <1>1, GuardedClaimDelivery, GuardedSend
<1>2. CASE Poll(k) \/ StopWatching(k) \/ \E t \in Tasks : Watch(k, t)
  <2>1. UNCHANGED <<claim, claimExec, current, execution, sent, delivery>>
    BY <1>2 DEF Poll, StopWatching, Watch, ledgerVars, claimVars, taskVars
  <2>2. PICK r : /\ watcher' = [watcher EXCEPT ![k] = r] /\ r.step # "send"
                 /\ r.step \in {"idle", "poll"} \/ r.number >= 1
    <3>0. NotWatching.step = "idle"
      BY DEF NotWatching
    <3>1. CASE StopWatching(k)
      BY <3>0, <3>1 DEF StopWatching
    <3>2. CASE \E t \in Tasks : Watch(k, t)
      <4>1. PICK t, a : watcher' = [watcher EXCEPT ![k] = [step |-> "poll", task |-> t,
                                                           attempt |-> a, number |-> 0]]
        BY <3>2, Zenon DEF Watch
      <4> DEFINE polling == [step |-> "poll", task |-> t, attempt |-> a, number |-> 0]
      <4>2. polling.step = "poll"
        OBVIOUS
      <4> HIDE DEF polling
      <4>3. watcher' = [watcher EXCEPT ![k] = polling]
        BY <4>1 DEF polling
      <4> QED
        BY <4>2, <4>3
    <3>3. CASE Poll(k) /\ watcher' = [watcher EXCEPT ![k] = NotWatching]
      BY <3>0, <3>3
    <3>4. CASE Poll(k) /\ watcher' # [watcher EXCEPT ![k] = NotWatching]
      <4> DEFINE n == current[watcher[k].task]
                 r == [watcher[k] EXCEPT !.step = "claim", !.number = n]
      <4>1. n > 0 /\ watcher' = [watcher EXCEPT ![k] = r]
        BY <3>4 DEF Poll, TypeOK, WatchTypeOK
      <4>2. watcher[k] = [step |-> watcher[k].step, task |-> watcher[k].task,
                          attempt |-> watcher[k].attempt, number |-> watcher[k].number]
        BY DEF TypeOK, WatchTypeOK, Watching, NotWatching
      <4>3. r.step = "claim" /\ r.number = n
        BY <4>2
      <4>4. watcher[k].task \in Tasks
        BY <3>4 DEF Poll, TypeOK, WatchTypeOK, Watching, NotWatching
      <4>5. n >= 1
        BY <4>1, <4>4 DEF TypeOK, TaskTypeOK
      <4> QED
        BY <4>1, <4>3, <4>5
    <3> QED
      BY <1>2, <3>1, <3>2, <3>3, <3>4
  <2>3. \A e : Taken(e) => Taken(e)'
    BY <2>1 DEF Taken
  <2> QED
    BY <2>1, <2>2, <2>3, GuardedQuietThread
<1>3. CASE SettleDelivery(k)
  <2>1. /\ UNCHANGED <<claim, claimExec, current, execution, sent>>
        /\ watcher' = [watcher EXCEPT ![k] = NotWatching]
    BY <1>3 DEF SettleDelivery, ledgerVars, claimVars, taskVars
  <2>2. \A e \in Executions : delivery[e] = "none" => delivery'[e] = "none"
    BY <1>3 DEF SettleDelivery, TypeOK, ResultTypeOK
  <2>3. \A e : Taken(e) => Taken(e)'
    BY <1>3 DEF SettleDelivery, Taken, TypeOK, ResultTypeOK
  <2>4. NotWatching.step = "idle"
    BY DEF NotWatching
  <2> QED
    BY <2>1, <2>2, <2>3, <2>4, GuardedQuietThread
<1> QED
  BY <1>1, <1>2, <1>3 DEF Watcher

\* acknowledge_delivery keeps a taken result taken.
LEMMA GuardedAcknowledgeDelivery ==
  ASSUME TypeOK, Guarded, NEW t \in Tasks, AcknowledgeDelivery(t)
  PROVE  Guarded'
<1>1. UNCHANGED <<claim, claimExec, current, execution, watcher, sent>>
  BY DEF AcknowledgeDelivery, ledgerVars, claimVars, taskVars, watchVars
<1>2. \A e \in Executions : delivery[e] = "none" => delivery'[e] = "none"
  BY DEF AcknowledgeDelivery, TypeOK, ResultTypeOK
<1>3. \A e : Taken(e) => Taken(e)'
  BY DEF AcknowledgeDelivery, Taken, TypeOK, ResultTypeOK
<1>4. Fenced' /\ ResultsPast'
  BY <1>1, <1>2, FencedDelivery DEF Guarded, Delivered, ResultsPast
<1>5. Senders'
  BY <1>1, <1>3 DEF Guarded, Delivered, Senders, Sending, Result
<1>6. Addressed' /\ SentResults' /\ SentOnce'
  BY <1>1, <1>3 DEF Guarded, Delivered, Addressed, SentResults, SentOnce
<1> QED
  BY <1>4, <1>5, <1>6 DEF Guarded, Delivered

-----------------------------------------------------------------------------
\* Closing a plan ends only executions that wait for an approval.
LEMMA GuardedClosedPlans ==
  ASSUME TypeOK, Guarded, Maintenance \/ \E p \in Plans : Revoke(p)
  PROVE  Guarded'
<1>1. CASE Recover
  BY <1>1, GuardedRecover
<1>2. CASE MaintainDrafts
  BY <1>2, ReviewKeepsGuarded DEF MaintainDrafts, claimVars, watchVars
<1>3. CASE SettleExpired \/ \E p \in Plans : Revoke(p)
  <2>1. UNCHANGED <<claim, claimExec, current, delivery, watcher, sent>>
    BY <1>3 DEF SettleExpired, Revoke, claimVars, watchVars
  <2>2. \A e \in Executions : execution[e] \in {"running", "cancelling"}
                                => execution'[e] \in {"running", "cancelling"}
    <3>1. CASE \E p \in Plans : Revoke(p)
      BY <3>1, SettledKeepsRuns DEF Revoke, TypeOK, ResultTypeOK
    <3>2. CASE SettleExpired
      <4> DEFINE expired == {p \in Plans : plan[p] \in PlanOpen /\ ~planFresh[p]}
                 after   == Assign(plan, expired, "expired")
                 s1 == Settled({TaskOf(p) : p \in expired}, "expired",
                               status, eligible, execution, approval, after)
                 s2 == Settled(Leftover(s1.status, s1.execution, after), "rejected",
                               s1.status, s1.eligible, s1.execution, s1.approval, after)
      <4>1. execution' = s2.execution
        BY <3>2 DEF SettleExpired
      <4>2. s1.execution \in [Executions -> ExecStatus]
        BY SettledTypes DEF TypedRows, TypeOK, TaskTypeOK, ResultTypeOK, ReviewTypeOK
      <4>3. \A e \in Executions : execution[e] \in {"running", "cancelling"}
                                    => s1.execution[e] \in {"running", "cancelling"}
        BY SettledKeepsRuns DEF TypeOK, ResultTypeOK
      <4>4. \A e \in Executions : s1.execution[e] \in {"running", "cancelling"}
                                    => s2.execution[e] \in {"running", "cancelling"}
        BY <4>2, SettledKeepsRuns
      <4> HIDE DEF s1, s2
      <4> QED
        BY <4>1, <4>3, <4>4
    <3> QED
      BY <1>3, <3>1, <3>2
  <2>3. \A t \in Tasks : Claimed(t) => <<t, current[t]>> \in Executions
    BY DEF Guarded, Fenced, TypeOK, TaskTypeOK, Executions
  <2> QED
    BY <2>1, <2>2, <2>3, FencedKept, DeliveredKept DEF Guarded, Claimed, Ongoing
<1> QED
  BY <1>1, <1>2, <1>3 DEF Maintenance

\* Linking a plan settles the review of the plan it replaces.
LEMMA GuardedDrafts ==
  ASSUME TypeOK, Guarded,
         \/ \E e \in Executions : Propose(e) \/ Clear(e)
         \/ \E d \in Requests : CloseDraft(d)
         \/ \E d, c \in Requests, w \in Workers : OpenDraft(d, c, w)
  PROVE  Guarded'
<1> DEFINE Apart == UNCHANGED <<claim, claimExec, current, delivery, watcher, sent>>
           Reviews == UNCHANGED execution
                      \/ \E S, ended : execution' = ReviewExecution(S, ended)
<1>1. ASSUME NEW e \in Executions, Propose(e) PROVE Apart /\ Reviews
  <2>1. CASE Linkable(e, using[e], Assign(plan, OpenPlans(e[1]), "revoked"))
    <3>1. Apart /\ \E p \in Plans : LinkPlan(e, using[e], p)
      BY <1>1, <2>1, Zenon DEF Propose, claimVars, watchVars, LinkPlan
    <3>2. Reviews
      BY <3>1, Zenon DEF LinkPlan
    <3> QED
      BY <3>1, <3>2
  <2>2. CASE ~Linkable(e, using[e], Assign(plan, OpenPlans(e[1]), "revoked"))
    BY <1>1, <2>2, Zenon DEF Propose, claimVars, watchVars, resultVars
  <2> QED
    BY <2>1, <2>2
<1>2. ASSUME NEW e \in Executions, Clear(e) PROVE Apart /\ Reviews
  <2>1. CASE Linkable(e, using[e], plan)
    <3>1. Apart /\ LinkPlan(e, using[e], None)
      BY <1>2, <2>1, Zenon DEF Clear, claimVars, watchVars, LinkPlan
    <3>2. Reviews
      BY <3>1, Zenon DEF LinkPlan
    <3> QED
      BY <3>1, <3>2
  <2>2. CASE ~Linkable(e, using[e], plan)
    BY <1>2, <2>2, Zenon DEF Clear, claimVars, watchVars, resultVars
  <2> QED
    BY <2>1, <2>2
<1>3. ASSUME NEW d \in Requests, CloseDraft(d) PROVE Apart /\ Reviews
  BY <1>3, Zenon DEF CloseDraft, claimVars, watchVars
<1>4. ASSUME NEW d \in Requests, NEW c \in Requests, NEW w \in Workers, OpenDraft(d, c, w)
      PROVE  Apart /\ Reviews
  BY <1>4, Zenon DEF OpenDraft, claimVars, watchVars
<1>5. Apart /\ Reviews
  BY <1>1, <1>2, <1>3, <1>4
<1> QED
  BY <1>5, ReviewKeepsGuarded, GuardedKept

\* Everything else leaves claims, executions and results alone.
LEMMA GuardedElsewhere ==
  ASSUME TypeOK, Guarded,
         \/ \E w \in Workers : \/ StartWorker(w) \/ Heartbeat(w) \/ HeartbeatLapses(w)
                              \/ StopWorker(w) \/ CloseWorker(w) \/ Crash(w)
         \/ \E t \in Tasks : Dismiss(t)
         \/ \E t \in Tasks, w \in Workers : Submit(t, w) \/ SubmitUnlaunched(t, w) \/ Resume(t, w)
         \/ \E p \in Plans : Resolve(p) \/ PlanExpires(p)
         \/ \E p \in Plans, c \in Applies, w \in Workers : Approve(p, c, w)
         \/ \E e \in Executions, k \in {"approved", "rejected", "expired"} : DecideApproval(e, k)
         \/ \E d \in Requests : DraftExpires(d)
         \/ \E s \in Workspaces, x \in Paths : OutsideEdit(s, x)
         \/ \E q \in Plans : Observe(q) \/ Withdraw(q)
         \/ \E e \in Executions : \/ Start(e) \/ ModelReturns(e) \/ RequestScope(e)
                                 \/ OpenOwnDraft(e) \/ Preview(e) \/ Apply(e)
                                 \/ Settle(e) \/ Monitor(e)
         \/ UNCHANGED vars
  PROVE  Guarded'
<1> SUFFICES UNCHANGED <<claim, claimExec, current, execution, delivery, watcher, sent>>
  BY GuardedKept
<1>1. CASE \E w \in Workers : \/ StartWorker(w) \/ Heartbeat(w) \/ HeartbeatLapses(w)
                             \/ StopWorker(w) \/ CloseWorker(w) \/ Crash(w)
  BY <1>1 DEF StartWorker, Heartbeat, HeartbeatLapses, StopWorker, CloseWorker, Crash,
     taskVars, resultVars, claimVars, watchVars
<1>2. CASE \/ \E t \in Tasks : Dismiss(t)
           \/ \E t \in Tasks, w \in Workers : Submit(t, w) \/ SubmitUnlaunched(t, w) \/ Resume(t, w)
           \/ \E p \in Plans, c \in Applies, w \in Workers : Approve(p, c, w)
  BY <1>2 DEF Dismiss, Submit, SubmitUnlaunched, Resume, Approve, resultVars, claimVars, watchVars
<1>3. CASE \/ \E p \in Plans : Resolve(p) \/ PlanExpires(p)
           \/ \E e \in Executions, k \in {"approved", "rejected", "expired"} : DecideApproval(e, k)
           \/ \E d \in Requests : DraftExpires(d)
           \/ \E s \in Workspaces, x \in Paths : OutsideEdit(s, x)
           \/ \E q \in Plans : Observe(q) \/ Withdraw(q)
  BY <1>3 DEF Resolve, PlanExpires, DecideApproval, DraftExpires, OutsideEdit, Observe, Withdraw,
     LetGo, taskVars, resultVars, claimVars, watchVars
<1>4. CASE \E e \in Executions : \/ Start(e) \/ ModelReturns(e) \/ RequestScope(e)
                                \/ OpenOwnDraft(e) \/ Preview(e) \/ Settle(e) \/ Monitor(e)
  BY <1>4 DEF Start, ModelReturns, RequestScope, OpenOwnDraft, Preview, Settle, Monitor,
     taskVars, resultVars, claimVars, watchVars
<1>5. ASSUME NEW e \in Executions, Apply(e)
      PROVE  UNCHANGED <<claim, claimExec, current, execution, delivery, watcher, sent>>
  <2>1. CASE ApplyBegin(e)
    BY <2>1, Zenon DEF ApplyBegin, taskVars, resultVars, claimVars, watchVars
  <2>2. CASE ApplyCommit(e)
    BY <2>2, Zenon DEF ApplyCommit, taskVars, resultVars, claimVars, watchVars
  <2>3. CASE ApplyUndo(e)
    BY <2>3, Zenon DEF ApplyUndo, taskVars, resultVars, claimVars, watchVars
  <2>4. ASSUME NEW x \in Paths, Mutate(e, x) \/ JournalApplied(e, x)
        PROVE  UNCHANGED <<claim, claimExec, current, execution, delivery, watcher, sent>>
    BY <2>4, Zenon DEF Mutate, JournalApplied, taskVars, resultVars, claimVars, watchVars
  <2>5. CASE ApplyBreaks(e)
    BY <2>5, Zenon DEF ApplyBreaks, taskVars, resultVars, claimVars, watchVars
  <2> QED
    BY <1>5, <2>1, <2>2, <2>3, <2>4, <2>5 DEF Apply
<1>6. CASE UNCHANGED vars
  BY <1>6 DEF vars, taskVars, resultVars, claimVars, watchVars
<1> QED
  BY <1>1, <1>2, <1>3, <1>4, <1>5, <1>6

-----------------------------------------------------------------------------
\* The empty ledger has neither claims nor results.
LEMMA GuardedInit == Init => Guarded
BY DEF Init, Guarded, Fenced, Claimed, Delivered, ResultsPast, Addressed, Senders,
   SentResults, SentOnce, Sending, NotWatching

\* Every step keeps the fence and the deliveries.
LEMMA GuardedNext == TypeOK /\ TypeOK' /\ Guarded /\ [Next]_vars => Guarded'
<1> SUFFICES ASSUME TypeOK, TypeOK', Guarded, [Next]_vars PROVE Guarded'
  OBVIOUS
<1>1. ASSUME NEW w \in Workers, Process(w) PROVE Guarded'
  BY <1>1, GuardedClaim, GuardedElsewhere DEF Process
<1>2. ASSUME NEW k \in Watchers, Watcher(k) PROVE Guarded'
  BY <1>2, GuardedWatcher
<1>3. CASE Owner
  <2>1. CASE \E t \in Tasks : AcknowledgeDelivery(t) \/ Cancel(t) \/ RecordStartFailure(t)
    BY <2>1, GuardedAcknowledgeDelivery, GuardedCancel, GuardedRecordStartFailure
  <2>2. CASE \/ \E p \in Plans : Revoke(p)
             \/ \E d \in Requests : CloseDraft(d)
             \/ \E d, c \in Requests, w \in Workers : OpenDraft(d, c, w)
    BY <2>2, GuardedClosedPlans, GuardedDrafts
  <2>3. CASE \/ \E t \in Tasks : Dismiss(t)
             \/ \E t \in Tasks, w \in Workers : Submit(t, w) \/ SubmitUnlaunched(t, w) \/ Resume(t, w)
             \/ \E p \in Plans : Resolve(p) \/ Observe(p) \/ Withdraw(p)
             \/ \E p \in Plans, c \in Applies, w \in Workers : Approve(p, c, w)
             \/ \E e \in Executions, k \in {"approved", "rejected", "expired"} : DecideApproval(e, k)
    BY <2>3, GuardedElsewhere
  <2> QED
    BY <1>3, <2>1, <2>2, <2>3 DEF Owner
<1>4. CASE Maintenance
  BY <1>4, GuardedClosedPlans
<1>5. CASE Clock
  BY <1>5, GuardedClaimExpires, GuardedElsewhere DEF Clock
<1>6. ASSUME NEW e \in Executions, Thread(e) \/ Monitor(e) PROVE Guarded'
  BY <1>6, GuardedFinish, GuardedDrafts, GuardedElsewhere DEF Thread, Request
<1>7. CASE UNCHANGED vars
  BY <1>7, GuardedElsewhere
<1> QED
  BY <1>1, <1>2, <1>3, <1>4, <1>5, <1>6, <1>7 DEF Next

\* The invariant behind both theorems.
LEMMA GuardedAlways == Spec => []Guarded
<1>1. Init => Guarded
  BY GuardedInit
<1>2. TypeOK /\ TypeOK' /\ Guarded /\ [Next]_vars => Guarded'
  BY GuardedNext
<1> QED
  BY <1>1, <1>2, TypeCorrect, PTL DEF Spec

\* claim(), recover(), cancel() and finish() never leave an unreleased claim on an
\* execution that is over or that is not the task's current one.
THEOREM ClaimFenceCorrect == Spec => []ClaimFence
<1>1. Guarded => ClaimFence
  BY DEF Guarded, Fenced, Ongoing, ClaimFence
<1> QED
  BY <1>1, GuardedAlways, PTL

\* However many delivery threads compete, and whatever is resumed, recovered or
\* killed meanwhile, the responder is called at most once for an execution's result.
THEOREM SentOnceCorrect == Spec => []SentOnce
<1>1. Guarded => SentOnce
  BY DEF Guarded, Delivered
<1> QED
  BY <1>1, GuardedAlways, PTL
=============================================================================

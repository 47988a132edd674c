---------------------------- MODULE UploadsProofs ----------------------------
(***************************************************************************)
(* Proofs about the document transfer, for any number of jobs, owners,     *)
(* processes, messages, consents and faults, and any length of the file's  *)
(* history.                                                                *)
(***************************************************************************)
EXTENDS DocumentUploads, FiniteSetTheorems, TLAPS

\* A job is claimed once, by its thread; an owner has one open claim.
Leased ==
  /\ \A j \in Jobs :
       /\ jobStatus[j] = "none" => lease[j] = "none"
       /\ lease[j] = "none" => /\ stage[j] = "none" /\ found[j] = "none"
                               /\ saved[j] = "none" /\ step[j] = "idle"
       /\ stage[j] \in {"working", "returned"} => lease[j] \in {"held", "expired"}
       /\ saved[j] # "none" => lease[j] = "released"
  /\ \A i, j \in Jobs : i # j /\ JobOwner[i] = JobOwner[j]
                          => ~(lease[i] \in {"held", "expired"} /\ lease[j] \in {"held", "expired"})

\* What an outcome, returned or saved, says of the coroutine.
Says(r, j) == /\ r = "succeeded" => step[j] = "sent"
              /\ r = "cancelled" => step[j] \in {"idle", "stopped"}
Reported ==
  \A j \in Jobs :
    /\ stage[j] = "working" => found[j] = "none"
    /\ stage[j] = "returned" => found[j] # "none"
    /\ Says(found[j], j) /\ Says(saved[j], j)
    /\ step[j] \in {"idle", "scheduled", "stopped"} => transfer[j] = "none"
    /\ step[j] = "sending" => transfer[j] = "begun"
    /\ step[j] = "sent" => transfer[j] = "done"

\* A job is bound when it is submitted, to the version its consent was asked for; a
\* transfer under a consent has spent it.
Consented ==
  /\ \A j \in Jobs :
       /\ using[j] # NoConsent => consent[using[j]] # "none" /\ scope[using[j]] = expected[j]
       /\ using[j] = NoConsent /\ jobStatus[j] # "none" => expected[j] \notin Private
       /\ using[j] # NoConsent /\ transfer[j] # "none" => consent[using[j]] = "approved"
  /\ \A i, j \in Jobs : i # j /\ using[i] = using[j] /\ using[i] # NoConsent
                          => transfer[i] = "none" \/ transfer[j] = "none"

\* The messages a process knows, or has dropped the claim of.
Known == {p \in Messages \X Services : IF p[2] \in Recording THEN p[1] \in claimed
                                         ELSE p[1] \in Heard(p[2]) \/ p \in evicted}

\* Among the processes that record a message waits in one, until its command submits
\* one job; in any other it comes back only after its claim was dropped.
Carried ==
  /\ waiting \subseteq Known
  /\ \A m \in Messages, s, t \in Recording : <<m, s>> \in waiting /\ <<m, t>> \in waiting => s = t
  /\ \A j \in Jobs : jobStatus[j] # "none" =>
       /\ <<carrier[j], Home[j]>> \in Known
       /\ Home[j] \in Recording => \A s \in Recording : <<carrier[j], s>> \notin waiting
       /\ <<carrier[j], Home[j]>> \in waiting => <<carrier[j], Home[j]>> \in evicted
  /\ \A i, j \in Jobs :
       /\ i # j /\ jobStatus[i] # "none" /\ jobStatus[j] # "none" /\ carrier[i] = carrier[j]
       => /\ ~(Home[i] \in Recording /\ Home[j] \in Recording)
          /\ Home[i] = Home[j] => <<carrier[i], Home[i]>> \in evicted

\* A cancellation under way is about a submitted job.
Aimed == \A c \in Cancellers : seen[c] \notin {"idle", "ended"} => jobStatus[aim[c]] # "none"

UploadsInv == UploadsTypeOK /\ Leased /\ Reported /\ Consented /\ Carried /\ Aimed

LEMMA UploadsStart == UploadsInit => UploadsInv
<1> SUFFICES ASSUME UploadsInit PROVE UploadsInv
  OBVIOUS
<1>1. UploadsTypeOK
  <2>1. Owners # {}
    BY JobsAssumption, JobOwnerAssumption
  <2>2. /\ (CHOOSE j \in Jobs : TRUE) \in Jobs /\ (CHOOSE o \in Owners : TRUE) \in Owners
    BY <2>1, JobsAssumption
  <2>3. JobsTypeOK
    BY <2>2 DEF UploadsInit, JobsInit, JobsTypeOK
  <2>4. ClaimsTypeOK
    BY DEF UploadsInit, ClaimsTypeOK
  <2>5. QED
    BY <2>2, <2>3, <2>4, LimitsAssumption DEF UploadsInit, UploadsTypeOK, Versions
<1>2. Leased /\ Reported /\ Consented /\ Carried /\ Aimed
  BY DEF UploadsInit, JobsInit, Leased, Reported, Says, Consented, Carried, Aimed
<1>3. QED
  BY <1>1, <1>2 DEF UploadsInv

\* Nothing but an arrival touches the claims, and only a submission carries a message.
LEMMA CarriedKeeps ==
  ASSUME ClaimsTypeOK, Carried, UNCHANGED claimed, UNCHANGED recent, UNCHANGED evicted,
         UNCHANGED carrier, waiting' \subseteq waiting,
         \A j \in Jobs : jobStatus[j] = "none" => jobStatus'[j] = "none"
  PROVE  ClaimsTypeOK' /\ Carried'
<1>1. ClaimsTypeOK'
  BY DEF ClaimsTypeOK
<1>2. Known' = Known
  BY DEF Known, Heard
<1>3. Carried'
  BY <1>2 DEF Carried
<1>4. QED
  BY <1>1, <1>3

-----------------------------------------------------------------------------
(***************************************************************************)
(* The task service                                                        *)
(***************************************************************************)
LEMMA DispatchKeeps ==
  ASSUME UploadsInv, NEW j \in Jobs, Dispatch(j), UNCHANGED uploadVars
  PROVE  UploadsInv'
<1> USE DEF UploadsInv, Dispatch, uploadVars, claimVars
<1>0. ClaimsTypeOK' /\ Carried'
  BY CarriedKeeps DEF UploadsTypeOK, JobsTypeOK, Aimed
<1>1. UploadsTypeOK'
  BY <1>0 DEF UploadsTypeOK, JobsTypeOK, JobActive
<1>2. Leased'
  BY DEF UploadsTypeOK, JobsTypeOK, Leased, LeaseFree
<1>3. Reported'
  BY DEF UploadsTypeOK, JobsTypeOK, Leased, LeaseFree, Reported, Says
<1>4. Consented' /\ Aimed'
  BY DEF UploadsTypeOK, JobsTypeOK, Consented, Aimed
<1>5. QED
  BY <1>0, <1>1, <1>2, <1>3, <1>4

LEMMA MonitorKeeps ==
  ASSUME UploadsInv, NEW j \in Jobs, MonitorJob(j), UNCHANGED uploadVars
  PROVE  UploadsInv'
<1> USE DEF UploadsInv, MonitorJob, uploadVars, claimVars, ledgerVars, localVars
<1>0. ClaimsTypeOK' /\ Carried'
  BY CarriedKeeps DEF UploadsTypeOK, JobsTypeOK, Aimed
<1>1. UploadsTypeOK'
  BY <1>0 DEF UploadsTypeOK, JobsTypeOK, JobActive, JobTerminal, JobOutcomes, AttemptTerminal
<1>2. Leased'
  BY DEF UploadsTypeOK, JobsTypeOK, Leased
<1>3. Reported'
  BY DEF UploadsTypeOK, JobsTypeOK, Leased, Reported, Says
<1>4. Consented' /\ Aimed'
  BY DEF UploadsTypeOK, JobsTypeOK, JobTerminal, Consented, Aimed
<1>5. QED
  BY <1>0, <1>1, <1>2, <1>3, <1>4

LEMMA FinishKeeps ==
  ASSUME UploadsInv, NEW j \in Jobs, FinishJob(j), UNCHANGED uploadVars
  PROVE  UploadsInv'
<1> USE DEF UploadsInv, uploadVars, claimVars
<1>1. /\ UNCHANGED <<turn, handlers, stopping, leaseLost, found, service, aim, seen, crashes>>
      /\ stage[j] = "returned"
  BY DEF FinishJob
<1>2. CASE lease[j] = "held" /\ attempt[j] \notin AttemptTerminal
  <2> DEFINE r == Accepted(j)
             status == CASE r = "succeeded" -> "completed"
                         [] r = "timed_out" -> "failed"
                         [] OTHER           -> r
  <2>1. r \in JobOutcomes /\ (r \in {"succeeded", "cancelled"} => r = found[j])
    BY <1>1 DEF Accepted, UploadsTypeOK, JobsTypeOK, Reported, JobOutcomes
  <2>2. status \in JobActive \cup JobTerminal
    BY <2>1 DEF JobOutcomes, JobActive, JobTerminal
  <2>3. /\ jobStatus' = [jobStatus EXCEPT ![j] = status]
        /\ attempt' = [attempt EXCEPT ![j] = IF r = "blocked" THEN "lost" ELSE r]
        /\ lease' = [lease EXCEPT ![j] = "released"]
        /\ saved' = [saved EXCEPT ![j] = r]
        /\ told' = [told EXCEPT ![j] = "pending"]
        /\ stage' = [stage EXCEPT ![j] = "saved"]
    BY <1>2 DEF FinishJob
  <2> HIDE DEF r, status
  <2>4. \A i \in Jobs : jobStatus'[i] = "none" <=> jobStatus[i] = "none"
    BY <1>1, <2>2, <2>3 DEF UploadsTypeOK, JobsTypeOK, Leased, JobActive, JobTerminal
  <2>5. ClaimsTypeOK' /\ Carried'
    BY <2>4, CarriedKeeps DEF UploadsTypeOK
  <2>6. UploadsTypeOK'
    BY <1>1, <2>1, <2>2, <2>3, <2>5 DEF UploadsTypeOK, JobsTypeOK, JobOutcomes, AttemptTerminal
  <2>7. Leased'
    BY <1>1, <2>1, <2>2, <2>3
    DEF UploadsTypeOK, JobsTypeOK, Leased, JobOutcomes, JobActive, JobTerminal
  <2>8. Reported'
    BY <1>1, <2>1, <2>3 DEF UploadsTypeOK, JobsTypeOK, Reported, Says
  <2>9. Consented' /\ Aimed'
    BY <1>1, <2>4 DEF UploadsTypeOK, JobsTypeOK, Consented, Aimed
  <2>10. QED
    BY <2>5, <2>6, <2>7, <2>8, <2>9
<1>3. CASE ~(lease[j] = "held" /\ attempt[j] \notin AttemptTerminal)
  <2>1. /\ stage' = [stage EXCEPT ![j] = "leaving"]
        /\ UNCHANGED <<jobStatus, attempt, lease, saved, told>>
    BY <1>3 DEF FinishJob
  <2>2. ClaimsTypeOK' /\ Carried'
    BY <2>1, CarriedKeeps DEF UploadsTypeOK
  <2>3. UploadsTypeOK' /\ Leased' /\ Reported'
    BY <1>1, <2>1, <2>2 DEF UploadsTypeOK, JobsTypeOK, Leased, Reported, Says
  <2>4. Consented' /\ Aimed'
    BY <1>1, <2>1 DEF Consented, Aimed
  <2>5. QED
    BY <2>2, <2>3, <2>4
<1>4. QED
  BY <1>2, <1>3

LEMMA AnswerKeeps ==
  ASSUME UploadsInv, NEW j \in Jobs, ReserveAnswer(j) \/ AnswerJob(j), UNCHANGED uploadVars
  PROVE  UploadsInv'
<1> USE DEF UploadsInv, ReserveAnswer, AnswerJob, uploadVars, claimVars, ledgerVars, localVars
<1>0. ClaimsTypeOK' /\ Carried'
  BY CarriedKeeps DEF UploadsTypeOK, JobsTypeOK, Aimed
<1>1. UploadsTypeOK'
  BY <1>0 DEF UploadsTypeOK, JobsTypeOK, JobActive, JobTerminal, JobOutcomes, AttemptTerminal
<1>2. Leased'
  BY DEF UploadsTypeOK, JobsTypeOK, Leased
<1>3. Reported'
  BY DEF UploadsTypeOK, JobsTypeOK, Leased, Reported, Says
<1>4. Consented' /\ Aimed'
  BY DEF UploadsTypeOK, JobsTypeOK, JobTerminal, Consented, Aimed
<1>5. QED
  BY <1>0, <1>1, <1>2, <1>3, <1>4

LEMMA LeaveKeeps ==
  ASSUME UploadsInv, NEW j \in Jobs, LeaveJob(j), UNCHANGED uploadVars
  PROVE  UploadsInv'
<1> USE DEF UploadsInv, LeaveJob, uploadVars, claimVars, ledgerVars, localVars
<1>0. ClaimsTypeOK' /\ Carried'
  BY CarriedKeeps DEF UploadsTypeOK, JobsTypeOK, Aimed
<1>1. UploadsTypeOK'
  BY <1>0 DEF UploadsTypeOK, JobsTypeOK, JobActive, JobTerminal, JobOutcomes, AttemptTerminal
<1>2. Leased'
  BY DEF UploadsTypeOK, JobsTypeOK, Leased
<1>3. Reported'
  BY DEF UploadsTypeOK, JobsTypeOK, Leased, Reported, Says
<1>4. Consented' /\ Aimed'
  BY DEF UploadsTypeOK, JobsTypeOK, JobTerminal, Consented, Aimed
<1>5. QED
  BY <1>0, <1>1, <1>2, <1>3, <1>4

LEMMA ExpiryKeeps ==
  ASSUME UploadsInv, NEW j \in Jobs, LeaseExpires(j), UNCHANGED uploadVars
  PROVE  UploadsInv'
<1> USE DEF UploadsInv, LeaseExpires, uploadVars, claimVars, ledgerVars, localVars
<1>0. ClaimsTypeOK' /\ Carried'
  BY CarriedKeeps DEF UploadsTypeOK, JobsTypeOK, Aimed
<1>1. UploadsTypeOK'
  BY <1>0 DEF UploadsTypeOK, JobsTypeOK, JobActive, JobTerminal, JobOutcomes, AttemptTerminal
<1>2. Leased'
  BY DEF UploadsTypeOK, JobsTypeOK, Leased
<1>3. Reported'
  BY DEF UploadsTypeOK, JobsTypeOK, Leased, Reported, Says
<1>4. Consented' /\ Aimed'
  BY DEF UploadsTypeOK, JobsTypeOK, JobTerminal, Consented, Aimed
<1>5. QED
  BY <1>0, <1>1, <1>2, <1>3, <1>4

LEMMA ReadTaskKeeps ==
  ASSUME UploadsInv, NEW c \in Cancellers, NEW j \in Jobs, ReadTask(c, j), UNCHANGED uploadVars
  PROVE  UploadsInv'
<1> USE DEF UploadsInv, ReadTask, uploadVars, claimVars, ledgerVars, localVars
<1>0. ClaimsTypeOK' /\ Carried'
  BY CarriedKeeps DEF UploadsTypeOK, JobsTypeOK, Aimed
<1>1. UploadsTypeOK'
  BY <1>0 DEF UploadsTypeOK, JobsTypeOK, JobActive, JobTerminal, JobOutcomes, AttemptTerminal
<1>2. Leased'
  BY DEF UploadsTypeOK, JobsTypeOK, Leased
<1>3. Reported'
  BY DEF UploadsTypeOK, JobsTypeOK, Leased, Reported, Says
<1>4. Consented' /\ Aimed'
  BY DEF UploadsTypeOK, JobsTypeOK, JobTerminal, Consented, Aimed
<1>5. QED
  BY <1>0, <1>1, <1>2, <1>3, <1>4

LEMMA CancelAttemptKeeps ==
  ASSUME UploadsInv, NEW c \in Cancellers, CancelAttempt(c), UNCHANGED uploadVars
  PROVE  UploadsInv'
<1> USE DEF UploadsInv, CancelAttempt, uploadVars, claimVars, ledgerVars, localVars
<1>0. ClaimsTypeOK' /\ Carried'
  BY CarriedKeeps DEF UploadsTypeOK, JobsTypeOK, Aimed
<1>1. UploadsTypeOK'
  BY <1>0 DEF UploadsTypeOK, JobsTypeOK, JobActive, JobTerminal, JobOutcomes, AttemptTerminal
<1>2. Leased'
  BY DEF UploadsTypeOK, JobsTypeOK, Leased
<1>3. Reported'
  BY DEF UploadsTypeOK, JobsTypeOK, Leased, Reported, Says
<1>4. \A j \in Jobs : jobStatus'[j] = "none" <=> jobStatus[j] = "none"
  BY DEF UploadsTypeOK, JobsTypeOK, Aimed
<1>5. Consented'
  BY <1>4 DEF Consented
<1>6. Aimed'
  BY <1>4 DEF UploadsTypeOK, JobsTypeOK, Aimed
<1>7. QED
  BY <1>0, <1>1, <1>2, <1>3, <1>5, <1>6

LEMMA SignalKeeps ==
  ASSUME UploadsInv, NEW c \in Cancellers, SignalJob(c), UNCHANGED uploadVars
  PROVE  UploadsInv'
<1> USE DEF UploadsInv, SignalJob, uploadVars, claimVars, ledgerVars, localVars
<1>0. ClaimsTypeOK' /\ Carried'
  BY CarriedKeeps DEF UploadsTypeOK, JobsTypeOK, Aimed
<1>1. UploadsTypeOK'
  BY <1>0 DEF UploadsTypeOK, JobsTypeOK, JobActive, JobTerminal, JobOutcomes, AttemptTerminal
<1>2. Leased'
  BY DEF UploadsTypeOK, JobsTypeOK, Leased
<1>3. Reported'
  BY DEF UploadsTypeOK, JobsTypeOK, Leased, Reported, Says
<1>4. Consented' /\ Aimed'
  BY DEF UploadsTypeOK, JobsTypeOK, JobTerminal, Consented, Aimed
<1>5. QED
  BY <1>0, <1>1, <1>2, <1>3, <1>4

LEMMA CancelUnclaimedKeeps ==
  ASSUME UploadsInv, NEW c \in Cancellers, CancelUnclaimed(c), UNCHANGED uploadVars
  PROVE  UploadsInv'
<1> USE DEF UploadsInv, CancelUnclaimed, uploadVars, claimVars, ledgerVars, localVars
<1>0. ClaimsTypeOK' /\ Carried'
  BY CarriedKeeps DEF UploadsTypeOK, JobsTypeOK, Aimed
<1>1. UploadsTypeOK'
  BY <1>0 DEF UploadsTypeOK, JobsTypeOK, JobActive, JobTerminal, JobOutcomes, AttemptTerminal
<1>2. Leased'
  BY DEF UploadsTypeOK, JobsTypeOK, Leased
<1>3. Reported'
  BY DEF UploadsTypeOK, JobsTypeOK, Leased, Reported, Says
<1>4. Consented' /\ Aimed'
  BY DEF UploadsTypeOK, JobsTypeOK, JobTerminal, Consented, Aimed
<1>5. QED
  BY <1>0, <1>1, <1>2, <1>3, <1>4

LEMMA CloseKeeps ==
  ASSUME UploadsInv, NEW s \in Services, CloseService(s), UNCHANGED uploadVars
  PROVE  UploadsInv'
<1> USE DEF UploadsInv, CloseService, uploadVars, claimVars, ledgerVars, localVars
<1>0. ClaimsTypeOK' /\ Carried'
  BY CarriedKeeps DEF UploadsTypeOK, JobsTypeOK, Aimed
<1>1. UploadsTypeOK'
  BY <1>0 DEF UploadsTypeOK, JobsTypeOK, JobActive, JobTerminal, JobOutcomes, AttemptTerminal
<1>2. Leased'
  BY DEF UploadsTypeOK, JobsTypeOK, Leased
<1>3. Reported'
  BY DEF UploadsTypeOK, JobsTypeOK, Leased, Reported, Says
<1>4. Consented' /\ Aimed'
  BY DEF UploadsTypeOK, JobsTypeOK, JobTerminal, Consented, Aimed
<1>5. QED
  BY <1>0, <1>1, <1>2, <1>3, <1>4

LEMMA EndServiceKeeps ==
  ASSUME UploadsInv, NEW s \in Services, EndService(s), UNCHANGED uploadVars
  PROVE  UploadsInv'
<1> USE DEF UploadsInv, EndService, uploadVars, claimVars, ledgerVars, localVars
<1>0. ClaimsTypeOK' /\ Carried'
  BY CarriedKeeps DEF UploadsTypeOK, JobsTypeOK, Aimed
<1>1. UploadsTypeOK'
  BY <1>0 DEF UploadsTypeOK, JobsTypeOK, JobActive, JobTerminal, JobOutcomes, AttemptTerminal
<1>2. Leased'
  BY DEF UploadsTypeOK, JobsTypeOK, Leased
<1>3. Reported'
  BY DEF UploadsTypeOK, JobsTypeOK, Leased, Reported, Says
<1>4. Consented' /\ Aimed'
  BY DEF UploadsTypeOK, JobsTypeOK, JobTerminal, Consented, Aimed
<1>5. QED
  BY <1>0, <1>1, <1>2, <1>3, <1>4

LEMMA ServiceKeeps ==
  UploadsInv /\ ServiceStep /\ UNCHANGED uploadVars => UploadsInv'
BY DispatchKeeps, MonitorKeeps, FinishKeeps, AnswerKeeps, LeaveKeeps, ExpiryKeeps, ReadTaskKeeps,
   CancelAttemptKeeps, SignalKeeps, CancelUnclaimedKeeps, CloseKeeps, EndServiceKeeps
DEF ServiceStep, ThreadStep, CancelStep

-----------------------------------------------------------------------------
(***************************************************************************)
(* The commands                                                            *)
(***************************************************************************)
\* A process that keeps one more claim drops the oldest at most, and notes that.
LEMMA KeepKnows ==
  ASSUME recent \in [Services -> Seq(Messages)], evicted \subseteq Messages \X Services,
         NEW m \in Messages, NEW s \in Services, Keep(m, s)
  PROVE  /\ recent' \in [Services -> Seq(Messages)]
         /\ evicted \subseteq evicted' /\ evicted' \subseteq Messages \X Services
         /\ m \in Heard(s)' \/ <<m, s>> \in evicted'
         /\ \A n \in Messages, t \in Services :
              n \in Heard(t) => n \in Heard(t)' \/ <<n, t>> \in evicted'
<1> DEFINE old  == recent[s]
           kept == Append(old, m)
<1>1. /\ old \in Seq(Messages) /\ kept \in Seq(Messages) /\ Len(kept) = Len(old) + 1
      /\ kept[Len(old) + 1] = m /\ \A k \in 1..Len(old) : kept[k] = old[k]
  OBVIOUS
<1>2. /\ Tail(kept) \in Seq(Messages) /\ Len(Tail(kept)) = Len(old)
      /\ \A k \in 1..Len(old) : Tail(kept)[k] = kept[k + 1]
      /\ Head(kept) = kept[1] /\ Head(kept) \in Messages
  BY <1>1
<1>3. \A t \in Services \ {s} : recent'[t] = recent[t]
  BY DEF Keep
<1>4. recent'[s] = kept \/ (recent'[s] = Tail(kept) /\ <<kept[1], s>> \in evicted')
  BY <1>2 DEF Keep
<1>5. /\ recent' \in [Services -> Seq(Messages)]
      /\ evicted \subseteq evicted' /\ evicted' \subseteq Messages \X Services
  <2>1. \/ recent' = [recent EXCEPT ![s] = Tail(kept)] /\ evicted' = evicted \cup {<<Head(kept), s>>}
        \/ recent' = [recent EXCEPT ![s] = kept] /\ evicted' = evicted
    BY DEF Keep
  <2> HIDE DEF kept
  <2>2. recent' \in [Services -> Seq(Messages)]
    BY <1>1, <1>2, <2>1
  <2>3. evicted \subseteq evicted' /\ evicted' \subseteq Messages \X Services
    BY <1>2, <2>1
  <2>4. QED
    BY <2>2, <2>3
<1>6. \A k \in 1..(Len(old) + 1) : kept[k] \in Heard(s)' \/ <<kept[k], s>> \in evicted'
  <2> SUFFICES ASSUME NEW k \in 1..(Len(old) + 1)
               PROVE  kept[k] \in Heard(s)' \/ <<kept[k], s>> \in evicted'
    OBVIOUS
  <2>1. CASE recent'[s] = kept
    BY <1>1, <2>1 DEF Heard
  <2>2. CASE recent'[s] = Tail(kept) /\ <<kept[1], s>> \in evicted' /\ k # 1
    <3>1. Len(old) \in Nat
      BY <1>1
    <3>2. k - 1 \in 1..Len(old) /\ (k - 1) + 1 = k
      BY <2>2, <3>1
    <3>3. Tail(kept)[k - 1] = kept[k]
      BY <1>2, <3>2
    <3>4. kept[k] \in {recent'[s][i] : i \in 1..Len(recent'[s])}
      BY <1>2, <2>2, <3>2, <3>3
    <3>5. QED
      BY <3>4 DEF Heard
  <2>3. QED
    BY <1>4, <2>1, <2>2
<1>7. m \in Heard(s)' \/ <<m, s>> \in evicted'
  BY <1>1, <1>6
<1>8. ASSUME NEW n \in Messages, NEW t \in Services, n \in Heard(t)
      PROVE  n \in Heard(t)' \/ <<n, t>> \in evicted'
  <2>1. CASE t = s
    BY <1>1, <1>6, <1>8, <2>1 DEF Heard
  <2>2. CASE t # s
    BY <1>3, <1>8, <2>2 DEF Heard
  <2>3. QED
    BY <2>1, <2>2
<1>9. QED
  BY <1>5, <1>7, <1>8

LEMMA ReceiveKeeps ==
  ASSUME UploadsInv, NEW m \in Messages, NEW s \in Services, Receive(m, s)
  PROVE  UploadsInv'
<1> USE DEF UploadsInv, jobVars, consentVars, boundVars
<1>1. /\ waiting' = waiting \cup {<<m, s>>} /\ <<m, s>> \notin waiting /\ New(m, s)
      /\ IF s \in Recording THEN claimed' = claimed \cup {m} /\ UNCHANGED <<recent, evicted>>
                            ELSE Keep(m, s) /\ UNCHANGED claimed
      /\ UNCHANGED <<jobVars, file, consentVars, boundVars, step, transfer>>
  BY DEF Receive
<1>2. ClaimsTypeOK' /\ evicted \subseteq evicted' /\ <<m, s>> \in Known' /\ Known \subseteq Known'
  <2>1. /\ claimed \subseteq Messages /\ recent \in [Services -> Seq(Messages)]
        /\ evicted \subseteq Messages \X Services /\ waiting \subseteq Messages \X Services
    BY DEF UploadsTypeOK, ClaimsTypeOK
  <2>2. CASE s \in Recording
    <3>1. claimed' = claimed \cup {m} /\ recent' = recent /\ evicted' = evicted
      BY <1>1, <2>2
    <3>2. \A t \in Services : Heard(t)' = Heard(t)
      BY <3>1 DEF Heard
    <3>3. QED
      BY <1>1, <2>1, <2>2, <3>1, <3>2 DEF ClaimsTypeOK, Known
  <2>3. CASE s \notin Recording
    <3>1. /\ recent' \in [Services -> Seq(Messages)] /\ claimed' = claimed
          /\ evicted \subseteq evicted' /\ evicted' \subseteq Messages \X Services
          /\ m \in Heard(s)' \/ <<m, s>> \in evicted'
          /\ \A n \in Messages, t \in Services :
               n \in Heard(t) => n \in Heard(t)' \/ <<n, t>> \in evicted'
      BY <1>1, <2>1, <2>3, KeepKnows
    <3>2. QED
      BY <1>1, <2>1, <2>3, <3>1 DEF ClaimsTypeOK, Known
  <2>4. QED
    BY <2>2, <2>3
<1>3. UploadsTypeOK'
  <2>1. JobsTypeOK'
    BY <1>1 DEF UploadsTypeOK, JobsTypeOK
  <2>2. QED
    BY <1>1, <1>2, <2>1 DEF UploadsTypeOK
<1>4. Leased' /\ Reported' /\ Consented' /\ Aimed'
  BY <1>1 DEF Leased, Reported, Says, Consented, Aimed
<1>5. /\ UNCHANGED <<carrier, jobStatus>> /\ Recording \subseteq Services
      /\ \A j \in Jobs : Home[j] \in Services
      /\ \A j \in Jobs : jobStatus[j] # "none" => carrier[j] \in Messages
  BY <1>1, HomeAssumption, ClaimsAssumption DEF UploadsTypeOK, Carried, Known
<1>6. /\ s \in Recording => \A t \in Recording : <<m, t>> \notin Known
      /\ s \notin Recording /\ <<m, s>> \in Known => <<m, s>> \in evicted
  BY <1>1 DEF New, Known
<1>7. Carried'
  <2>1. waiting' \subseteq Known'
    BY <1>1, <1>2 DEF Carried
  <2>2. \A n \in Messages, t, u \in Recording :
          <<n, t>> \in waiting' /\ <<n, u>> \in waiting' => t = u
    BY <1>1, <1>6 DEF Carried
  <2>3. ASSUME NEW j \in Jobs, jobStatus[j] # "none"
        PROVE  /\ <<carrier[j], Home[j]>> \in Known'
               /\ Home[j] \in Recording => \A t \in Recording : <<carrier[j], t>> \notin waiting'
               /\ <<carrier[j], Home[j]>> \in waiting' => <<carrier[j], Home[j]>> \in evicted'
    BY <1>1, <1>2, <1>5, <1>6, <2>3 DEF Carried
  <2>4. QED
    BY <1>2, <1>5, <2>1, <2>2, <2>3 DEF Carried
<1>8. QED
  BY <1>3, <1>4, <1>7

LEMMA AnswerOnlyKeeps ==
  ASSUME UploadsInv, NEW m \in Messages, NEW s \in Services, AnswerOnly(m, s)
  PROVE  UploadsInv'
<1> USE DEF UploadsInv, AnswerOnly, Taken, jobVars, claimVars, consentVars, boundVars
<1>0. ClaimsTypeOK' /\ Carried'
  BY CarriedKeeps DEF UploadsTypeOK, JobsTypeOK, Aimed
<1>1. UploadsTypeOK'
  BY <1>0 DEF UploadsTypeOK, JobsTypeOK
<1>2. Leased' /\ Reported' /\ Consented' /\ Aimed'
  BY DEF Leased, Reported, Says, Consented, Aimed
<1>3. QED
  BY <1>0, <1>1, <1>2

\* A consent in use is there already, and one that was consumed stays so.
LEMMA ConsentsKeep ==
  ASSUME UploadsInv, UNCHANGED <<jobVars, boundVars, transfer>>,
         \A c \in Consents : /\ consent[c] # "none" => /\ consent'[c] # "none"
                                                       /\ scope'[c] = scope[c]
                             /\ consent[c] = "approved" => consent'[c] = "approved"
  PROVE  Consented'
<1> USE DEF UploadsInv, UploadsTypeOK, jobVars, boundVars
<1>1. QED
  BY DEF Consented

LEMMA RequestKeeps ==
  ASSUME UploadsInv, NEW m \in Messages, NEW s \in Services, NEW o \in Owners,
         NEW c \in Consents, RequestUpload(m, s, o, c)
  PROVE  UploadsInv'
<1> USE DEF UploadsInv, Taken
<1> DEFINE lapsed == {d \in PendingConsents(o) : consentAge[d] = "past"}
           closed == [d \in Consents |-> IF d \in lapsed THEN "expired" ELSE consent[d]]
<1>1. /\ UNCHANGED <<jobVars, claimVars, file, consentAge, boundVars, step, transfer>>
      /\ waiting' = waiting \ {<<m, s>>} /\ consent[c] = "none"
  BY DEF RequestUpload
<1>2. \/ /\ consent' = [closed EXCEPT ![c] = "pending"]
         /\ scope' = [scope EXCEPT ![c] = file] /\ asker' = [asker EXCEPT ![c] = o]
      \/ consent' = closed /\ UNCHANGED <<scope, asker>>
  BY DEF RequestUpload
<1>3. \A d \in lapsed : d \in Consents /\ consent[d] = "pending"
  BY DEF PendingConsents
<1> HIDE DEF lapsed
<1>8. closed \in [Consents -> {"none", "pending", "approved", "rejected", "expired"}]
  BY DEF UploadsTypeOK
<1>9. ClaimsTypeOK' /\ Carried'
  BY <1>1, CarriedKeeps DEF UploadsTypeOK, claimVars, jobVars, boundVars
<1>4. UploadsTypeOK'
  <2>1. JobsTypeOK'
    BY <1>1 DEF UploadsTypeOK, JobsTypeOK, jobVars
  <2>2. consent' \in [Consents -> {"none", "pending", "approved", "rejected", "expired"}]
    BY <1>2, <1>8
  <2>3. scope' \in [Consents -> Versions] /\ asker' \in [Consents -> Owners]
    BY <1>2 DEF UploadsTypeOK
  <2>4. QED
    BY <1>1, <1>9, <2>1, <2>2, <2>3 DEF UploadsTypeOK, boundVars
<1>5. Consented'
  <2>1. \A d \in Consents : /\ consent[d] # "none" => /\ consent'[d] # "none"
                                                      /\ scope'[d] = scope[d]
                            /\ consent[d] = "approved" => consent'[d] = "approved"
    <3>1. CASE consent' = closed /\ UNCHANGED <<scope, asker>>
      BY <1>3, <3>1
    <3>2. CASE consent' = [closed EXCEPT ![c] = "pending"] /\ scope' = [scope EXCEPT ![c] = file]
      BY <1>1, <1>3, <1>8, <3>2 DEF UploadsTypeOK
    <3>3. QED
      BY <1>2, <3>1, <3>2
  <2>2. QED
    BY <1>1, <2>1, ConsentsKeep
<1>6. Leased' /\ Reported' /\ Aimed'
  BY <1>1 DEF Leased, Reported, Says, Aimed, jobVars, boundVars
<1>7. QED
  BY <1>4, <1>5, <1>6, <1>9

\* A submission binds a job nobody submitted before.
LEMMA QueueKeeps ==
  ASSUME UploadsInv, NEW m \in Messages, NEW s \in Services, NEW j \in Jobs,
         NEW c \in Consents \cup {NoConsent}, NEW v \in Versions,
         Taken(m, s), QueueUpload(m, s, j, c, v), exact' \subseteq Jobs,
         UNCHANGED <<claimVars, file, consentVars, step, transfer>>,
         IF c = NoConsent THEN v \notin Private ELSE consent[c] # "none" /\ v = scope[c]
  PROVE  UploadsInv'
<1> USE DEF UploadsInv, Taken, consentVars
<1>1. /\ jobStatus[j] = "none" /\ jobStatus' = [jobStatus EXCEPT ![j] = "queued"]
      /\ turn' = [turn EXCEPT ![j] = Cardinality({i \in Jobs : turn[i] > 0}) + 1]
      /\ handlers' = handlers \cup {j}
      /\ UNCHANGED <<attempt, lease, saved, told, stopping, leaseLost, stage, found,
                     service, aim, seen, crashes>>
  BY DEF QueueUpload, SubmitJob
<1>2. /\ using' = [using EXCEPT ![j] = c] /\ expected' = [expected EXCEPT ![j] = v]
      /\ carrier' = [carrier EXCEPT ![j] = m]
  BY DEF QueueUpload
<1>3. Cardinality({i \in Jobs : turn[i] > 0}) \in Nat
  BY JobsAssumption, FS_Subset, FS_CardinalityType
<1>4. JobsTypeOK'
  BY <1>1, <1>3 DEF UploadsTypeOK, JobsTypeOK
<1>5. UploadsTypeOK'
  <2>1. ClaimsTypeOK'
    BY DEF UploadsTypeOK, ClaimsTypeOK, claimVars
  <2>2. QED
    BY <1>2, <1>4, <2>1 DEF UploadsTypeOK
<1>6. transfer[j] = "none"
  BY <1>1 DEF UploadsTypeOK, JobsTypeOK, Leased, Reported
<1>7. Leased' /\ Reported' /\ Aimed'
  BY <1>1 DEF UploadsTypeOK, JobsTypeOK, Leased, Reported, Says, Aimed
<1>8. Consented'
  BY <1>1, <1>2, <1>6 DEF UploadsTypeOK, JobsTypeOK, Consented
<1>9. Carried'
  <2>1. /\ Known' = Known /\ evicted' = evicted /\ waiting' = waiting \ {<<m, s>>}
        /\ <<m, s>> \in waiting /\ Home[j] = s
    BY DEF Known, Heard, claimVars, QueueUpload
  <2>2. /\ carrier'[j] = m /\ \A i \in Jobs \ {j} : carrier'[i] = carrier[i]
        /\ \A i \in Jobs \ {j} : jobStatus'[i] = jobStatus[i]
    BY <1>1, <1>2 DEF UploadsTypeOK, JobsTypeOK
  <2>3. waiting' \subseteq Known'
        /\ \A n \in Messages, t, u \in Recording :
             <<n, t>> \in waiting' /\ <<n, u>> \in waiting' => t = u
    BY <2>1 DEF Carried
  <2>4. ASSUME NEW i \in Jobs, jobStatus'[i] # "none"
        PROVE  /\ <<carrier'[i], Home[i]>> \in Known'
               /\ Home[i] \in Recording => \A t \in Recording : <<carrier'[i], t>> \notin waiting'
               /\ <<carrier'[i], Home[i]>> \in waiting' => <<carrier'[i], Home[i]>> \in evicted'
    <3>1. CASE i = j
      BY <2>1, <2>2, <3>1 DEF Carried
    <3>2. CASE i # j
      BY <2>1, <2>2, <2>4, <3>2 DEF Carried
    <3>3. QED
      BY <3>1, <3>2
  <2>5. ASSUME NEW i \in Jobs, NEW k \in Jobs, i # k, carrier'[i] = carrier'[k],
               jobStatus'[i] # "none", jobStatus'[k] # "none"
        PROVE  /\ ~(Home[i] \in Recording /\ Home[k] \in Recording)
               /\ Home[i] = Home[k] => <<carrier'[i], Home[i]>> \in evicted'
    <3>1. CASE i # j /\ k # j
      BY <2>1, <2>2, <2>5, <3>1 DEF Carried
    <3>2. CASE i = j
      BY <2>1, <2>2, <2>5, <3>2 DEF Carried
    <3>3. CASE k = j
      BY <2>1, <2>2, <2>5, <3>3 DEF Carried
    <3>4. QED
      BY <3>1, <3>2, <3>3
  <2>6. QED
    BY <2>3, <2>4, <2>5 DEF Carried
<1>10. QED
  BY <1>5, <1>7, <1>8, <1>9

LEMMA UploadCleanKeeps ==
  ASSUME UploadsInv, NEW m \in Messages, NEW s \in Services, NEW j \in Jobs, UploadClean(m, s, j)
  PROVE  UploadsInv'
BY QueueKeeps DEF UploadClean, UploadsInv, UploadsTypeOK

LEMMA ApproveKeeps ==
  ASSUME UploadsInv, NEW m \in Messages, NEW s \in Services, NEW j \in Jobs, NEW c \in Consents,
         NEW match \in BOOLEAN, ApproveUpload(m, s, j, c, match)
  PROVE  UploadsInv'
<1>1. exact' \subseteq Jobs /\ scope[c] \in Versions /\ c # NoConsent
  BY NamesAssumption DEF ApproveUpload, UploadsInv, UploadsTypeOK
<1>2. QED
  BY <1>1, QueueKeeps DEF ApproveUpload

LEMMA RejectKeeps ==
  ASSUME UploadsInv, NEW m \in Messages, NEW s \in Services, NEW c \in Consents,
         RejectUpload(m, s, c)
  PROVE  UploadsInv'
<1> USE DEF UploadsInv, RejectUpload, Taken
<1>0. ClaimsTypeOK' /\ Carried'
  BY CarriedKeeps DEF UploadsTypeOK, claimVars, jobVars, boundVars
<1>1. UploadsTypeOK'
  <2>1. JobsTypeOK'
    BY DEF UploadsTypeOK, JobsTypeOK, jobVars
  <2>2. QED
    BY <1>0, <2>1 DEF UploadsTypeOK, boundVars, Closed
<1>2. Consented'
  BY ConsentsKeep DEF UploadsTypeOK, Closed
<1>3. Leased' /\ Reported' /\ Aimed'
  BY DEF Leased, Reported, Says, Aimed, jobVars, boundVars
<1>4. QED
  BY <1>0, <1>1, <1>2, <1>3

-----------------------------------------------------------------------------
(***************************************************************************)
(* The transfer                                                            *)
(***************************************************************************)
\* The callback of a working job returns an outcome that says what its coroutine did.
LEMMA ReturnKeeps ==
  ASSUME UploadsInv, NEW j \in Jobs, NEW r \in JobOutcomes, HandlerReturns(j, r), Says(r, j),
         UNCHANGED uploadVars
  PROVE  UploadsInv'
<1> USE DEF UploadsInv, HandlerReturns, uploadVars, claimVars, ledgerVars
<1>0. ClaimsTypeOK' /\ Carried'
  BY CarriedKeeps DEF UploadsTypeOK, JobsTypeOK, Aimed
<1>1. UploadsTypeOK'
  BY <1>0 DEF UploadsTypeOK, JobsTypeOK
<1>2. Leased'
  BY DEF UploadsTypeOK, JobsTypeOK, Leased
<1>3. Reported'
  BY DEF UploadsTypeOK, JobsTypeOK, Reported, Says, JobOutcomes
<1>4. Consented' /\ Aimed'
  BY DEF Consented, Aimed
<1>5. QED
  BY <1>0, <1>1, <1>2, <1>3, <1>4

\* A coroutine moves on, under a consent it may spend.
LEMMA CoroutineKeeps ==
  ASSUME UploadsInv, NEW j \in Jobs, NEW here \in {"scheduled", "sending", "sent", "stopped", "refused"},
         UNCHANGED <<jobVars, claimVars, waiting, file, scope, consentAge, asker, boundVars>>,
         consent' \in [Consents -> {"none", "pending", "approved", "rejected", "expired"}],
         step' = [step EXCEPT ![j] = here],
         lease[j] # "none", step[j] # "sent",
         step[j] = "idle" => stage[j] = "working",
         step[j] = "stopped" => FALSE,
         here \in {"scheduled", "stopped"} => transfer'[j] = "none",
         here = "sending" => transfer'[j] = "begun",
         here = "sent" => transfer'[j] = "done",
         \A i \in Jobs \ {j} : transfer'[i] = transfer[i],
         transfer' \in [Jobs -> {"none", "begun", "done"}],
         Consented'
  PROVE  UploadsInv'
<1> USE DEF UploadsInv, jobVars, boundVars, claimVars
<1>0. ClaimsTypeOK' /\ Carried'
  BY CarriedKeeps DEF UploadsTypeOK, JobsTypeOK, Aimed
<1>1. UploadsTypeOK'
  BY <1>0 DEF UploadsTypeOK, JobsTypeOK
<1>2. Leased' /\ Aimed'
  BY DEF UploadsTypeOK, Leased, Aimed
<1>3. Reported'
  BY DEF UploadsTypeOK, JobsTypeOK, Leased, Reported, Says
<1>4. QED
  BY <1>0, <1>1, <1>2, <1>3

LEMMA BeginKeeps ==
  ASSUME UploadsInv, NEW j \in Jobs, BeginUpload(j)
  PROVE  UploadsInv'
<1>1. stage[j] = "working" /\ step[j] = "idle"
      /\ UNCHANGED <<claimVars, waiting, file, consentVars, boundVars, transfer>>
  BY DEF BeginUpload
<1>2. CASE j \in stopping
  <2>1. HandlerReturns(j, "cancelled") /\ UNCHANGED uploadVars
    BY <1>1, <1>2 DEF BeginUpload, uploadVars, consentVars, boundVars
  <2>2. Says("cancelled", j) /\ "cancelled" \in JobOutcomes
    BY <1>1 DEF Says, JobOutcomes
  <2>3. QED
    BY <2>1, <2>2, ReturnKeeps
<1>3. CASE j \notin stopping
  <2>1. step' = [step EXCEPT ![j] = "scheduled"] /\ UNCHANGED jobVars
    BY <1>3 DEF BeginUpload
  <2>2. lease[j] # "none" /\ transfer[j] = "none"
    BY <1>1 DEF UploadsInv, Leased, Reported
  <2>3. Consented'
    BY <1>1, <2>1 DEF UploadsInv, Consented, jobVars, consentVars, boundVars
  <2>4. QED
    BY <1>1, <2>1, <2>2, <2>3, CoroutineKeeps DEF UploadsInv, UploadsTypeOK, consentVars
<1>4. QED
  BY <1>2, <1>3

\* Whatever a coroutine finds, it leaves consents that are not pending alone.
LEMMA ConsumptionKeeps ==
  ASSUME UploadsInv, NEW c \in Consents,
         NEW v \in {"none", "pending", "approved", "rejected", "expired"},
         consent[c] # "pending" => v = consent[c], v # "none" \/ consent[c] = "none",
         UNCHANGED <<jobVars, boundVars, transfer, scope>>,
         consent' = [consent EXCEPT ![c] = v]
  PROVE  Consented'
BY ConsentsKeep DEF UploadsInv, UploadsTypeOK

LEMMA SendKeeps ==
  ASSUME UploadsInv, NEW j \in Jobs, SendUpload(j)
  PROVE  UploadsInv'
<1> USE DEF UploadsInv
<1> DEFINE c == using[j]
<1>1. /\ step[j] = "scheduled"
      /\ UNCHANGED <<jobVars, claimVars, waiting, file, scope, consentAge, asker, boundVars>>
  BY DEF SendUpload
<1>2. lease[j] # "none" /\ transfer[j] = "none" /\ jobStatus[j] # "none"
      /\ c \in Consents \cup {NoConsent} /\ (c # NoConsent => consent[c] # "none")
  BY <1>1 DEF Leased, Reported, Consented, UploadsTypeOK
<1>3. CASE /\ step' = [step EXCEPT ![j] = "refused"] /\ UNCHANGED transfer
           /\ consent' = IF c = NoConsent THEN consent ELSE [consent EXCEPT ![c] = Closed(c)]
  <2>1. c # NoConsent => /\ Closed(c) \in {"approved", "rejected", "expired"}
                         /\ consent[c] # "pending" => Closed(c) = consent[c]
    BY <1>2 DEF Closed, UploadsTypeOK
  <2>2. Consented'
    <3>1. CASE c = NoConsent
      BY <1>1, <1>3, <3>1, ConsentsKeep
    <3>2. CASE c # NoConsent
      BY <1>1, <1>2, <1>3, <2>1, <3>2, ConsumptionKeeps
    <3>3. QED
      BY <3>1, <3>2
  <2>3. consent' \in [Consents -> {"none", "pending", "approved", "rejected", "expired"}]
    BY <1>2, <1>3, <2>1 DEF UploadsTypeOK
  <2>4. QED
    BY <1>1, <1>2, <1>3, <2>2, <2>3, CoroutineKeeps DEF UploadsTypeOK
<1>4. CASE step' = [step EXCEPT ![j] = "stopped"] /\ UNCHANGED <<consent, transfer>>
  <2>1. Consented'
    BY <1>1, <1>4, ConsentsKeep
  <2>2. QED
    BY <1>1, <1>2, <1>4, <2>1, CoroutineKeeps DEF UploadsTypeOK
<1>5. CASE /\ c # NoConsent => Grants(c) /\ j \in exact
           /\ consent' = IF c = NoConsent THEN consent ELSE [consent EXCEPT ![c] = "approved"]
           /\ step' = [step EXCEPT ![j] = "sending"]
           /\ transfer' = [transfer EXCEPT ![j] = "begun"]
  <2>1. c # NoConsent => consent[c] = "pending"
    BY <1>5 DEF Grants
  <2>2. consent' \in [Consents -> {"none", "pending", "approved", "rejected", "expired"}]
    BY <1>2, <1>5 DEF UploadsTypeOK
  <2>3. transfer' \in [Jobs -> {"none", "begun", "done"}]
    BY <1>5 DEF UploadsTypeOK
  <2>4. UNCHANGED <<jobStatus, using, expected, scope>>
    BY <1>1 DEF jobVars, boundVars
  <2>5. \A d \in Consents : /\ consent[d] # "none" => consent'[d] # "none"
                            /\ consent[d] = "approved" => consent'[d] = "approved"
    BY <1>2, <1>5, <2>1 DEF UploadsTypeOK
  <2>6. c # NoConsent => consent'[c] = "approved" /\ \A i \in Jobs : using[i] = c => transfer[i] = "none"
    BY <1>2, <1>5, <2>1 DEF UploadsTypeOK, Consented
  <2>7. Consented'
    BY <1>2, <1>5, <2>4, <2>5, <2>6 DEF UploadsTypeOK, Consented
  <2>8. QED
    BY <1>1, <1>2, <1>5, <2>2, <2>3, <2>7, CoroutineKeeps DEF UploadsTypeOK
<1>6. CASE /\ c # NoConsent /\ consent' = [consent EXCEPT ![c] = Spent(c)]
           /\ step' = [step EXCEPT ![j] = "refused"] /\ UNCHANGED transfer
  <2>1. /\ Spent(c) \in {"approved", "rejected", "expired"}
        /\ consent[c] # "pending" => Spent(c) = consent[c]
    BY <1>2, <1>6 DEF Spent, UploadsTypeOK
  <2>2. Consented'
    BY <1>1, <1>2, <1>6, <2>1, ConsumptionKeeps
  <2>3. consent' \in [Consents -> {"none", "pending", "approved", "rejected", "expired"}]
    BY <1>2, <1>6, <2>1 DEF UploadsTypeOK
  <2>4. QED
    BY <1>1, <1>2, <1>6, <2>2, <2>3, CoroutineKeeps DEF UploadsTypeOK
<1>7. QED
  BY <1>3, <1>4, <1>5, <1>6 DEF SendUpload

LEMMA DestinationFailsKeeps ==
  ASSUME UploadsInv, NEW j \in Jobs, DestinationFails(j)
  PROVE  UploadsInv'
<1> USE DEF UploadsInv
<1>1. /\ step[j] = "scheduled" /\ step' = [step EXCEPT ![j] = "refused"]
      /\ UNCHANGED <<jobVars, claimVars, waiting, file, scope, consentAge, asker, boundVars, transfer>>
  BY DEF DestinationFails
<1>2. lease[j] # "none" /\ using[j] \in Consents \cup {NoConsent}
      /\ (using[j] # NoConsent => consent[using[j]] # "none")
  BY <1>1 DEF Leased, Consented, UploadsTypeOK
<1>3. CASE UNCHANGED consent
  <2>1. Consented'
    BY <1>1, <1>3, ConsentsKeep
  <2>2. QED
    BY <1>1, <1>2, <1>3, <2>1, CoroutineKeeps DEF UploadsTypeOK
<1>4. CASE using[j] # NoConsent /\ consent' = [consent EXCEPT ![using[j]] = Closed(using[j])]
  <2>1. /\ Closed(using[j]) \in {"approved", "rejected", "expired"}
        /\ consent[using[j]] # "pending" => Closed(using[j]) = consent[using[j]]
    BY <1>2, <1>4 DEF Closed, UploadsTypeOK
  <2>2. Consented'
    BY <1>1, <1>2, <1>4, <2>1, ConsumptionKeeps
  <2>3. consent' \in [Consents -> {"none", "pending", "approved", "rejected", "expired"}]
    BY <1>2, <1>4, <2>1 DEF UploadsTypeOK
  <2>4. QED
    BY <1>1, <1>2, <2>2, <2>3, CoroutineKeeps DEF UploadsTypeOK
<1>5. QED
  BY <1>3, <1>4 DEF DestinationFails

LEMMA SendEndsKeeps ==
  ASSUME UploadsInv, NEW j \in Jobs, SendEnds(j)
  PROVE  UploadsInv'
<1> USE DEF UploadsInv
<1>1. /\ step[j] = "sending"
      /\ UNCHANGED <<jobVars, claimVars, waiting, file, consentVars, boundVars>>
  BY DEF SendEnds
<1>2. PICK here \in {"sent", "refused"} :
        /\ step' = [step EXCEPT ![j] = here]
        /\ transfer' = IF here = "sent" THEN [transfer EXCEPT ![j] = "done"] ELSE transfer
  BY DEF SendEnds
<1>3. lease[j] # "none" /\ consent' = consent
  BY <1>1 DEF Leased, consentVars
<1>4. transfer[j] = "begun"
  BY <1>1 DEF Reported
<1>5. transfer' \in [Jobs -> {"none", "begun", "done"}]
      /\ \A i \in Jobs : transfer'[i] = "none" <=> transfer[i] = "none"
  BY <1>2, <1>4 DEF UploadsTypeOK
<1>6. Consented'
  BY <1>1, <1>5 DEF Consented, jobVars, consentVars, boundVars
<1>7. /\ here = "sent" => transfer'[j] = "done"
      /\ \A i \in Jobs \ {j} : transfer'[i] = transfer[i]
  BY <1>2 DEF UploadsTypeOK
<1>8. QED
  BY <1>1, <1>2, <1>3, <1>5, <1>6, <1>7, CoroutineKeeps DEF consentVars, UploadsTypeOK

LEMMA EndKeeps ==
  ASSUME UploadsInv, NEW j \in Jobs, EndUpload(j)
  PROVE  UploadsInv'
<1>1. UploadOutcome(j) \in JobOutcomes /\ "blocked" \in JobOutcomes
  BY DEF UploadOutcome, JobOutcomes
<1>2. Says(UploadOutcome(j), j) /\ Says("blocked", j)
  BY DEF UploadOutcome, Says
<1>3. QED
  BY <1>1, <1>2, ReturnKeeps DEF EndUpload

LEMMA EnvironmentKeeps ==
  ASSUME UploadsInv, EditFile \/ \E c \in Consents : ConsentExpires(c)
  PROVE  UploadsInv'
<1> USE DEF UploadsInv, EditFile, ConsentExpires, jobVars, boundVars, consentVars
<1>0. ClaimsTypeOK' /\ Carried'
  BY CarriedKeeps DEF UploadsTypeOK, claimVars
<1>1. UploadsTypeOK'
  <2>1. JobsTypeOK'
    BY DEF UploadsTypeOK, JobsTypeOK
  <2>2. QED
    BY <1>0, <2>1, LimitsAssumption DEF UploadsTypeOK, Versions
<1>2. Leased' /\ Reported' /\ Consented' /\ Aimed'
  BY DEF Leased, Reported, Says, Consented, Aimed
<1>3. QED
  BY <1>0, <1>1, <1>2

LEMMA UploadsStep == UploadsInv /\ [UploadsNext]_uploadsVars => UploadsInv'
<1> SUFFICES ASSUME UploadsInv, [UploadsNext]_uploadsVars PROVE UploadsInv'
  OBVIOUS
<1>1. CASE ServiceStep /\ UNCHANGED uploadVars
  BY <1>1, ServiceKeeps
<1>2. CASE \E m \in Messages, s \in Services : Receive(m, s) \/ Command(m, s)
  BY <1>2, ReceiveKeeps, AnswerOnlyKeeps, RequestKeeps, UploadCleanKeeps, ApproveKeeps,
     RejectKeeps DEF Command
<1>3. CASE \E j \in Jobs : UploadStep(j)
  BY <1>3, BeginKeeps, SendKeeps, DestinationFailsKeeps, SendEndsKeeps, EndKeeps DEF UploadStep
<1>4. CASE EditFile \/ \E c \in Consents : ConsentExpires(c)
  BY <1>4, EnvironmentKeeps
<1>5. CASE UNCHANGED uploadsVars
  <2>0. ClaimsTypeOK' /\ Carried'
    BY <1>5, CarriedKeeps DEF UploadsInv, UploadsTypeOK, uploadsVars, jobVars, uploadVars, claimVars
  <2>1. UploadsTypeOK'
    <3>1. JobsTypeOK'
      BY <1>5 DEF UploadsInv, UploadsTypeOK, JobsTypeOK, uploadsVars, jobVars
    <3>2. QED
      BY <1>5, <2>0, <3>1 DEF UploadsInv, UploadsTypeOK, uploadsVars, uploadVars
  <2>2. Leased' /\ Reported' /\ Consented' /\ Aimed'
    BY <1>5 DEF UploadsInv, Leased, Reported, Says, Consented, Aimed, uploadsVars, jobVars,
                uploadVars
  <2>3. QED
    BY <2>0, <2>1, <2>2 DEF UploadsInv
<1>6. QED
  BY <1>1, <1>2, <1>3, <1>4, <1>5 DEF UploadsNext

\* Every reachable state of the transfers is of the right types, and the claims, the
\* outcomes, the consents and the messages agree with each other (task_service._run,
\* work_queue.claim, upload_approval.consume_upload, discord_bridge.handle_command).
THEOREM UploadsInvariant == UploadsSpec => []UploadsInv
<1>1. QED
  BY UploadsStart, UploadsStep, PTL DEF UploadsSpec

\* A begun transfer belongs to a submitted job.
LEMMA TransferSubmitted ==
  ASSUME UploadsInv, NEW j \in Jobs, transfer[j] # "none"
  PROVE  jobStatus[j] # "none"
BY DEF UploadsInv, UploadsTypeOK, Leased, Reported

\* No two threads run callbacks of one owner, whatever leases expire under them and
\* whichever processes die (task_service._dispatch, work_queue.claim).
THEOREM OwnerRunsAloneCorrect == UploadsSpec => []OwnerRunsAlone
<1>1. UploadsInv => OwnerRunsAlone
  BY DEF UploadsInv, Leased, OwnerRunsAlone
<1>2. QED
  BY <1>1, UploadsInvariant, PTL

\* A private document is sent under one consent that named this version, and under
\* that consent nothing else is sent (upload_approval.consume_upload).
THEOREM OneConsentOneSendCorrect == UploadsSpec => []OneConsentOneSend
<1>1. UploadsInv => OneConsentOneSend
  BY TransferSubmitted DEF UploadsInv, Consented, OneConsentOneSend
<1>2. QED
  BY <1>1, UploadsInvariant, PTL

\* A saved outcome "succeeded" means delivered and "cancelled" means nothing was sent,
\* however the cancellation, the lease and the coroutine raced (discord_bridge.operation,
\* work_queue.finish).
THEOREM ReportsTransferCorrect == UploadsSpec => []ReportsTransfer
<1>1. UploadsInv => ReportsTransfer
  BY DEF UploadsInv, Reported, Says, ReportsTransfer
<1>2. QED
  BY <1>1, UploadsInvariant, PTL

\* Two transfers are of one message only if a process does not record, and in one
\* process only after its claim was evicted, for any number of processes of both
\* kinds and any limit (discord_bridge.create_dashboard_request).
THEOREM OneSendPerMessageCorrect == UploadsSpec => []OneSendPerMessage
<1>1. UploadsInv => OneSendPerMessage
  BY TransferSubmitted DEF UploadsInv, Carried, OneSendPerMessage
<1>2. QED
  BY <1>1, UploadsInvariant, PTL
=============================================================================

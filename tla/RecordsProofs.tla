---------------------------- MODULE RecordsProofs ----------------------------
(***************************************************************************)
(* Proofs about four parts that stand apart from the control plane, each   *)
(* for every instance: the memory of a conversation (any number of turns,  *)
(* topics, texts, reviewers, candidates, attempts and resets), one call of *)
(* a model (any number of helper processes), the polling loop of the       *)
(* Telegram connector (any number of updates and restarts), and the        *)
(* retention of a service's output (any segments, months and accidents).   *)
(***************************************************************************)
EXTENDS ConversationMemory, ModelProcess, ChatUpdates, ServiceLogs,
        FiniteSetTheorems, TLAPS

-----------------------------------------------------------------------------
\* The memory of a conversation

\* A turn that was never accepted has left nothing; generations do not run ahead; a
\* request whose plan is being applied waits.
Accepted ==
  \A t \in Turns : /\ turnGen[t] <= generation
                   /\ turnSeq[t] = 0 => run[t] = "none" /\ heard[t] = {} /\ change[t] = "none"
                   /\ change[t] = "applied" => run[t] \in Waits

\* A text stands on a retained record, a candidate on a source that was not forgotten.
TextBacked ==
  /\ \A r \in Records : /\ r \in excerpt => work[r] = "retained"
                        /\ r[1] \in Refused => work[r] = "none"
  /\ \A r \in Records, k \in Topics :
       /\ note[<<r, k>>] # "none" => turnSeq[r[1]] # 0
       /\ noteText[<<r, k>>] # Blank => note[<<r, k>>] # "none" /\ work[r] = "retained"
TitleBacked ==
  \A t \in Turns, c \in 1..Copies :
    title[<<t, c>>] # Blank => /\ item[<<t, c>>] # "none" /\ t \notin Refused
                               /\ ~ForgottenSource(t)
Backed == TextBacked /\ TitleBacked

\* The memory worker holds candidates that exist.
Held == \A i \in refining : item[i] # "none"

MemoryInv == /\ MemoryTypeOK /\ Accepted /\ Backed /\ Held
             /\ QuestionIsLatest /\ ResetIsBoundary /\ OneSelected

LEMMA Pairs ==
  /\ \A r \in Records, k \in Topics : /\ <<r, k>> \in Notes
                                      /\ <<r, k>>[1] = r /\ <<r, k>>[2] = k
  /\ \A t \in Turns, c \in 1..Copies : /\ <<t, c>> \in Items
                                       /\ <<t, c>>[1] = t /\ <<t, c>>[2] = c
  /\ \A n \in Notes : n[1] \in Records /\ n[2] \in Topics /\ n = <<n[1], n[2]>>
  /\ \A i \in Items : i[1] \in Turns /\ i[2] \in 1..Copies /\ i = <<i[1], i[2]>>
  /\ \A r \in Records : r[1] \in Turns /\ r \in Of(r[1])
  /\ \A t \in Turns : \A r \in Of(t) : r \in Records /\ r[1] = t
BY DEF Notes, Items, Records, Of

\* The request is known, and both executions have a place for their record.
LEMMA Own ==
  ASSUME MemoryInv, NEW t \in Turns
  PROVE  /\ <<t, 0>> \in Records /\ <<t, 0>>[1] = t
         /\ <<t, attempt[t]>> \in Records /\ <<t, attempt[t]>>[1] = t
<1>1. attempt[t] \in 0..MaxAttempts /\ 0 \in 0..MaxAttempts
  BY MemoryBoundsAssumption DEF MemoryInv, MemoryTypeOK, TaskTypeOK
<1>2. QED
  BY <1>1 DEF Records

\* An empty conversation satisfies the invariant.
LEMMA MemoryStarts == MemoryInit => MemoryInv
<1> SUFFICES ASSUME MemoryInit PROVE MemoryInv
  OBVIOUS
<1>1. (CHOOSE n \in Notes : TRUE) \in Notes
  <2>1. PICK t \in Turns, k \in Topics : TRUE
    BY NotesAssumption DEF NotesAssumption
  <2>2. <<<<t, 0>>, k>> \in Notes
    BY MemoryBoundsAssumption DEF Notes, Records, MemoryBoundsAssumption
  <2>3. QED
    BY <2>2
<1>2. MemoryTypeOK
  BY <1>1, MemoryBoundsAssumption
     DEF MemoryInit, MemoryTypeOK, TurnTypeOK, TaskTypeOK, WorkTypeOK, NoteTypeOK, ItemTypeOK,
         Active, Waits, Working
<1>3. Accepted /\ Held /\ QuestionIsLatest /\ ResetIsBoundary
  BY DEF MemoryInit, Accepted, Held, QuestionIsLatest, ResetIsBoundary
<1>4. Backed /\ OneSelected
  BY Pairs DEF MemoryInit, Backed, TextBacked, TitleBacked, OneSelected
<1>5. QED
  BY <1>2, <1>3, <1>4 DEF MemoryInv

-----------------------------------------------------------------------------
(***************************************************************************)
(* The conversation                                                        *)
(***************************************************************************)

\* Steps that leave the records, the notes and the candidates alone.
LEMMA StoresStay ==
  ASSUME MemoryInv, UNCHANGED <<noteVars, screen, itemVars, refining>>,
         \A t \in Turns : turnSeq[t] # 0 => turnSeq'[t] # 0 /\ turnGen'[t] = turnGen[t],
         generation' >= generation, TurnTypeOK'
  PROVE  Backed' /\ Held' /\ OneSelected' /\ WorkTypeOK' /\ NoteTypeOK' /\ ItemTypeOK'
<1> USE DEF MemoryInv, noteVars, itemVars
<1>1. Held' /\ WorkTypeOK' /\ NoteTypeOK' /\ ItemTypeOK'
  BY DEF Held, MemoryTypeOK, WorkTypeOK, NoteTypeOK, ItemTypeOK
<1>2. Backed'
  BY Pairs DEF Backed, TextBacked, TitleBacked, ForgottenSource
<1>3. \A r \in Records, k \in Topics :
        note[<<r, k>>] = "approved" /\ turnGen'[r[1]] >= generation' => turnGen[r[1]] >= generation
  <2>1. ASSUME NEW r \in Records, NEW k \in Topics, note[<<r, k>>] = "approved",
               turnGen'[r[1]] >= generation'
        PROVE  turnGen[r[1]] >= generation
    <3>1. r[1] \in Turns /\ turnSeq[r[1]] # 0
      BY <2>1, Pairs DEF Backed, TextBacked
    <3>2. /\ turnGen'[r[1]] = turnGen[r[1]] /\ turnGen[r[1]] \in Nat
          /\ generation \in Nat /\ generation' \in Nat
      BY <3>1 DEF MemoryTypeOK, TurnTypeOK
    <3>3. QED
      BY <2>1, <3>2
  <2>2. QED
    BY <2>1
<1>4. OneSelected'
  BY <1>3 DEF OneSelected
<1>5. QED
  BY <1>1, <1>2, <1>4

LEMMA BindKeeps ==
  ASSUME MemoryInv, NEW t \in Turns, Bind(t)
  PROVE  MemoryInv'
<1> USE DEF MemoryInv, Bind, changeVars
<1>1. TurnTypeOK' /\ TaskTypeOK'
  BY DEF MemoryTypeOK, TurnTypeOK, TaskTypeOK, Waits
<1>2. Accepted' /\ QuestionIsLatest'
  BY DEF MemoryTypeOK, TurnTypeOK, TaskTypeOK, Accepted, QuestionIsLatest
<1>3. ResetIsBoundary'
  BY DEF MemoryTypeOK, TurnTypeOK, TaskTypeOK, Accepted, ResetIsBoundary
<1>4. Backed' /\ Held' /\ OneSelected' /\ WorkTypeOK' /\ NoteTypeOK' /\ ItemTypeOK'
  <2>1. \A u \in Turns : turnSeq[u] # 0 => turnSeq'[u] # 0 /\ turnGen'[u] = turnGen[u]
    BY DEF MemoryTypeOK, TurnTypeOK
  <2>2. generation' >= generation
    BY DEF MemoryTypeOK, TurnTypeOK
  <2>3. QED
    BY <1>1, <2>1, <2>2, StoresStay
<1>5. QED
  BY <1>1, <1>2, <1>3, <1>4 DEF MemoryTypeOK

LEMMA ResetKeeps ==
  ASSUME MemoryInv, Reset
  PROVE  MemoryInv'
<1> USE DEF MemoryInv, Reset, taskVars, changeVars
<1>1. TurnTypeOK' /\ TaskTypeOK'
  BY MemoryBoundsAssumption DEF MemoryBoundsAssumption, MemoryTypeOK, TurnTypeOK, TaskTypeOK
<1>2. Accepted' /\ QuestionIsLatest' /\ ResetIsBoundary'
  BY DEF MemoryTypeOK, TurnTypeOK, Accepted, QuestionIsLatest, ResetIsBoundary
<1>3. Backed' /\ Held' /\ OneSelected' /\ WorkTypeOK' /\ NoteTypeOK' /\ ItemTypeOK'
  <2>1. generation' >= generation
    BY DEF MemoryTypeOK, TurnTypeOK
  <2>2. QED
    BY <1>1, <2>1, StoresStay
<1>4. QED
  BY <1>1, <1>2, <1>3 DEF MemoryTypeOK

\* Steps that change the task of a turn, its prompt or its plan alone.
LEMMA TaskStepKeeps ==
  ASSUME MemoryInv, UNCHANGED <<turnVars, noteVars, screen, itemVars, refining>>,
         TaskTypeOK', Accepted', QuestionIsLatest', ResetIsBoundary'
  PROVE  MemoryInv'
<1>1. TurnTypeOK'
  BY DEF turnVars, MemoryInv, MemoryTypeOK, TurnTypeOK
<1>2. Backed' /\ Held' /\ OneSelected' /\ WorkTypeOK' /\ NoteTypeOK' /\ ItemTypeOK'
  <2>1. \A u \in Turns : turnSeq[u] # 0 => turnSeq'[u] # 0 /\ turnGen'[u] = turnGen[u]
    BY DEF turnVars
  <2>2. generation' >= generation
    BY DEF turnVars, MemoryInv, MemoryTypeOK, TurnTypeOK
  <2>3. QED
    BY <1>1, <2>1, <2>2, StoresStay
<1>3. QED
  BY <1>1, <1>2 DEF MemoryInv, MemoryTypeOK

LEMMA TaskKeeps ==
  ASSUME MemoryInv, NEW t \in Turns, ClaimTurn(t) \/ ResumeTurn(t)
  PROVE  MemoryInv'
<1> USE DEF MemoryInv, ClaimTurn, ResumeTurn, turnVars, changeVars
<1>1. TaskTypeOK'
  BY MemoryBoundsAssumption
     DEF MemoryBoundsAssumption, MemoryTypeOK, TaskTypeOK, Waits, Working
<1>2. Accepted' /\ ResetIsBoundary'
  BY DEF MemoryTypeOK, TurnTypeOK, TaskTypeOK, Accepted, ResetIsBoundary
<1>3. QuestionIsLatest'
  BY DEF MemoryTypeOK, TurnTypeOK, TaskTypeOK, QuestionIsLatest
<1>4. QED
  BY <1>1, <1>2, <1>3, TaskStepKeeps

LEMMA ChangeKeeps ==
  ASSUME MemoryInv, NEW t \in Turns,
         LoseTurn(t) \/ Propose(t) \/ ClosePlan(t) \/ ApplyPlan(t) \/ LoseApply(t)
  PROVE  MemoryInv'
<1> USE DEF MemoryInv
<1>1. /\ UNCHANGED <<turnVars, attempt, heard, scoped, noteVars, screen, itemVars, refining>>
      /\ turnSeq[t] # 0
      /\ \/ run' = run
         \/ /\ run[t] # "completed" \/ (t \in lost /\ change[t] # "none")
            /\ \E s \in {"waiting", "proposing", "failed", "cancelled", "completed"} :
                 run' = [run EXCEPT ![t] = s]
      /\ lost \subseteq lost' /\ lost' \subseteq lost \cup {t}
      /\ \/ change' = change
         \/ \E c \in {"proposed", "closed", "applied", "reported"} :
              change' = [change EXCEPT ![t] = c]
      /\ change'[t] = "applied" => run'[t] \in Waits
  <2> USE DEF MemoryTypeOK, TaskTypeOK, Accepted, Waits, Working
  <2>1. CASE LoseTurn(t)
    BY <2>1 DEF LoseTurn
  <2>2. CASE Propose(t)
    BY <2>2 DEF Propose
  <2>3. CASE ClosePlan(t)
    BY <2>3 DEF ClosePlan
  <2>4. CASE ApplyPlan(t)
    BY <2>4 DEF ApplyPlan
  <2>5. CASE LoseApply(t)
    <3>1. run[t] # "completed" /\ run = [run EXCEPT ![t] = run[t]]
      BY <2>5 DEF LoseApply
    <3>2. QED
      BY <2>5, <3>1 DEF LoseApply
  <2>6. QED
    BY <2>1, <2>2, <2>3, <2>4, <2>5
<1>2. TaskTypeOK'
  BY <1>1 DEF MemoryTypeOK, TaskTypeOK, Waits, Working
<1>3. Accepted' /\ ResetIsBoundary'
  BY <1>1 DEF turnVars, MemoryTypeOK, TurnTypeOK, TaskTypeOK, Accepted, ResetIsBoundary
<1>4. QuestionIsLatest'
  <2>1. pending \in Turns \cup {NoTurn}
    BY DEF MemoryTypeOK, TurnTypeOK
  <2>2. SUFFICES ASSUME pending # NoTurn
        PROVE  run'[pending] = "completed" \/ (pending \in lost' /\ change'[pending] # "none")
    BY <1>1 DEF turnVars, QuestionIsLatest
  <2>3. run[pending] = "completed" \/ (pending \in lost /\ change[pending] # "none")
    BY <2>2 DEF QuestionIsLatest
  <2>4. QED
    BY <1>1, <2>1, <2>2, <2>3 DEF MemoryTypeOK, TaskTypeOK
<1>5. QED
  BY <1>1, <1>2, <1>3, <1>4, TaskStepKeeps

LEMMA ReadKeeps ==
  ASSUME MemoryInv, NEW t \in Turns, ReadTurns(t) \/ ReadNotes(t)
  PROVE  MemoryInv'
<1> USE DEF MemoryInv, turnVars, changeVars
<1>1. /\ UNCHANGED <<turnVars, attempt, changeVars, noteVars, screen, itemVars, refining>>
      /\ run[t] \in {"claimed", "checked"}
      /\ run' \in {[run EXCEPT ![t] = "checked"], [run EXCEPT ![t] = "running"]}
  BY DEF ReadTurns, ReadNotes
<1>2. PICK there \in SUBSET Turns :
        /\ heard' = [heard EXCEPT ![t] = there]
        /\ \A u \in there : u \in heard[t] \/ turnGen[u] >= generation
  <2>1. CASE ReadTurns(t)
    <3> DEFINE there == IF turnGen[t] = generation THEN Recent(t) ELSE {}
    <3>1. /\ there \in SUBSET Turns
          /\ \A u \in there : turnGen[u] >= generation
      BY DEF Recent, MemoryTypeOK, TurnTypeOK
    <3>2. heard' = [heard EXCEPT ![t] = there]
      BY <2>1 DEF ReadTurns
    <3>3. QED
      BY <3>1, <3>2
  <2>2. CASE ReadNotes(t)
    <3> DEFINE more == IF t \in scoped THEN {u \in Turns \ {t} : Recalled(u) \/ Recorded(u)} ELSE {}
    <3>1. \A u \in more : turnGen[u] >= generation
      <4>1. \A u \in Turns : Recalled(u) => turnGen[u] >= generation
        BY Pairs DEF Recalled, OfScope
      <4>2. QED
        BY <4>1 DEF Recorded
    <3>2. heard' = [heard EXCEPT ![t] = heard[t] \cup more]
      BY <2>2 DEF ReadNotes
    <3>3. heard[t] \cup more \in SUBSET Turns
      BY DEF MemoryTypeOK, TaskTypeOK
    <3>4. QED
      BY <3>1, <3>2, <3>3
  <2>3. QED
    BY <2>1, <2>2
<1>3. scoped' \subseteq Turns
  BY DEF ReadTurns, ReadNotes, MemoryTypeOK, TaskTypeOK
<1>4. TaskTypeOK'
  BY <1>1, <1>2, <1>3 DEF MemoryTypeOK, TaskTypeOK, Working
<1>5. Accepted'
  BY <1>1, <1>2 DEF MemoryTypeOK, TaskTypeOK, Accepted, Waits
<1>6. QuestionIsLatest'
  BY <1>1 DEF MemoryTypeOK, TurnTypeOK, TaskTypeOK, QuestionIsLatest
<1>7. ResetIsBoundary'
  BY <1>1, <1>2 DEF MemoryTypeOK, TurnTypeOK, TaskTypeOK, Accepted, ResetIsBoundary
<1>8. QED
  BY <1>1, <1>4, <1>5, <1>6, <1>7, TaskStepKeeps

-----------------------------------------------------------------------------
(***************************************************************************)
(* The end of a run                                                        *)
(***************************************************************************)
LEMMA ConcludesKeeps ==
  ASSUME MemoryInv, NEW t \in Turns, NEW ok \in BOOLEAN, NEW question \in BOOLEAN,
         run[t] \in Working, NEW result \in {"completed", "failed", "waiting", "cancelled"},
         ok => result = "completed", Concludes(t, ok, question),
         run' = [run EXCEPT ![t] = result],
         UNCHANGED <<generation, nextSeq, turnGen, turnSeq, changeVars>>
  PROVE  QuestionIsLatest' /\ asks' \subseteq Turns /\ pending' \in Turns \cup {NoTurn}
<1> USE DEF MemoryInv, changeVars
<1>1. run[t] # "completed"
  BY DEF Working
<1>2. CASE turnGen[t] # generation
  BY <1>1, <1>2 DEF Concludes, QuestionIsLatest, MemoryTypeOK, TurnTypeOK, TaskTypeOK
<1>3. CASE turnGen[t] = generation
  <2>1. CASE ~IsLast(t)
    BY <1>1, <1>3, <2>1
       DEF Concludes, QuestionIsLatest, IsLast, MemoryTypeOK, TurnTypeOK, TaskTypeOK
  <2>2. CASE IsLast(t) /\ ok /\ question
    BY <1>1, <1>3, <2>2
       DEF Concludes, QuestionIsLatest, IsLast, MemoryTypeOK, TurnTypeOK, TaskTypeOK
  <2>3. CASE IsLast(t) /\ ~(ok /\ question)
    BY <1>1, <1>3, <2>3 DEF Concludes, QuestionIsLatest, MemoryTypeOK, TurnTypeOK
  <2>4. QED
    BY <2>1, <2>2, <2>3
<1>4. QED
  BY <1>2, <1>3

\* What the end of a run, of a request or of an application, does to the records and
\* the notes: at most a retained record, with text or without, and new pending notes.
Adds(r, proposed) ==
  /\ \/ work' = work /\ excerpt' = excerpt
     \/ /\ r[1] \notin Refused /\ work[r] = "none"
        /\ work' = [work EXCEPT ![r] = "retained"]
        /\ excerpt' \in {excerpt, excerpt \cup {r}}
  /\ \E new \in SUBSET ({r} \X Topics) :
       /\ new # {} => work'[r] = "retained"
       /\ \A n \in new : note[n] = "none"
       /\ note' = [n \in Notes |-> IF n \in new THEN "pending" ELSE note[n]]
       /\ noteText' = [n \in Notes |-> IF n \in new THEN proposed[n[2]] ELSE noteText[n]]
       /\ version' = [n \in Notes |-> IF n \in new THEN 1 ELSE version[n]]

LEMMA StoreAdds ==
  ASSUME MemoryInv, NEW r \in Records, NEW ok \in BOOLEAN, NEW question \in BOOLEAN,
         NEW proposed \in Proposals, Remembers(r, ok),
         IF ok THEN Captures(r, question, proposed) ELSE UNCHANGED <<note, noteText, version>>
  PROVE  Adds(r, proposed)
<1> USE DEF MemoryInv
<1>1. \/ work' = work /\ excerpt' = excerpt
      \/ /\ r[1] \notin Refused /\ work[r] = "none"
         /\ work' = [work EXCEPT ![r] = "retained"]
         /\ excerpt' \in {excerpt, excerpt \cup {r}}
  BY DEF Remembers
<1>2. CASE ok
  <2> DEFINE allowed == /\ work'[r] = "retained" /\ r \in excerpt' /\ ~question
                        /\ turnGen[r[1]] >= generation
             present(k) == \E s \in Records : /\ note[<<s, k>>] \in Active
                                              /\ noteText[<<s, k>>] = proposed[k]
                                              /\ work[s] = "retained"
                                              /\ turnGen[s[1]] >= generation
             new == {n \in {r} \X Topics : /\ allowed /\ proposed[n[2]] # Blank
                                           /\ note[n] = "none" /\ ~present(n[2])}
  <2>1. /\ note' = [n \in Notes |-> IF n \in new THEN "pending" ELSE note[n]]
        /\ noteText' = [n \in Notes |-> IF n \in new THEN proposed[n[2]] ELSE noteText[n]]
        /\ version' = [n \in Notes |-> IF n \in new THEN 1 ELSE version[n]]
    BY <1>2 DEF Captures
  <2>2. /\ new \in SUBSET ({r} \X Topics)
        /\ new # {} => work'[r] = "retained"
        /\ \A n \in new : note[n] = "none"
    OBVIOUS
  <2> HIDE DEF new
  <2>3. QED
    BY <1>1, <2>1, <2>2 DEF Adds
<1>3. CASE ~ok
  <2>1. /\ note = [n \in Notes |-> note[n]] /\ version = [n \in Notes |-> version[n]]
        /\ noteText = [n \in Notes |-> noteText[n]]
    BY DEF MemoryTypeOK, NoteTypeOK
  <2> DEFINE new == {}
  <2>2. /\ note' = [n \in Notes |-> IF n \in new THEN "pending" ELSE note[n]]
        /\ noteText' = [n \in Notes |-> IF n \in new THEN proposed[n[2]] ELSE noteText[n]]
        /\ version' = [n \in Notes |-> IF n \in new THEN 1 ELSE version[n]]
    BY <1>3, <2>1
  <2>3. new \in SUBSET ({r} \X Topics) /\ new = {}
    OBVIOUS
  <2> HIDE DEF new
  <2>4. QED
    BY <1>1, <2>2, <2>3 DEF Adds
<1>4. QED
  BY <1>2, <1>3

LEMMA AddsKeeps ==
  ASSUME MemoryInv, NEW r \in Records, turnSeq[r[1]] # 0, NEW proposed \in Proposals,
         Adds(r, proposed), UNCHANGED <<generation, turnGen, turnSeq, screen, itemVars, refining>>
  PROVE  Backed' /\ Held' /\ OneSelected' /\ WorkTypeOK' /\ NoteTypeOK' /\ ItemTypeOK'
<1> USE DEF MemoryInv, itemVars
<1>1. \/ work' = work /\ excerpt' = excerpt
      \/ /\ r[1] \notin Refused /\ work[r] = "none"
         /\ work' = [work EXCEPT ![r] = "retained"]
         /\ excerpt' \in {excerpt, excerpt \cup {r}}
  BY DEF Adds
<1>2. PICK new \in SUBSET ({r} \X Topics) :
        /\ new # {} => work'[r] = "retained"
        /\ \A n \in new : note[n] = "none"
        /\ note' = [n \in Notes |-> IF n \in new THEN "pending" ELSE note[n]]
        /\ noteText' = [n \in Notes |-> IF n \in new THEN proposed[n[2]] ELSE noteText[n]]
        /\ version' = [n \in Notes |-> IF n \in new THEN 1 ELSE version[n]]
  BY SMTT(30) DEF Adds
<1>3. \A n \in new : n \in Notes /\ n[1] = r /\ n[2] \in Topics /\ proposed[n[2]] \in Texts \cup {Blank}
  BY DEF Notes, Proposals
<1>4. WorkTypeOK'
  BY <1>1 DEF MemoryTypeOK, WorkTypeOK
<1>5. NoteTypeOK'
  BY <1>2, <1>3 DEF MemoryTypeOK, NoteTypeOK, Active
<1>6. ItemTypeOK' /\ Held'
  BY DEF MemoryTypeOK, ItemTypeOK, Held
<1>7. TextBacked'
  <2>1. \A s \in Records : /\ s \in excerpt' => work'[s] = "retained"
                           /\ s[1] \in Refused => work'[s] = "none"
                           /\ work[s] = "retained" => work'[s] = "retained"
    BY <1>1 DEF MemoryTypeOK, WorkTypeOK, Backed, TextBacked
  <2>2. ASSUME NEW s \in Records, NEW k \in Topics
        PROVE  /\ note'[<<s, k>>] # "none" => turnSeq'[s[1]] # 0
               /\ noteText'[<<s, k>>] # Blank =>
                    note'[<<s, k>>] # "none" /\ work'[s] = "retained"
    <3>1. CASE <<s, k>> \in new
      <4>1. s = r
        BY <3>1, <1>3, Pairs
      <4>2. QED
        BY <3>1, <4>1, <1>2, Pairs
    <3>2. CASE <<s, k>> \notin new
      BY <3>2, <2>1, <1>2, Pairs DEF Backed, TextBacked
    <3>3. QED
      BY <3>1, <3>2
  <2>3. QED
    BY <2>1, <2>2 DEF TextBacked
<1>8. TitleBacked'
  <2>1. \A s \in Records : work'[s] = "forgotten" => work[s] = "forgotten"
    BY <1>1 DEF MemoryTypeOK, WorkTypeOK
  <2>2. \A t \in Turns : ForgottenSource(t)' => ForgottenSource(t)
    BY <2>1, Pairs DEF ForgottenSource
  <2>3. QED
    BY <2>2 DEF Backed, TitleBacked
<1>9. OneSelected'
  <2>1. \A n \in Notes : note'[n] = "approved" => note[n] = "approved"
    BY <1>2
  <2>2. QED
    BY <2>1, Pairs DEF OneSelected
<1>10. QED
  BY <1>4, <1>5, <1>6, <1>7, <1>8, <1>9 DEF Backed

LEMMA FinishKeeps ==
  ASSUME MemoryInv, NEW t \in Turns, NEW ok \in BOOLEAN, NEW question \in BOOLEAN,
         NEW proposed \in Proposals, FinishTurn(t, ok, question, proposed)
  PROVE  MemoryInv'
<1> USE DEF MemoryInv
<1> DEFINE r == <<t, attempt[t]>>
           result == IF ok THEN "completed" ELSE "failed"
<1>1. /\ run[t] = "running" /\ Concludes(t, ok, question) /\ Remembers(r, ok)
      /\ run' = [run EXCEPT ![t] = result]
      /\ UNCHANGED <<generation, nextSeq, turnGen, turnSeq, attempt, heard, scoped, changeVars,
                     screen, itemVars, refining>>
      /\ IF ok THEN Captures(r, question, proposed) ELSE UNCHANGED <<note, noteText, version>>
  BY DEF FinishTurn
<1>2. r \in Records /\ r[1] = t /\ turnSeq[t] # 0
  BY <1>1, Own DEF Accepted
<1>3. QuestionIsLatest' /\ asks' \subseteq Turns /\ pending' \in Turns \cup {NoTurn}
  <2>1. /\ result \in {"completed", "failed", "waiting", "cancelled"}
        /\ ok => result = "completed"
        /\ run[t] \in Working
    BY <1>1 DEF Working
  <2> HIDE DEF result
  <2>2. QED
    BY <1>1, <2>1, ConcludesKeeps
<1>4. Backed' /\ Held' /\ OneSelected' /\ WorkTypeOK' /\ NoteTypeOK' /\ ItemTypeOK'
  <2> HIDE DEF r
  <2>1. Adds(r, proposed)
    BY <1>1, <1>2, StoreAdds
  <2>2. QED
    BY <1>1, <1>2, <2>1, AddsKeeps
<1>5. TurnTypeOK' /\ TaskTypeOK'
  BY <1>1, <1>3 DEF changeVars, MemoryTypeOK, TurnTypeOK, TaskTypeOK
<1>6. Accepted' /\ ResetIsBoundary'
  BY <1>1 DEF changeVars, MemoryTypeOK, TaskTypeOK, Accepted, Waits, ResetIsBoundary
<1>7. QED
  BY <1>3, <1>4, <1>5, <1>6 DEF MemoryTypeOK

LEMMA FinishProposingKeeps ==
  ASSUME MemoryInv, NEW t \in Turns, FinishProposing(t)
  PROVE  MemoryInv'
<1> USE DEF MemoryInv
<1> DEFINE result == IF change[t] = "proposed" THEN "waiting" ELSE "cancelled"
<1>1. /\ run[t] = "proposing" /\ Concludes(t, FALSE, FALSE)
      /\ run' = [run EXCEPT ![t] = result]
      /\ UNCHANGED <<generation, nextSeq, turnGen, turnSeq, attempt, heard, scoped, changeVars,
                     noteVars, screen, itemVars, refining>>
  BY DEF FinishProposing
<1>2. QuestionIsLatest' /\ asks' \subseteq Turns /\ pending' \in Turns \cup {NoTurn}
  <2>1. result \in {"completed", "failed", "waiting", "cancelled"} /\ run[t] \in Working
    BY <1>1 DEF Working
  <2> HIDE DEF result
  <2>2. QED
    BY <1>1, <2>1, ConcludesKeeps
<1>3. TurnTypeOK' /\ TaskTypeOK'
  BY <1>1, <1>2 DEF changeVars, MemoryTypeOK, TurnTypeOK, TaskTypeOK, Waits
<1>4. Accepted' /\ ResetIsBoundary'
  BY <1>1 DEF changeVars, MemoryTypeOK, TaskTypeOK, Accepted, Waits, ResetIsBoundary
<1>5. Backed' /\ Held' /\ OneSelected' /\ WorkTypeOK' /\ NoteTypeOK' /\ ItemTypeOK'
  <2>1. generation' >= generation
    BY <1>1 DEF MemoryTypeOK, TurnTypeOK
  <2>2. QED
    BY <1>1, <1>3, <2>1, StoresStay
<1>6. QED
  BY <1>2, <1>3, <1>4, <1>5 DEF MemoryTypeOK

LEMMA FinishApplyKeeps ==
  ASSUME MemoryInv, NEW t \in Turns, NEW proposed \in Headlines, FinishApply(t, proposed)
  PROVE  MemoryInv'
<1> USE DEF MemoryInv
<1> DEFINE r == <<t, 0>>
           completes == run[t] \in {"waiting", "completed"}
<1>1. /\ change[t] = "applied" /\ change' = [change EXCEPT ![t] = "reported"]
      /\ run' = IF completes THEN [run EXCEPT ![t] = "completed"] ELSE run
      /\ Remembers(r, completes)
      /\ UNCHANGED <<turnVars, attempt, heard, scoped, lost, screen, itemVars, refining>>
      /\ IF completes THEN Captures(r, FALSE, proposed) ELSE UNCHANGED <<note, noteText, version>>
  BY DEF FinishApply
<1>2. r \in Records /\ r[1] = t /\ turnSeq[t] # 0
  BY <1>1, Own DEF Accepted
<1>3. proposed \in Proposals
  BY DEF Headlines, Nothing, Proposals
<1>4. Backed' /\ Held' /\ OneSelected' /\ WorkTypeOK' /\ NoteTypeOK' /\ ItemTypeOK'
  <2>1. completes \in BOOLEAN
    OBVIOUS
  <2> HIDE DEF r, completes
  <2>2. Adds(r, proposed)
    BY <1>1, <1>2, <1>3, <2>1, StoreAdds
  <2>3. QED
    BY <1>1, <1>2, <1>3, <2>2, AddsKeeps DEF turnVars
<1>5. TurnTypeOK' /\ TaskTypeOK'
  BY <1>1 DEF turnVars, MemoryTypeOK, TurnTypeOK, TaskTypeOK
<1>6. Accepted' /\ ResetIsBoundary' /\ QuestionIsLatest'
  BY <1>1, <1>2
     DEF turnVars, MemoryTypeOK, TurnTypeOK, TaskTypeOK, Accepted, ResetIsBoundary, QuestionIsLatest
<1>7. QED
  BY <1>4, <1>5, <1>6 DEF MemoryTypeOK

-----------------------------------------------------------------------------
(***************************************************************************)
(* The owner, the reviewer and the memory worker                           *)
(***************************************************************************)

\* Steps of the stores leave the conversation and the tasks alone.
LEMMA StoreStepKeeps ==
  ASSUME MemoryInv, UNCHANGED <<turnVars, taskVars>>,
         Backed', Held', OneSelected', WorkTypeOK', NoteTypeOK', ItemTypeOK'
  PROVE  MemoryInv'
<1> USE DEF MemoryInv, turnVars, taskVars, changeVars
<1>1. TurnTypeOK' /\ TaskTypeOK'
  BY DEF MemoryTypeOK, TurnTypeOK, TaskTypeOK
<1>2. Accepted' /\ QuestionIsLatest' /\ ResetIsBoundary'
  BY DEF Accepted, QuestionIsLatest, ResetIsBoundary
<1>3. QED
  BY <1>1, <1>2 DEF MemoryTypeOK

LEMMA ForgetsKeeps ==
  ASSUME MemoryInv, NEW r \in Records, work[r] # "none", Forgets(r), UNCHANGED screen
  PROVE  MemoryInv'
<1> USE DEF MemoryInv
<1> DEFINE mine == {n \in {r} \X Topics : note[n] # "none"}
           derived == {i \in Items : i[1] = r[1] /\ item[i] # "none"}
<1>1. /\ work' = [work EXCEPT ![r] = "forgotten"] /\ excerpt' = excerpt \ {r}
      /\ note' = [n \in Notes |-> IF n \in mine THEN "forgotten" ELSE note[n]]
      /\ noteText' = [n \in Notes |-> IF n \in mine THEN Blank ELSE noteText[n]]
      /\ version' = [n \in Notes |-> IF n \in mine THEN version[n] + 1 ELSE version[n]]
      /\ item' = [i \in Items |-> IF i \in derived THEN "archived" ELSE item[i]]
      /\ title' = [i \in Items |-> IF i \in derived THEN Blank ELSE title[i]]
      /\ UNCHANGED <<turnVars, taskVars, refining, screen>>
  BY DEF Forgets
<1>2. /\ \A n \in mine : n[1] = r /\ note[n] # "none"
      /\ \A k \in Topics : note[<<r, k>>] # "none" => <<r, k>> \in mine
      /\ \A c \in 1..Copies : item[<<r[1], c>>] # "none" => <<r[1], c>> \in derived
  BY Pairs
<1>3. \A i \in derived : i[1] = r[1] /\ item[i] # "none"
  OBVIOUS
<1> HIDE DEF mine, derived
<1>4. WorkTypeOK' /\ NoteTypeOK' /\ ItemTypeOK'
  BY <1>1 DEF MemoryTypeOK, WorkTypeOK, NoteTypeOK, ItemTypeOK
<1>5. Held'
  BY <1>1, <1>3 DEF Held, MemoryTypeOK, ItemTypeOK
<1>6. TextBacked'
  <2>1. \A s \in Records : /\ s \in excerpt' => work'[s] = "retained"
                           /\ s[1] \in Refused => work'[s] = "none"
                           /\ s # r => work'[s] = work[s]
    BY <1>1 DEF MemoryTypeOK, WorkTypeOK, Backed, TextBacked
  <2>2. ASSUME NEW s \in Records, NEW k \in Topics
        PROVE  /\ note'[<<s, k>>] # "none" => turnSeq'[s[1]] # 0
               /\ noteText'[<<s, k>>] # Blank =>
                    note'[<<s, k>>] # "none" /\ work'[s] = "retained"
    <3>1. turnSeq' = turnSeq
      BY <1>1 DEF turnVars
    <3>2. CASE <<s, k>> \in mine
      BY <3>1, <3>2, <1>1, <1>2, Pairs DEF Backed, TextBacked
    <3>3. CASE <<s, k>> \notin mine
      BY <3>1, <3>3, <2>1, <1>1, <1>2, Pairs DEF Backed, TextBacked
    <3>4. QED
      BY <3>2, <3>3
  <2>3. QED
    BY <2>1, <2>2 DEF TextBacked
<1>7. TitleBacked'
  <2>1. ASSUME NEW t \in Turns, t # r[1] PROVE ForgottenSource(t)' => ForgottenSource(t)
    <3>1. \A s \in Of(t) : s \in Records /\ s # r
      BY <2>1, Pairs
    <3>2. \A s \in Of(t) : work'[s] = work[s]
      BY <3>1, <1>1 DEF MemoryTypeOK, WorkTypeOK
    <3>3. QED
      BY <3>2 DEF ForgottenSource
  <2>2. ASSUME NEW t \in Turns, NEW c \in 1..Copies
        PROVE  title'[<<t, c>>] # Blank => /\ item'[<<t, c>>] # "none" /\ t \notin Refused
                                           /\ ~ForgottenSource(t)'
    <3>1. CASE <<t, c>> \in derived
      BY <3>1, <1>1, Pairs
    <3>2. CASE <<t, c>> \notin derived
      <4>1. title'[<<t, c>>] = title[<<t, c>>] /\ item'[<<t, c>>] = item[<<t, c>>]
        BY <3>2, <1>1, Pairs
      <4>2. t = r[1] => item[<<t, c>>] = "none"
        BY <3>2, <1>2
      <4>3. QED
        BY <4>1, <4>2, <2>1 DEF Backed, TitleBacked
    <3>3. QED
      BY <3>1, <3>2
  <2>3. QED
    BY <2>2 DEF TitleBacked
<1>8. OneSelected'
  <2>1. \A n \in Notes : note'[n] = "approved" => note[n] = "approved"
    BY <1>1
  <2>2. turnGen' = turnGen /\ generation' = generation
    BY <1>1 DEF turnVars
  <2>3. QED
    BY <2>1, <2>2, Pairs DEF OneSelected
<1>9. QED
  BY <1>1, <1>4, <1>5, <1>6, <1>7, <1>8, StoreStepKeeps DEF Backed

LEMMA LookKeeps ==
  ASSUME MemoryInv, NEW k \in Reviewers, NEW n \in Notes, Look(k, n)
  PROVE  MemoryInv'
<1> USE DEF MemoryInv, Look, noteVars, itemVars
<1>1. WorkTypeOK' /\ NoteTypeOK' /\ ItemTypeOK'
  BY DEF MemoryTypeOK, WorkTypeOK, NoteTypeOK, ItemTypeOK
<1>2. Backed' /\ Held' /\ OneSelected'
  BY DEF turnVars, Backed, TextBacked, TitleBacked, ForgottenSource, Held, OneSelected
<1>3. QED
  BY <1>1, <1>2, StoreStepKeeps

LEMMA ReviewKeeps ==
  ASSUME MemoryInv, NEW k \in Reviewers, NEW verdict \in {"approved", "rejected", "forgotten"},
         Review(k, verdict)
  PROVE  MemoryInv'
<1> USE DEF MemoryInv
<1> DEFINE n == screen[k][1]
           closed == IF verdict = "approved" THEN Others(n) ELSE {}
<1>1. n \in Notes /\ n[1] \in Records
  <2>1. n \in Notes
    BY DEF MemoryTypeOK, NoteTypeOK
  <2>2. QED
    BY <2>1, Pairs
<1>2. OfScope(n) /\ note[n] \in Active
  BY DEF Review
<1>3. CASE verdict = "forgotten"
  <2>1. Forgets(n[1]) /\ UNCHANGED screen
    BY <1>3 DEF Review
  <2>2. work[n[1]] # "none"
    BY <1>2 DEF OfScope, Stands
  <2>3. QED
    BY <1>1, <2>1, <2>2, ForgetsKeeps
<1>4. CASE verdict # "forgotten"
  <2>1. /\ note' = [m \in Notes |-> IF m = n THEN verdict
                                    ELSE IF m \in closed THEN "superseded" ELSE note[m]]
        /\ version' = [m \in Notes |-> IF m = n \/ m \in closed THEN version[m] + 1
                                       ELSE version[m]]
        /\ UNCHANGED <<turnVars, taskVars, work, excerpt, noteText, itemVars, refining, screen>>
    BY <1>4 DEF Review
  <2>2. \A m \in closed : note[m] \in Active
    BY DEF Others
  <2>3. verdict = "approved" =>
          \A m \in Notes \ {n} :
            m[2] = n[2] /\ note[m] = "approved" /\ turnGen[m[1][1]] >= generation => m \in closed
    <3>1. ASSUME verdict = "approved", NEW m \in Notes \ {n},
                 m[2] = n[2], note[m] = "approved", turnGen[m[1][1]] >= generation
          PROVE  m \in closed
      <4>1. note[m] \in Active
        BY <3>1 DEF Active
      <4>2. m \in Others(n)
        BY <3>1, <4>1 DEF Others
      <4>3. QED
        BY <3>1, <4>2
    <3>2. QED
      BY <3>1
  <2> HIDE DEF n, closed
  <2>4. WorkTypeOK' /\ NoteTypeOK' /\ ItemTypeOK'
    BY <2>1, <1>4 DEF MemoryTypeOK, WorkTypeOK, NoteTypeOK, ItemTypeOK, itemVars, Active
  <2>5. Held'
    BY <2>1 DEF Held, itemVars
  <2>6. Backed'
    <3>1. \A m \in Notes : note'[m] # "none" <=> note[m] # "none"
      BY <2>1, <2>2, <1>1, <1>2, <1>4 DEF Active
    <3>2. TextBacked'
      BY <3>1, <2>1, Pairs DEF turnVars, Backed, TextBacked
    <3>3. TitleBacked'
      BY <2>1 DEF itemVars, Backed, TitleBacked, ForgottenSource
    <3>4. QED
      BY <3>2, <3>3 DEF Backed
  <2>7. OneSelected'
    <3> USE DEF turnVars
    <3>1. CASE verdict = "approved"
      <4>1. \A m \in Notes :
              m[2] = n[2] /\ note'[m] = "approved" /\ turnGen'[m[1][1]] >= generation' => m = n
        <5>1. ASSUME NEW m \in Notes, m # n, m[2] = n[2], note'[m] = "approved",
                     turnGen'[m[1][1]] >= generation'
              PROVE  FALSE
          <6>1. m \notin closed /\ note[m] = "approved"
            BY <5>1, <2>1
          <6>2. turnGen[m[1][1]] >= generation
            BY <5>1, <2>1
          <6>3. QED
            BY <5>1, <6>1, <6>2, <2>3, <3>1
        <5>2. QED
          BY <5>1
      <4>2. \A m \in Notes : m[2] # n[2] /\ note'[m] = "approved" => note[m] = "approved"
        BY <2>1
      <4>3. ASSUME NEW topic \in Topics, NEW r \in Records, NEW s \in Records,
                   note'[<<r, topic>>] = "approved", turnGen'[r[1]] >= generation',
                   note'[<<s, topic>>] = "approved", turnGen'[s[1]] >= generation'
            PROVE  r = s
        <5>1. CASE topic = n[2]
          <6>1. <<r, topic>> = n /\ <<s, topic>> = n
            BY <4>1, <4>3, <5>1, Pairs
          <6>2. QED
            BY <6>1, Pairs
        <5>2. CASE topic # n[2]
          <6>1. note[<<r, topic>>] = "approved" /\ note[<<s, topic>>] = "approved"
            BY <4>2, <4>3, <5>2, Pairs
          <6>2. QED
            BY <6>1, <4>3, <2>1 DEF OneSelected
        <5>3. QED
          BY <5>1, <5>2
      <4>4. QED
        BY <4>3 DEF OneSelected
    <3>2. CASE verdict = "rejected"
      <4>1. \A m \in Notes : note'[m] = "approved" => note[m] = "approved"
        BY <2>1, <3>2
      <4>2. QED
        BY <4>1, <2>1, Pairs DEF OneSelected
    <3>3. QED
      BY <3>1, <3>2, <1>4
  <2>8. QED
    BY <2>1, <2>4, <2>5, <2>6, <2>7, StoreStepKeeps
<1>5. QED
  BY <1>3, <1>4

\* Steps of the memory worker and the operator change candidates alone, and give a
\* text only to those of a source that may be remembered.
LEMMA ItemStepKeeps ==
  ASSUME MemoryInv, UNCHANGED <<turnVars, taskVars, noteVars, screen>>, ItemTypeOK', Held',
         \A i \in Items : title'[i] # Blank =>
           /\ item'[i] # "none"
           /\ title[i] # Blank \/ (i[1] \notin Refused /\ ~ForgottenSource(i[1]))
  PROVE  MemoryInv'
<1> USE DEF MemoryInv, noteVars
<1>1. WorkTypeOK' /\ NoteTypeOK' /\ OneSelected' /\ TextBacked'
  BY DEF turnVars, MemoryTypeOK, WorkTypeOK, NoteTypeOK, OneSelected, Backed, TextBacked
<1>2. TitleBacked'
  BY Pairs DEF Backed, TitleBacked, ForgottenSource
<1>3. QED
  BY <1>1, <1>2, StoreStepKeeps DEF Backed

LEMMA ExtractKeeps ==
  ASSUME MemoryInv, NEW refines \in BOOLEAN, Extract(refines)
  PROVE  MemoryInv'
<1> USE DEF MemoryInv
<1> DEFINE due == {t \in Turns : Allowed(t) /\ \A n \in 1..Copies : title[<<t, n>>] # "extracted"}
           slot(t) == {n \in 1..Copies : item[<<t, n>>] = "none"}
           new == {i \in Items : i[1] \in due /\ i[2] \in slot(i[1])
                                 /\ \A n \in slot(i[1]) : i[2] <= n}
<1>1. /\ item' = [i \in Items |-> IF i \in new THEN "pending" ELSE item[i]]
      /\ title' = [i \in Items |-> IF i \in new THEN "extracted" ELSE title[i]]
      /\ refining' \in {new, refining}
      /\ UNCHANGED <<turnVars, taskVars, noteVars, screen>>
  BY DEF Extract
<1>2. new \subseteq Items /\ \A i \in new : i[1] \notin Refused /\ ~ForgottenSource(i[1])
  BY DEF Allowed
<1> HIDE DEF new
<1>3. ItemTypeOK' /\ Held'
  BY <1>1, <1>2 DEF MemoryTypeOK, ItemTypeOK, Held, Active
<1>4. \A i \in Items : title'[i] # Blank =>
        /\ item'[i] # "none"
        /\ title[i] # Blank \/ (i[1] \notin Refused /\ ~ForgottenSource(i[1]))
  BY <1>1, <1>2, Pairs DEF Backed, TitleBacked
<1>5. QED
  BY <1>1, <1>3, <1>4, ItemStepKeeps

LEMMA RefineKeeps ==
  ASSUME MemoryInv, NEW i \in Items, Refine(i)
  PROVE  MemoryInv'
<1> USE DEF MemoryInv
<1>1. /\ i \in refining /\ refining' = refining \ {i}
      /\ title' = title \/ (Allowed(i[1]) /\ title' = [title EXCEPT ![i] = "refined"])
      /\ UNCHANGED <<turnVars, taskVars, noteVars, screen, item>>
  <2>1. CASE Allowed(i[1])
    BY <2>1 DEF Refine
  <2>2. CASE ~Allowed(i[1])
    BY <2>2 DEF Refine
  <2>3. QED
    BY <2>1, <2>2
<1>2. ItemTypeOK' /\ Held'
  BY <1>1 DEF MemoryTypeOK, ItemTypeOK, Held
<1>3. \A j \in Items : title'[j] # Blank =>
        /\ item'[j] # "none"
        /\ title[j] # Blank \/ (j[1] \notin Refused /\ ~ForgottenSource(j[1]))
  BY <1>1, Pairs DEF Backed, TitleBacked, Held, Allowed, MemoryTypeOK, ItemTypeOK
<1>4. QED
  BY <1>1, <1>2, <1>3, ItemStepKeeps

LEMMA DecideKeeps ==
  ASSUME MemoryInv, NEW i \in Items, NEW verdict \in {"approved", "rejected"},
         Decide(i, verdict)
  PROVE  MemoryInv'
<1> USE DEF MemoryInv, Decide
<1>1. \A j \in Items : item[j] # "none" => item'[j] # "none"
  BY DEF MemoryTypeOK, ItemTypeOK
<1>2. ItemTypeOK' /\ Held'
  BY <1>1 DEF MemoryTypeOK, ItemTypeOK, Held, Active
<1>3. \A j \in Items : title'[j] # Blank => item'[j] # "none" /\ title[j] # Blank
  BY <1>1, Pairs DEF Backed, TitleBacked
<1>4. QED
  BY <1>2, <1>3, ItemStepKeeps

-----------------------------------------------------------------------------
(***************************************************************************)
(* The invariant and what follows from it                                  *)
(***************************************************************************)
LEMMA MemoryStep == MemoryInv /\ [MemoryNext]_memoryVars => MemoryInv'
<1> SUFFICES ASSUME MemoryInv, [MemoryNext]_memoryVars PROVE MemoryInv'
  OBVIOUS
<1>1. ASSUME NEW r \in Records, Forget(r) PROVE MemoryInv'
  BY <1>1, ForgetsKeeps DEF Forget
<1>2. CASE UNCHANGED memoryVars
  BY <1>2, StoreStepKeeps
     DEF memoryVars, turnVars, noteVars, itemVars, MemoryInv, MemoryTypeOK, WorkTypeOK,
         NoteTypeOK, ItemTypeOK, Backed, TextBacked, TitleBacked, ForgottenSource, Held, OneSelected
<1>3. CASE \E t \in Turns :
             \/ Bind(t) \/ ClaimTurn(t) \/ ResumeTurn(t) \/ ReadTurns(t)
             \/ ReadNotes(t) \/ LoseTurn(t) \/ Propose(t) \/ FinishProposing(t)
             \/ ClosePlan(t) \/ ApplyPlan(t) \/ LoseApply(t)
             \/ \E ok, question \in BOOLEAN, p \in Proposals : FinishTurn(t, ok, question, p)
             \/ \E p \in Headlines : FinishApply(t, p)
  BY <1>3, BindKeeps, TaskKeeps, ReadKeeps, ChangeKeeps, FinishProposingKeeps, FinishKeeps,
     FinishApplyKeeps
<1>4. CASE Reset
  BY <1>4, ResetKeeps
<1>5. CASE \E k \in Reviewers :
             \/ \E n \in Notes : Look(k, n)
             \/ \E v \in {"approved", "rejected", "forgotten"} : Review(k, v)
  BY <1>5, LookKeeps, ReviewKeeps
<1>6. CASE \/ \E refines \in BOOLEAN : Extract(refines)
           \/ \E i \in Items : \/ Refine(i)
                               \/ \E v \in {"approved", "rejected"} : Decide(i, v)
  BY <1>6, ExtractKeeps, RefineKeeps, DecideKeeps
<1>7. CASE \E r \in Records : Forget(r)
  BY <1>7, <1>1
<1>8. QED
  BY <1>2, <1>3, <1>4, <1>5, <1>6, <1>7 DEF MemoryNext

\* The invariant of the conversation and its memory: types, what a text stands on
\* (complete_conn of the three stores) and the three properties below.
THEOREM MemoryInvariant == MemorySpec => []MemoryInv
<1>1. QED
  BY MemoryStarts, MemoryStep, PTL DEF MemorySpec

\* The waiting question is that of the last turn of the live generation
\* (bind_conn, complete_conn, reset).
THEOREM QuestionIsLatestCorrect == MemorySpec => []QuestionIsLatest
<1>1. MemoryInv => QuestionIsLatest
  BY DEF MemoryInv
<1>2. QED
  BY <1>1, MemoryInvariant, PTL

\* Nothing said before a reset reaches the prompt of a later turn, whatever turn is
\* reset, retried or finished meanwhile (worker_context, list_entries, list_records).
THEOREM ResetIsBoundaryCorrect == MemorySpec => []ResetIsBoundary
<1>1. MemoryInv => ResetIsBoundary
  BY DEF MemoryInv
<1>2. QED
  BY <1>1, MemoryInvariant, PTL

\* A forgotten record and a refused request leave no text, a forgotten request leaves
\* no candidate, and no later write brings one back (forget_record, complete_conn at
\* the end of a run or of an application, capture_conn, update_memory).
THEOREM ForgottenStaysForgottenCorrect == MemorySpec => []ForgottenStaysForgotten
<1>1. MemoryInv => ForgottenStaysForgotten
  <2> SUFFICES ASSUME MemoryInv PROVE ForgottenStaysForgotten
    OBVIOUS
  <2>1. ASSUME NEW r \in Records, work[r] = "forgotten" \/ r[1] \in Refused
        PROVE  r \notin excerpt /\ \A k \in Topics : noteText[<<r, k>>] = Blank
    BY <2>1 DEF MemoryInv, Backed, TextBacked
  <2>2. QED
    BY <2>1 DEF MemoryInv, Backed, TitleBacked, ForgottenStaysForgotten
<1>2. QED
  BY <1>1, MemoryInvariant, PTL

\* An approval closes the other versions of its topic (review_entry).
THEOREM OneSelectedCorrect == MemorySpec => []OneSelected
<1>1. MemoryInv => OneSelected
  BY DEF MemoryInv
<1>2. QED
  BY <1>1, MemoryInvariant, PTL

-----------------------------------------------------------------------------
\* One call of a model

\* What is raised as a cancellation, once on its way out of the loop, is raised of a
\* group that has ended; in the finally block there is nothing left to terminate then.
Ended == leader = "reaped" /\ helpers = 0
Carried ==
  /\ raised \in Stops /\ callAt = "cleanup" => Ended
  /\ round = 2 => raised \notin Stops /\ callAt \notin {"look", "wait", "read"}
  /\ answer \in Stops => callAt = "done" /\ Ended

ProcessInv == ProcessTypeOK /\ Carried

LEMMA ProcessStarts == ProcessInit => ProcessInv
BY HelpersAssumption DEF ProcessInit, ProcessInv, ProcessTypeOK, Carried, Ended, Stops, Signals

LEMMA CallKeeps == ProcessInv /\ CallStep => ProcessInv'
<1> SUFFICES ASSUME ProcessInv, CallStep PROVE ProcessInv'
  OBVIOUS
<1> USE HelpersAssumption DEF ProcessInv, ProcessTypeOK, Carried, Ended, Stops, Signals,
      groupVars, Raise, Goto, End, TerminateRaises
<1>1. CASE Inspect
  BY <1>1 DEF Inspect, Reason
<1>2. CASE Await
  BY <1>2 DEF Await
<1>3. CASE Signal
  BY <1>3 DEF Signal
<1>4. CASE Confirm
  BY <1>4 DEF Confirm
<1>5. CASE Unconfirmed
  BY <1>5 DEF Unconfirmed
<1>6. CASE CleanUp
  BY <1>6 DEF CleanUp
<1>7. CASE ReadReply
  BY <1>7 DEF ReadReply
<1>8. QED
  BY <1>1, <1>2, <1>3, <1>4, <1>5, <1>6, <1>7 DEF CallStep

\* Outside the call the group changes, but a group that has ended stays ended: nothing in
\* it can fork.
LEMMA SurroundingsKeep == ProcessInv /\ Surroundings => ProcessInv'
<1> SUFFICES ASSUME ProcessInv, Surroundings PROVE ProcessInv'
  OBVIOUS
<1> USE HelpersAssumption DEF ProcessInv, ProcessTypeOK, Carried, Ended, Stops, Signals,
      groupVars
<1>1. UNCHANGED <<callAt, round, raised, answer>>
  BY DEF Surroundings
<1>2. CASE (LeaderExits \/ HelperStarts \/ HelperEnds) /\ UNCHANGED signs
  BY <1>1, <1>2 DEF LeaderExits, HelperStarts, HelperEnds, CanRun
<1>3. CASE SignAppears
  BY <1>1, <1>3 DEF SignAppears, Signs
<1>4. QED
  BY <1>2, <1>3 DEF Surroundings

\* What the call knows of its process and its helpers (the inductive invariant).
THEOREM ProcessInvariant == ProcessSpec => []ProcessInv
<1>1. ProcessInv /\ [ProcessNext]_processVars => ProcessInv'
  <2> SUFFICES ASSUME ProcessInv, [ProcessNext]_processVars PROVE ProcessInv'
    OBVIOUS
  <2>1. CASE CallStep
    BY <2>1, CallKeeps
  <2>2. CASE Surroundings
    BY <2>2, SurroundingsKeep
  <2>3. CASE UNCHANGED processVars
    BY <2>3 DEF processVars, ProcessInv, ProcessTypeOK, Carried, Ended
  <2>4. QED
    BY <2>1, <2>2, <2>3 DEF ProcessNext
<1>2. QED
  BY <1>1, ProcessStarts, PTL DEF ProcessSpec

(***************************************************************************)
(* No process of a call that was reported as cancelled or timed out can    *)
(* still run (terminate and the finally block of run_command), however     *)
(* many helpers it forked and whatever the signals met.                    *)
(***************************************************************************)
THEOREM StopIsConfirmedCorrect == ProcessSpec => []StopIsConfirmed
<1>1. ProcessInv => StopIsConfirmed
  BY DEF ProcessInv, Carried, Ended, StopIsConfirmed
<1>2. QED
  BY <1>1, ProcessInvariant, PTL

-----------------------------------------------------------------------------
\* The polling of a chat

\* Where the batch in hand begins: at the first update that neither the server has
\* dropped nor the offset has passed.
Front == IF offset > held THEN offset ELSE held
InHand ==
  /\ upto <= arrived /\ next <= upto + 1
  /\ offset <= arrived + 1 /\ held <= arrived + 1
  /\ pollAt = "poll" /\ next <= upto => next = Front
  /\ pollAt # "poll" => next <= upto /\ offset = next + 1 /\ held <= next

\* What is below either mark was taken; what is not below the offset, in an earlier life.
Counted ==
  \A u \in Updates : /\ u < held \/ u < offset => takes[u] > 0
                     /\ takes[u] <= 1 + restarts
                     /\ u >= offset => takes[u] <= restarts

UpdatesInv == UpdatesTypeOK /\ InHand /\ Counted

LEMMA UpdatesStart == UpdatesInit => UpdatesInv
BY UpdatesAssumption, BreaksAssumption
DEF UpdatesInit, UpdatesInv, UpdatesTypeOK, InHand, Counted, Front, Updates

LEMMA PollKeeps == UpdatesInv /\ Poll => UpdatesInv'
<1> SUFFICES ASSUME UpdatesInv, Poll PROVE UpdatesInv'
  OBVIOUS
<1> USE UpdatesAssumption, BreaksAssumption DEF UpdatesInv, UpdatesTypeOK
<1>1. held' = Front /\ UNCHANGED <<arrived, offset, pollAt, takes, requests, restarts>>
  BY DEF Poll, Front
<1>2. Counted'
  BY <1>1 DEF Counted, Front, Updates
<1>3. UpdatesTypeOK' /\ InHand'
  BY <1>1 DEF Poll, Front, InHand
<1>4. QED
  BY <1>2, <1>3

LEMMA TakeKeeps == UpdatesInv /\ Take => UpdatesInv'
<1> SUFFICES ASSUME UpdatesInv, Take PROVE UpdatesInv'
  OBVIOUS
<1> USE UpdatesAssumption, BreaksAssumption DEF UpdatesInv, UpdatesTypeOK
<1>1. next \in Updates /\ next = Front /\ offset' = next + 1
  BY DEF Take, InHand, Front, Updates
<1>2. takes' = [takes EXCEPT ![next] = @ + 1]
      /\ UNCHANGED <<arrived, held, next, upto, requests, restarts>> /\ pollAt' = "handle"
  BY DEF Take
<1>3. Counted'
  BY <1>1, <1>2 DEF Counted, Front, Updates
<1>4. UpdatesTypeOK'
  BY <1>1, <1>2, SMTT(30) DEF Updates
<1>5. InHand'
  BY <1>1, <1>2 DEF Take, InHand, Front, Updates
<1>6. QED
  BY <1>3, <1>4, <1>5

\* An update in handling is left in hand, passed, or given up with the rest of its batch.
LEMMA HandlingKeeps ==
  ASSUME UpdatesInv, pollAt # "poll",
         UNCHANGED <<arrived, held, offset, upto, takes, restarts>>,
         requests' \in [Updates -> Nat],
         \/ pollAt' = "reply" /\ UNCHANGED next
         \/ pollAt' = "poll" /\ next' \in {next + 1, upto + 1}
  PROVE  UpdatesInv'
<1> USE UpdatesAssumption, BreaksAssumption DEF UpdatesInv, UpdatesTypeOK
<1>1. Counted'
  BY DEF Counted
<1>2. next' \in 1..(LastUpdate + 1)
  BY DEF InHand
<1>3. InHand'
  BY DEF InHand, Front
<1>4. QED
  BY <1>1, <1>2, <1>3

LEMMA HandleKeeps == UpdatesInv /\ (Handle \/ Reply) => UpdatesInv'
<1> SUFFICES ASSUME UpdatesInv, Handle \/ Reply PROVE UpdatesInv'
  OBVIOUS
<1>1. pollAt # "poll" /\ UNCHANGED <<arrived, held, offset, upto, takes, restarts>>
  BY DEF Handle, Reply, GivesUp
<1>2. \/ pollAt' = "reply" /\ UNCHANGED next
      \/ pollAt' = "poll" /\ next' \in {next + 1, upto + 1}
  BY DEF Handle, Reply, GivesUp
<1>3. requests' \in [Updates -> Nat]
  <2>1. requests \in [Updates -> Nat] /\ next \in Updates
    BY <1>1, UpdatesAssumption DEF UpdatesInv, UpdatesTypeOK, InHand, Updates
  <2>2. requests' \in {requests, [requests EXCEPT ![next] = @ + 1]}
    BY DEF Handle, Reply
  <2>3. QED
    BY <2>1, <2>2
<1>4. QED
  BY <1>1, <1>2, <1>3, HandlingKeeps

LEMMA OthersKeep == UpdatesInv /\ (Arrive \/ Restart) => UpdatesInv'
<1> SUFFICES ASSUME UpdatesInv, Arrive \/ Restart PROVE UpdatesInv'
  OBVIOUS
<1> USE UpdatesAssumption, BreaksAssumption
    DEF UpdatesInv, UpdatesTypeOK, InHand, Counted, Front, handVars
<1>1. CASE Arrive
  BY <1>1 DEF Arrive
<1>2. CASE Restart
  BY <1>2 DEF Restart, Updates
<1>3. QED
  BY <1>1, <1>2

\* What the offset says of the updates before it (the inductive invariant).
THEOREM UpdatesInvariant == UpdatesSpec => []UpdatesInv
<1>1. UpdatesInv /\ [UpdatesNext]_updateVars => UpdatesInv'
  <2> SUFFICES ASSUME UpdatesInv, [UpdatesNext]_updateVars PROVE UpdatesInv'
    OBVIOUS
  <2>1. CASE Poll
    BY <2>1, PollKeeps
  <2>2. CASE Take
    BY <2>2, TakeKeeps
  <2>3. CASE Handle \/ Reply
    BY <2>3, HandleKeeps
  <2>4. CASE Arrive \/ Restart
    BY <2>4, OthersKeep
  <2>5. CASE UNCHANGED updateVars
    BY <2>5 DEF updateVars, UpdatesInv, UpdatesTypeOK, InHand, Counted, Front
  <2>6. QED
    BY <2>1, <2>2, <2>3, <2>4, <2>5 DEF UpdatesNext
<1>2. QED
  BY <1>1, UpdatesStart, PTL DEF UpdatesSpec

(***************************************************************************)
(* No update is dropped by the server before the connector took it up, and *)
(* none is taken up twice within one life of its process (run).            *)
(***************************************************************************)
THEOREM EveryUpdateTakenCorrect == UpdatesSpec => []EveryUpdateTaken
<1>1. UpdatesInv => EveryUpdateTaken
  BY DEF UpdatesInv, Counted, EveryUpdateTaken
<1>2. QED
  BY <1>1, UpdatesInvariant, PTL
-----------------------------------------------------------------------------
\* The logs of a service

\* The columns the argument reads.
LogColumns ==
  /\ monthAge \in [LogMonths -> Present..BehindFloor]
  /\ segment \in [Segments -> {"none", "current", "stamped", "linked", "closed",
                               "quarantined", "gone"}]
  /\ stamp \in [Segments -> LogMonths]
  /\ archive \in [LogMonths -> LogArchives] /\ kept \in [LogMonths -> LogArchives]
  /\ planned \in [LogMonths -> SUBSET Segments]
  /\ expiring \subseteq Segments /\ giveUp \subseteq LogMonths

\* The month of s may be given up; the archive of its month, in a, has s.
Behind(s)    == monthAge[stamp[s]] = BehindFloor
HeldIn(a, s) == a[stamp[s]].there /\ s \in a[stamp[s]].of

\* A removed segment is in the archive that is there and in the one a power loss leaves.
Preserved == \A s \in Segments :
  segment[s] = "gone" => Behind(s) \/ (HeldIn(kept, s) /\ HeldIn(archive, s))

\* What a run listed keeps its name while the run lasts.
Listed ==
  /\ \A m \in LogMonths : \A s \in planned[m] : stamp[s] = m /\ segment[s] = "closed"
  /\ \A s \in expiring : segment[s] \in {"closed", "quarantined"}
  /\ \A m \in giveUp : monthAge[m] = BehindFloor
  /\ upkeep \notin {"archiving", "linked", "published"} => \A m \in LogMonths : planned[m] = {}

\* Of the months to archive only the one at hand has an archive, the one just made.
AtHand(m) == /\ upkeep \in {"linked", "published"}
             /\ \A n \in LogMonths : planned[n] # {} => m <= n
MonthByMonth == \A m \in LogMonths : planned[m] # {} =>
  IF AtHand(m) THEN archive[m].there /\ archive[m].of = planned[m] ELSE ~archive[m].there

\* A segment to retire is archived, or will be before the archives are pinned; when
\* segments are retired, durably so.
Retiring == \A s \in expiring :
  /\ upkeep \in {"archiving", "linked", "published", "pinning"} =>
       HeldIn(archive, s) \/ s \in planned[stamp[s]]
  /\ upkeep = "retiring" => HeldIn(archive, s) /\ HeldIn(kept, s)

LogsInv == LogColumns /\ Preserved /\ Listed /\ MonthByMonth /\ Retiring

\* A second name changes nothing else of an archive.
LEMMA SecondName ==
  ASSUME NEW a \in LogArchives, NEW b \in BOOLEAN
  PROVE  /\ [a EXCEPT !.second = b] \in LogArchives
         /\ [a EXCEPT !.second = b].there = a.there /\ [a EXCEPT !.second = b].of = a.of
BY DEF LogArchives

\* Before the service has run there is nothing to lose.
LEMMA LogsStart == LogsInit => LogsInv
<1> SUFFICES ASSUME LogsInit PROVE LogsInv
  OBVIOUS
<1>1. (CHOOSE m \in LogMonths : TRUE) \in LogMonths
  BY LogMonthsAssumption
<1>2. NoArchive \in LogArchives
  BY DEF NoArchive, LogArchives
<1>3. LogColumns
  BY <1>1, <1>2 DEF LogsInit, LogColumns, Present, BehindFloor
<1>4. Preserved /\ Listed /\ MonthByMonth /\ Retiring
  BY DEF LogsInit, Preserved, Listed, MonthByMonth, Retiring
<1> QED
  BY <1>3, <1>4 DEF LogsInv

\* The service, and the calendar, leave closed and removed segments and their names alone,
\* and no month comes back from behind the retained ones.
LEMMA ServiceKeeps ==
  ASSUME LogsInv, LogColumns', UNCHANGED <<archive, kept, upkeep, planned, expiring, giveUp>>,
         \A s \in Segments : /\ segment[s] \in {"closed", "quarantined"} => segment'[s] = segment[s]
                             /\ segment'[s] = "gone" => segment[s] = "gone"
                             /\ segment[s] \in {"closed", "quarantined", "gone"} => stamp'[s] = stamp[s],
         \A m \in LogMonths : monthAge[m] = BehindFloor => monthAge'[m] = BehindFloor
  PROVE  LogsInv'
<1> USE DEF LogsInv
<1>1. Preserved'
  BY DEF Preserved, Behind, HeldIn, LogColumns
<1>2. Listed'
  BY DEF Listed, LogColumns
<1>3. MonthByMonth'
  BY DEF MonthByMonth, AtHand
<1>4. Retiring'
  BY DEF Retiring, HeldIn, Listed, LogColumns
<1> QED
  BY <1>1, <1>2, <1>3, <1>4

\* So does every step of run_service, its crash included.
LEMMA StreamKeeps ==
  ASSUME LogsInv,
         \/ \E m \in LogMonths : MonthPasses(m)
         \/ StartService \/ EndService \/ WriterCrashes
         \/ \E s \in Segments : WriteChunk(s) \/ Stamp(s) \/ Link(s)
  PROVE  LogsInv'
<1> USE DEF LogsInv, LogColumns
<1>1. ASSUME NEW m \in LogMonths, MonthPasses(m) PROVE LogsInv'
  <2>1. monthAge' = [monthAge EXCEPT ![m] = @ + 1] /\ monthAge[m] < BehindFloor
        /\ UNCHANGED <<segment, stamp, archive, kept, upkeep, planned, expiring, giveUp>>
    BY <1>1 DEF MonthPasses, streamVars, planVars
  <2>2. LogColumns' /\ \A n \in LogMonths : monthAge[n] = BehindFloor => monthAge'[n] = BehindFloor
    BY <2>1 DEF Present, BehindFloor
  <2> QED
    BY <2>1, <2>2, ServiceKeeps
<1>2. CASE StartService
  <2>1. PICK m \in LogMonths :
          /\ segment' = [s \in Segments |-> IF s \in Unclosed THEN "closed" ELSE segment[s]]
          /\ stamp' = [s \in Segments |-> IF segment[s] = "current" THEN m ELSE stamp[s]]
          /\ UNCHANGED <<monthAge, archive, kept, upkeep, planned, expiring, giveUp>>
    BY <1>2 DEF StartService, ThisMonth, planVars
  <2>2. LogColumns'
    BY <2>1
  <2> QED
    BY <2>1, <2>2, ServiceKeeps DEF Unclosed
<1>3. CASE EndService
  BY <1>3, ServiceKeeps DEF EndService, planVars
<1>4. CASE WriterCrashes
  <2>1. segment' = [s \in Segments |-> IF segment[s] = "stamped" THEN "current" ELSE segment[s]]
        /\ UNCHANGED <<monthAge, stamp, archive, kept, upkeep, planned, expiring, giveUp>>
    BY <1>4 DEF WriterCrashes, Unstamped, planVars
  <2>2. LogColumns'
    BY <2>1
  <2> QED
    BY <2>1, <2>2, ServiceKeeps
<1>5. ASSUME NEW s \in Segments, WriteChunk(s) \/ Stamp(s) \/ Link(s) PROVE LogsInv'
  <2>1. /\ segment[s] \in {"none", "current", "stamped", "linked"}
        /\ \E v \in {"current", "stamped", "linked", "closed"} : segment' = [segment EXCEPT ![s] = v]
        /\ stamp' = stamp \/ (segment[s] = "current" /\ \E m \in LogMonths : stamp' = [stamp EXCEPT ![s] = m])
        /\ UNCHANGED <<monthAge, archive, kept, upkeep, planned, expiring, giveUp>>
    BY <1>5 DEF WriteChunk, Stamp, Link, ThisMonth, planVars
  <2>2. LogColumns'
    BY <2>1
  <2> QED
    BY <2>1, <2>2, ServiceKeeps
<1> QED
  BY <1>1, <1>2, <1>3, <1>4, <1>5

\* A run lists what its archives hold, or will.
LEMMA PlanKeeps == LogsInv /\ PlanLogs => LogsInv'
<1> SUFFICES ASSUME LogsInv, PlanLogs PROVE LogsInv'
  OBVIOUS
<1> USE DEF LogsInv
<1> DEFINE passed == {m \in LogMonths : monthAge[m] # Present}
           new == {m \in passed : ~archive[m].there /\ monthAge[m] # BehindFloor}
           due == {m \in passed : monthAge[m] >= RawOver /\ (archive[m].there \/ m \in new)}
<1>1. /\ \A s \in Segments : segment[s] # "linked"
      /\ \A m \in passed : archive[m].there => Named(m) \subseteq archive[m].of
      /\ planned' = [m \in LogMonths |-> IF m \in new THEN Named(m) ELSE {}]
      /\ expiring' = UNION {Named(m) : m \in due}
      /\ giveUp' = {m \in due : monthAge[m] = BehindFloor /\ archive[m].there}
      /\ upkeep' = "archiving"
      /\ UNCHANGED <<monthAge, segment, stamp, archive, kept>>
  BY DEF PlanLogs, streamVars
<1>2. \A m \in LogMonths : Named(m) \subseteq Segments
                           /\ \A s \in Named(m) : stamp[s] = m /\ segment[s] = "closed"
  BY <1>1 DEF Named
<1>3. \A m \in new : ~archive[m].there
  OBVIOUS
<1>4. \A m \in due : m \in LogMonths /\ m \in passed /\ (archive[m].there \/ m \in new)
  OBVIOUS
<1>5. giveUp' \subseteq LogMonths /\ \A m \in giveUp' : monthAge[m] = BehindFloor
  BY <1>1
<1> HIDE DEF passed, new, due
<1>6. LogColumns'
  BY <1>1, <1>2, <1>4, <1>5 DEF LogColumns
<1>7. Preserved'
  BY <1>1 DEF Preserved, Behind, HeldIn
<1>8. \A s \in expiring' : \E m \in due : s \in Named(m)
  BY <1>1
<1>9. Listed'
  BY <1>1, <1>2, <1>4, <1>5, <1>8 DEF Listed
<1>10. MonthByMonth'
  BY <1>1, <1>3 DEF MonthByMonth, AtHand
<1>11. Retiring'
  <2> SUFFICES ASSUME NEW s \in expiring' PROVE HeldIn(archive, s) \/ s \in planned'[stamp[s]]
    BY <1>1 DEF Retiring, HeldIn
  <2>1. PICK m \in due : s \in Named(m)
    BY <1>8
  <2>2. m \in LogMonths /\ stamp[s] = m
    BY <1>2, <1>4, <2>1
  <2>3. CASE archive[m].there
    BY <1>1, <1>4, <2>1, <2>2, <2>3 DEF HeldIn
  <2>4. CASE m \in new
    BY <1>1, <2>1, <2>2, <2>4
  <2> QED
    BY <1>4, <2>3, <2>4
<1> QED
  BY <1>6, <1>7, <1>9, <1>10, <1>11

\* The archive it makes replaces none.
LEMMA CreateKeeps ==
  ASSUME LogsInv, NEW m \in LogMonths, CreateArchive(m)
  PROVE  LogsInv'
<1> USE DEF LogsInv
<1>1. /\ planned[m] # {} /\ \A n \in LogMonths : planned[n] # {} => m <= n
      /\ UNCHANGED <<monthAge, segment, stamp, expiring, giveUp>>
  BY DEF CreateArchive, streamVars
<1>2. \A n \in LogMonths : planned[n] # {} /\ n # m => ~(n <= m)
  BY <1>1, LogMonthsAssumption
<1>3. planned[m] \subseteq Segments /\ m \in LogMonths
  BY DEF LogColumns
<1>4. ASSUME upkeep = "archiving", upkeep' = "linked", UNCHANGED <<kept, planned>>,
             archive' = [archive EXCEPT ![m] = [there |-> TRUE, second |-> TRUE, of |-> planned[m]]]
      PROVE  LogsInv'
  <2>1. ~archive[m].there
    BY <1>1, <1>4 DEF MonthByMonth, AtHand
  <2>2. [there |-> TRUE, second |-> TRUE, of |-> planned[m]] \in LogArchives
    BY <1>3 DEF LogArchives
  <2>3. /\ archive'[m].there /\ archive'[m].of = planned[m]
        /\ \A n \in LogMonths \ {m} : archive'[n] = archive[n]
    BY <1>4 DEF LogColumns
  <2>4. \A s \in Segments : stamp[s] \in LogMonths /\ (HeldIn(archive, s) => HeldIn(archive', s))
    BY <2>1, <2>3 DEF HeldIn, LogColumns
  <2>5. LogColumns'
    BY <1>1, <1>4, <2>2 DEF LogColumns
  <2>6. Preserved'
    BY <1>1, <1>4, <2>4 DEF Preserved, Behind, HeldIn
  <2>7. Listed'
    BY <1>1, <1>4 DEF Listed
  <2>8. MonthByMonth'
    BY <1>1, <1>2, <1>4, <2>3 DEF MonthByMonth, AtHand
  <2>9. Retiring'
    BY <1>1, <1>4, <2>4 DEF Retiring, HeldIn, LogColumns
  <2> QED
    BY <2>5, <2>6, <2>7, <2>8, <2>9
<1>5. ASSUME upkeep = "linked", upkeep' = "published", UNCHANGED <<kept, planned>>,
             archive' = [archive EXCEPT ![m].second = FALSE]
      PROVE  LogsInv'
  <2>1. archive' = [archive EXCEPT ![m] = [archive[m] EXCEPT !.second = FALSE]]
    BY <1>5
  <2>2. /\ LogColumns'
        /\ \A n \in LogMonths : archive'[n].there = archive[n].there /\ archive'[n].of = archive[n].of
    <3>1. archive[m] \in LogArchives /\ archive \in [LogMonths -> LogArchives]
      BY DEF LogColumns
    <3>2. archive' \in [LogMonths -> LogArchives]
      BY <2>1, <3>1, SecondName
    <3>3. \A n \in LogMonths : archive'[n].there = archive[n].there /\ archive'[n].of = archive[n].of
      BY <2>1, <3>1, SecondName
    <3> QED
      BY <1>1, <1>5, <3>2, <3>3 DEF LogColumns
  <2>3. Preserved' /\ Listed'
    BY <1>1, <1>5, <2>2 DEF Preserved, Behind, HeldIn, Listed, LogColumns
  <2>4. MonthByMonth' /\ Retiring'
    BY <1>1, <1>5, <2>2 DEF MonthByMonth, AtHand, Retiring, HeldIn, LogColumns
  <2> QED
    BY <2>2, <2>3, <2>4
<1>6. ASSUME upkeep = "published", upkeep' = "archiving", UNCHANGED archive,
             kept' = archive, planned' = [planned EXCEPT ![m] = {}]
      PROVE  LogsInv'
  <2>1. archive[m].there /\ archive[m].of = planned[m]
    BY <1>1, <1>6 DEF MonthByMonth, AtHand
  <2>2. \A n \in LogMonths : planned'[n] = IF n = m THEN {} ELSE planned[n]
    BY <1>6 DEF LogColumns
  <2>3. LogColumns'
    BY <1>1, <1>6 DEF LogColumns
  <2>4. Preserved'
    BY <1>1, <1>6 DEF Preserved, Behind, HeldIn
  <2>5. Listed'
    BY <1>1, <1>6, <2>2 DEF Listed
  <2>6. MonthByMonth'
    BY <1>1, <1>2, <1>6, <2>2 DEF MonthByMonth, AtHand
  <2>7. Retiring'
    <3> SUFFICES ASSUME NEW s \in expiring PROVE HeldIn(archive, s) \/ s \in planned'[stamp[s]]
      BY <1>1, <1>6 DEF Retiring, HeldIn
    <3>1. HeldIn(archive, s) \/ s \in planned[stamp[s]]
      BY <1>6 DEF Retiring
    <3>2. stamp[s] \in LogMonths
      BY DEF LogColumns
    <3> QED
      BY <2>1, <2>2, <3>1, <3>2 DEF HeldIn
  <2> QED
    BY <2>3, <2>4, <2>5, <2>6, <2>7
<1> QED
  BY <1>4, <1>5, <1>6 DEF CreateArchive

\* Second names of archives come and go; the directory is synchronised.
LEMMA PinsKeep ==
  ASSUME LogsInv,
         \/ \E m \in LogMonths : PinArchive(m) \/ Unpin(m)
         \/ SyncPins \/ SyncUnpinned \/ SyncRemoved
  PROVE  LogsInv'
<1> USE DEF LogsInv
<1>1. ASSUME NEW m \in LogMonths, PinArchive(m) \/ Unpin(m) PROVE LogsInv'
  <2>1. /\ \/ archive' = [archive EXCEPT ![m].second = TRUE]
           \/ archive' = [archive EXCEPT ![m].second = FALSE]
        /\ \/ upkeep \in {"archiving", "pinning"} /\ upkeep' = "pinning"
           \/ upkeep \in {"retiring", "unpinning"} /\ upkeep' = "unpinning" /\ expiring = {}
        /\ \A n \in LogMonths : planned[n] = {}
        /\ UNCHANGED <<monthAge, segment, stamp, kept, planned, expiring, giveUp>>
    <3>1. CASE PinArchive(m)
      BY <3>1 DEF PinArchive, streamVars
    <3>2. CASE Unpin(m)
      BY <3>2 DEF Unpin, streamVars, Listed
    <3> QED
      BY <1>1, <3>1, <3>2
  <2>2. PICK b \in BOOLEAN : archive' = [archive EXCEPT ![m] = [archive[m] EXCEPT !.second = b]]
    BY <2>1
  <2>3. /\ LogColumns'
        /\ \A n \in LogMonths : archive'[n].there = archive[n].there /\ archive'[n].of = archive[n].of
    BY <2>1, <2>2, SecondName DEF LogColumns
  <2>4. Preserved' /\ Listed'
    BY <2>1, <2>3 DEF Preserved, Behind, HeldIn, Listed, LogColumns
  <2>5. MonthByMonth' /\ Retiring'
    BY <2>1, <2>3 DEF MonthByMonth, AtHand, Retiring, HeldIn, LogColumns
  <2> QED
    BY <2>3, <2>4, <2>5
<1>2. CASE SyncPins \/ SyncUnpinned \/ SyncRemoved
  <2>1. /\ kept' = archive
        /\ \/ upkeep \in {"archiving", "pinning"} /\ upkeep' = "retiring"
           \/ upkeep \in {"retiring", "unpinning"} /\ upkeep' = "removing"
           \/ upkeep = "removing" /\ upkeep' = "idle"
        /\ \A n \in LogMonths : planned[n] = {}
        /\ UNCHANGED <<monthAge, segment, stamp, archive, planned, expiring, giveUp>>
    BY <1>2 DEF SyncPins, Synced, SyncUnpinned, SyncRemoved, streamVars, planVars, Listed
  <2>2. LogColumns'
    BY <2>1 DEF LogColumns
  <2>3. Preserved' /\ Listed'
    BY <2>1 DEF Preserved, Behind, HeldIn, Listed
  <2>4. MonthByMonth'
    BY <2>1 DEF MonthByMonth
  <2>5. Retiring'
    BY <2>1 DEF Retiring, HeldIn, LogColumns
  <2> QED
    BY <2>2, <2>3, <2>4, <2>5
<1> QED
  BY <1>1, <1>2

\* What is removed is durably archived, or behind the retained months.
LEMMA RemovalsKeep ==
  ASSUME LogsInv,
         (\E s \in Segments : RetireRaw(s)) \/ (\E m \in LogMonths : RemoveArchive(m))
  PROVE  LogsInv'
<1> USE DEF LogsInv
<1>1. ASSUME NEW s \in Segments, RetireRaw(s) PROVE LogsInv'
  <2>1. /\ upkeep = "retiring" /\ s \in expiring
        /\ \/ segment' = [segment EXCEPT ![s] = "quarantined"] /\ expiring' = expiring
           \/ segment' = [segment EXCEPT ![s] = "gone"] /\ expiring' = expiring \ {s}
        /\ UNCHANGED <<monthAge, stamp, archive, kept, upkeep, planned, giveUp>>
    BY <1>1 DEF RetireRaw
  <2>2. HeldIn(archive, s) /\ HeldIn(kept, s)
    BY <2>1 DEF Retiring
  <2>3. \A m \in LogMonths : planned[m] = {}
    BY <2>1 DEF Listed
  <2>4. LogColumns'
    BY <2>1 DEF LogColumns
  <2>5. Preserved'
    BY <2>1, <2>2 DEF Preserved, Behind, HeldIn, LogColumns
  <2>6. Listed'
    BY <2>1, <2>3 DEF Listed, LogColumns
  <2>7. MonthByMonth' /\ Retiring'
    BY <2>1, <2>3 DEF MonthByMonth, Retiring, HeldIn
  <2> QED
    BY <2>4, <2>5, <2>6, <2>7
<1>2. ASSUME NEW m \in LogMonths, RemoveArchive(m) PROVE LogsInv'
  <2>1. /\ upkeep = "removing" /\ m \in giveUp
        /\ archive' = [archive EXCEPT ![m] = NoArchive] /\ giveUp' = giveUp \ {m}
        /\ UNCHANGED <<monthAge, segment, stamp, kept, upkeep, planned, expiring>>
    BY <1>2 DEF RemoveArchive, streamVars
  <2>2. monthAge[m] = BehindFloor /\ \A n \in LogMonths : planned[n] = {}
    BY <2>1 DEF Listed
  <2>3. \A n \in LogMonths \ {m} : archive'[n] = archive[n]
    BY <2>1 DEF LogColumns
  <2>4. LogColumns'
    BY <2>1 DEF LogColumns, NoArchive, LogArchives
  <2>5. Preserved'
    BY <2>1, <2>2, <2>3 DEF Preserved, Behind, HeldIn, LogColumns
  <2>6. Listed' /\ MonthByMonth' /\ Retiring'
    BY <2>1, <2>2 DEF Listed, MonthByMonth, Retiring
  <2> QED
    BY <2>4, <2>5, <2>6
<1> QED
  BY <1>1, <1>2

\* Whatever ends a run, the rows a power loss brings back are of one of the two archives.
LEMMA AccidentsKeep ==
  ASSUME LogsInv, (\E crash \in BOOLEAN : UpkeepFails(crash)) \/ LosesPower
  PROVE  LogsInv'
<1> USE DEF LogsInv
<1>1. /\ upkeep' = "idle" /\ planned' = [m \in LogMonths |-> {}]
      /\ expiring' = {} /\ giveUp' = {} /\ UNCHANGED <<monthAge, stamp>>
  BY DEF UpkeepFails, LosesPower, Forgotten
<1>2. \A s \in Segments : segment'[s] = "gone" => segment[s] = "gone"
  BY DEF UpkeepFails, LosesPower, Unstamped
<1>3. segment' \in [Segments -> {"none", "current", "stamped", "linked", "closed",
                                 "quarantined", "gone"}]
  BY DEF UpkeepFails, LosesPower, Unstamped, LogColumns
<1>4. /\ archive' \in [LogMonths -> LogArchives] /\ kept' \in [LogMonths -> LogArchives]
      /\ \A m \in LogMonths :
           /\ \/ archive'[m].there = archive[m].there /\ archive'[m].of = archive[m].of
              \/ archive'[m] = kept[m]
           /\ kept'[m] = kept[m] \/ kept'[m] = archive'[m]
  <2>1. CASE \E crash \in BOOLEAN : UpkeepFails(crash)
    <3>1. PICK crash \in BOOLEAN : UpkeepFails(crash)
      BY <2>1
    <3>2. /\ archive' = [m \in LogMonths |-> archive'[m]]
          /\ \A m \in LogMonths :
               archive'[m] \in {archive[m], [archive[m] EXCEPT !.second = FALSE]}
          /\ kept' = kept
      BY <3>1 DEF UpkeepFails
    <3>3. ASSUME NEW m \in LogMonths
          PROVE  /\ archive'[m] \in LogArchives
                 /\ archive'[m].there = archive[m].there /\ archive'[m].of = archive[m].of
      <4>1. archive[m] \in LogArchives
        BY DEF LogColumns
      <4> QED
        BY <3>2, <4>1, SecondName
    <3>4. archive' \in [LogMonths -> LogArchives]
      BY <3>2, <3>3
    <3> QED
      BY <3>2, <3>3, <3>4 DEF LogColumns
  <2>2. CASE LosesPower
    BY <2>2 DEF LosesPower, LogColumns
  <2> QED
    BY <2>1, <2>2
<1>5. LogColumns'
  BY <1>1, <1>3, <1>4 DEF LogColumns
<1>6. Preserved'
  BY <1>1, <1>2, <1>4 DEF Preserved, Behind, HeldIn, LogColumns
<1>7. Listed' /\ MonthByMonth' /\ Retiring'
  BY <1>1 DEF Listed, MonthByMonth, Retiring
<1> QED
  BY <1>5, <1>6, <1>7

\* Every step of the two processes keeps the invariant.
LEMMA LogsStep == LogsInv /\ [LogsNext]_serviceVars => LogsInv'
<1> SUFFICES ASSUME LogsInv, [LogsNext]_serviceVars PROVE LogsInv'
  OBVIOUS
<1>1. CASE UpkeepStep
  BY <1>1, PlanKeeps, CreateKeeps, PinsKeep, RemovalsKeep DEF UpkeepStep
<1>2. CASE UNCHANGED serviceVars
  BY <1>2, ServiceKeeps DEF serviceVars, streamVars, planVars, LogsInv, LogColumns
<1>3. CASE LogsNext
  BY <1>1, <1>3, StreamKeeps, AccidentsKeep DEF LogsNext
<1> QED
  BY <1>2, <1>3

\* Publication, pins, retirement and removal never pass one another (the inductive invariant).
THEOREM LogsInvariant == LogsSpec => []LogsInv
BY LogsStart, LogsStep, PTL DEF LogsSpec

\* No crash, error or power loss, at any step of maintain_service_logs, and no rotation or
\* restart of run_service meanwhile, loses the output of a retained month.
THEOREM NoSegmentLostCorrect == LogsSpec => []NoSegmentLost
<1>1. LogsInv => NoSegmentLost
  BY DEF LogsInv, Preserved, Behind, HeldIn, NoSegmentLost
<1> QED
  BY <1>1, LogsInvariant, PTL

\* Only finitely many segments have been opened, so that they can be counted; with the
\* columns above, the types.
Opened == {s \in Segments : segment[s] # "none"}
LogCounts ==
  /\ writer \in {"down", "up", "ending"} /\ total \in Nat /\ IsFiniteSet(Opened)
  /\ upkeep \in {"idle", "archiving", "linked", "published", "pinning", "retiring",
                 "unpinning", "removing"}
  /\ pins \subseteq LogMonths /\ accidents \in 0..MaxAccidents

\* Counting the raw segments gives a number.
LEMMA RawCounted == IsFiniteSet(Opened) => Cardinality(Raw) \in Nat
<1> SUFFICES ASSUME IsFiniteSet(Opened) PROVE Cardinality(Raw) \in Nat
  OBVIOUS
<1>1. Raw \subseteq Opened
  BY DEF Raw, Opened
<1> QED
  BY <1>1, FS_Subset, FS_CardinalityType

\* A chunk opens one segment, no other step any.
LEMMA LogCountsStep == LogColumns /\ LogCounts /\ [LogsNext]_serviceVars => LogCounts'
<1> SUFFICES ASSUME LogColumns, LogCounts, [LogsNext]_serviceVars PROVE LogCounts'
  OBVIOUS
<1> USE DEF LogCounts
<1>1. ASSUME \A s \in Segments : segment[s] = "none" => segment'[s] = "none"
      PROVE  IsFiniteSet(Opened')
  <2>1. Opened' \subseteq Opened
    BY <1>1 DEF Opened
  <2> QED
    BY <2>1, FS_Subset
<1>2. UNCHANGED segment => IsFiniteSet(Opened')
  BY <1>1
<1>3. CASE StartService
  <2>1. segment' = [s \in Segments |-> IF s \in Unclosed THEN "closed" ELSE segment[s]]
        /\ total' = Cardinality(Raw) /\ writer' \in {"down", "up"} /\ UNCHANGED <<upkeep, pins, accidents>>
    BY <1>3 DEF StartService, planVars
  <2>2. IsFiniteSet(Opened')
    BY <1>1, <2>1 DEF Unclosed
  <2> QED
    BY <2>1, <2>2, RawCounted
<1>4. ASSUME NEW s \in Segments, WriteChunk(s) PROVE LogCounts'
  <2>1. /\ segment' = [segment EXCEPT ![s] = "current"]
        /\ total' \in {Cardinality(Raw) + 1, total + 1} /\ writer' \in {"ending", "up"}
        /\ UNCHANGED <<upkeep, pins, accidents>>
    BY <1>4 DEF WriteChunk, planVars
  <2>2. Opened' \subseteq Opened \cup {s}
    BY <2>1 DEF Opened, LogColumns
  <2>3. IsFiniteSet(Opened \cup {s})
    BY FS_AddElement
  <2>4. IsFiniteSet(Opened')
    BY <2>2, <2>3, FS_Subset
  <2>5. total' \in Nat
    BY <2>1, RawCounted
  <2> QED
    BY <2>1, <2>4, <2>5
<1>5. ASSUME NEW s \in Segments, Stamp(s) \/ Link(s) \/ RetireRaw(s) PROVE LogCounts'
  <2>1. /\ segment[s] # "none" /\ \E v : segment' = [segment EXCEPT ![s] = v]
        /\ UNCHANGED <<writer, total, upkeep, pins, accidents>>
    BY <1>5 DEF Stamp, Link, RetireRaw, planVars
  <2>2. IsFiniteSet(Opened')
    BY <1>1, <2>1 DEF LogColumns
  <2> QED
    BY <2>1, <2>2
<1>6. CASE EndService \/ \E m \in LogMonths : MonthPasses(m)
  BY <1>2, <1>6 DEF EndService, MonthPasses, streamVars, planVars
<1>7. CASE PlanLogs \/ SyncPins \/ SyncUnpinned \/ SyncRemoved
  BY <1>2, <1>7 DEF PlanLogs, SyncPins, SyncUnpinned, SyncRemoved, streamVars, planVars
<1>8. CASE \E m \in LogMonths : CreateArchive(m) \/ PinArchive(m) \/ Unpin(m) \/ RemoveArchive(m)
  BY <1>2, <1>8 DEF CreateArchive, PinArchive, Unpin, RemoveArchive, streamVars
<1>9. CASE (\E crash \in BOOLEAN : UpkeepFails(crash)) \/ WriterCrashes \/ LosesPower
  <2>1. \A s \in Segments : segment[s] = "none" => segment'[s] = "none"
    BY <1>9 DEF UpkeepFails, WriterCrashes, LosesPower, Unstamped
  <2>2. accidents' \in 0..MaxAccidents
    BY <1>9, LogBoundsAssumption DEF UpkeepFails, WriterCrashes, LosesPower, Accident
  <2>3. /\ writer' \in {"down", writer} /\ total' = total
        /\ upkeep' \in {"idle", upkeep} /\ pins' \in {{}, pins}
    BY <1>9 DEF UpkeepFails, WriterCrashes, LosesPower, Forgotten, planVars
  <2> QED
    BY <1>1, <2>1, <2>2, <2>3
<1>10. CASE UNCHANGED serviceVars
  BY <1>2, <1>10 DEF serviceVars, streamVars, planVars
<1> QED
  BY <1>3, <1>4, <1>5, <1>6, <1>7, <1>8, <1>9, <1>10 DEF LogsNext, UpkeepStep

\* run_service counts its segments and maintenance its steps within their types, in every
\* reachable state.
THEOREM LogsTypeCorrect == LogsSpec => []LogsTypeOK
<1>1. LogsInit => LogCounts
  <2> SUFFICES ASSUME LogsInit PROVE LogCounts
    OBVIOUS
  <2>1. Opened = {}
    BY DEF LogsInit, Opened
  <2> QED
    BY <2>1, FS_EmptySet, LogBoundsAssumption DEF LogsInit, LogCounts
<1>2. LogsInv /\ LogCounts /\ [LogsNext]_serviceVars => LogCounts'
  BY LogCountsStep DEF LogsInv
<1>3. LogsInv /\ LogCounts => LogsTypeOK
  BY DEF LogsInv, LogColumns, LogCounts, LogsTypeOK
<1> QED
  BY <1>1, <1>2, <1>3, LogsInvariant, PTL DEF LogsSpec
=============================================================================

-------------------------- MODULE ConversationMemory --------------------------
(***************************************************************************)
(* What is remembered of one conversation: its turns and the question that *)
(* waits for an answer (conversation_store.py), the work records and the   *)
(* topic notes of its successful runs (work_memory.py, wiki_store.py) and  *)
(* the memory candidates of its requests (dashboard_store.py,              *)
(* memory_worker.py).  They are written by the transaction that finishes a *)
(* run, that of the request or that of the application of its plan, and    *)
(* later by the owner, the reviewer and the memory worker.  Of the control *)
(* plane the model keeps what decides which runs finish with a success.    *)
(***************************************************************************)
EXTENDS Naturals

CONSTANTS Turns,      \* requests of the conversation
          Refused,    \* those that ask not to be remembered
          Sensitive,  \* those whose text fails the screening
          Changing,   \* those whose runs may propose a plan
          Topics, Texts,
          Reviewers,  \* open review screens
          Copies,     \* bound: candidates of one request
          MaxAttempts,            \* of a request
          MaxResets, MaxReviews   \* bounds

ASSUME NotesAssumption     == Turns # {} /\ Topics # {}
ASSUME TurnKindsAssumption == /\ Refused \subseteq Turns /\ Sensitive \subseteq Turns
                              /\ Changing \subseteq Turns
ASSUME MemoryBoundsAssumption ==
  /\ Copies \in Nat /\ MaxResets \in Nat /\ MaxAttempts \in Nat /\ MaxReviews \in Nat

NoTurn == "no turn"
Blank  == "blank"
\* A work record belongs to an execution: an attempt of a request or, numbered 0,
\* the run that applied its plan.
Of(t)   == {t} \X (0..MaxAttempts)
Records == Turns \X (0..MaxAttempts)
Notes   == Records \X Topics
Items   == Turns \X (1..Copies)
Active  == {"pending", "approved"}
Waits   == {"queued", "waiting"}
Working == {"claimed", "checked", "running", "proposing"}

VARIABLES
  generation,  \* of the session, and its memory_reset_generation
  nextSeq,     \* next_sequence
  pending,     \* pending_task_id
  turnGen,     \* generation of a turn
  turnSeq,     \* its sequence, 0 for none
  run,         \* its task; "failed" is failed or blocked
  attempt,     \* its attempts so far, the last of which is its current execution
  lost,        \* the turns with an attempt whose end nobody saw
  change,      \* the live or last plan of the turn
  asks,        \* the turns whose last reply is a question
  heard,       \* the turns whose text went into the prompt of a turn
  scoped,      \* the turns that found their generation alive for recall
  work,        \* status of a work record
  excerpt,     \* the records that hold text
  note,        \* status of a topic note
  noteText,    \* its content
  version,     \* its review_version
  screen,      \* what a reviewer looks at
  item,        \* status of a memory candidate
  title,       \* its title: as extracted, as refined, or blank
  refining     \* the candidates the memory worker holds in its list

turnVars   == <<generation, nextSeq, pending, turnGen, turnSeq, asks>>
changeVars   == <<lost, change>>
taskVars   == <<run, attempt, heard, scoped, changeVars>>
noteVars   == <<work, excerpt, note, noteText, version>>
itemVars   == <<item, title>>
memoryVars == <<turnVars, taskVars, noteVars, screen, itemVars, refining>>

TurnTypeOK ==
  /\ generation \in 0..MaxResets /\ nextSeq \in Nat \ {0}
  /\ pending \in Turns \cup {NoTurn}
  /\ turnGen \in [Turns -> 0..MaxResets] /\ turnSeq \in [Turns -> Nat]
  /\ asks \subseteq Turns
TaskTypeOK ==
  /\ run \in [Turns -> Waits \cup Working \cup {"none", "failed", "cancelled", "completed"}]
  /\ attempt \in [Turns -> 0..MaxAttempts] /\ lost \subseteq Turns
  /\ change \in [Turns -> {"none", "proposed", "closed", "applied", "reported"}]
  /\ heard \in [Turns -> SUBSET Turns] /\ scoped \subseteq Turns
WorkTypeOK ==
  /\ work \in [Records -> {"none", "retained", "forgotten"}] /\ excerpt \subseteq Records
NoteTypeOK ==
  /\ note \in [Notes -> Active \cup {"none", "rejected", "superseded", "forgotten"}]
  /\ noteText \in [Notes -> Texts \cup {Blank}] /\ version \in [Notes -> Nat]
  /\ screen \in [Reviewers -> Notes \X Nat]
ItemTypeOK ==
  /\ item \in [Items -> Active \cup {"none", "rejected", "archived"}]
  /\ title \in [Items -> {"extracted", "refined", Blank}]
  /\ refining \subseteq Items
MemoryTypeOK == TurnTypeOK /\ TaskTypeOK /\ WorkTypeOK /\ NoteTypeOK /\ ItemTypeOK

MemoryInit ==
  /\ generation = 0 /\ nextSeq = 1 /\ pending = NoTurn
  /\ turnGen = [t \in Turns |-> 0] /\ turnSeq = [t \in Turns |-> 0]
  /\ run = [t \in Turns |-> "none"] /\ attempt = [t \in Turns |-> 0]
  /\ lost = {} /\ change = [t \in Turns |-> "none"]
  /\ asks = {} /\ heard = [t \in Turns |-> {}] /\ scoped = {}
  /\ work = [r \in Records |-> "none"] /\ excerpt = {}
  /\ note = [n \in Notes |-> "none"] /\ noteText = [n \in Notes |-> Blank]
  /\ version = [n \in Notes |-> 0]
  /\ screen = [k \in Reviewers |-> <<CHOOSE n \in Notes : TRUE, 0>>]
  /\ item = [i \in Items |-> "none"] /\ title = [i \in Items |-> Blank]
  /\ refining = {}

-----------------------------------------------------------------------------
\* bind_conn: the next turn; a waiting question is answered by it.
Bind(t) ==
  /\ turnSeq[t] = 0
  /\ turnGen' = [turnGen EXCEPT ![t] = generation]
  /\ turnSeq' = [turnSeq EXCEPT ![t] = nextSeq]
  /\ nextSeq' = nextSeq + 1 /\ pending' = NoTurn
  /\ run' = [run EXCEPT ![t] = "queued"]
  /\ UNCHANGED <<generation, asks, attempt, heard, scoped, changeVars, noteVars, screen,
                 itemVars, refining>>

\* reset: a new generation without turns.
Reset ==
  /\ generation < MaxResets
  /\ generation' = generation + 1 /\ nextSeq' = 1 /\ pending' = NoTurn
  /\ UNCHANGED <<turnGen, turnSeq, asks, taskVars, noteVars, screen, itemVars, refining>>

\* The claim of a turn, in the order of the conversation; it waits while a plan is
\* applied in its workspace.
ClaimTurn(t) ==
  /\ run[t] = "queued" /\ attempt[t] < MaxAttempts
  /\ \A u \in Turns : change[u] # "applied"
  /\ ~ \E u \in Turns \ {t} :
         /\ turnGen[u] = turnGen[t]
         /\ \/ run[u] \in Working
            \/ /\ run[u] = "queued" /\ turnSeq[u] \in 1..(turnSeq[t] - 1)
               /\ attempt[u] < MaxAttempts
  /\ run' = [run EXCEPT ![t] = "claimed"]
  /\ attempt' = [attempt EXCEPT ![t] = @ + 1]
  /\ heard' = [heard EXCEPT ![t] = {}] /\ scoped' = scoped \ {t}
  /\ UNCHANGED <<turnVars, changeVars, noteVars, screen, itemVars, refining>>

\* resume, unless a plan took effect.
ResumeTurn(t) == /\ run[t] = "failed" /\ attempt[t] < MaxAttempts
                 /\ change[t] \notin {"applied", "reported"}
                 /\ run' = [run EXCEPT ![t] = "queued"]
                 /\ UNCHANGED <<turnVars, attempt, heard, scoped, changeVars, noteVars, screen,
                                itemVars, refining>>

ForgottenSource(t) == \E r \in Of(t) : work[r] = "forgotten"

\* worker_context of the conversation: the earlier turns of the live generation
\* but for those forgotten, refused or sensitive.
Recent(t) == {u \in Turns \ (Refused \cup Sensitive) :
                /\ turnSeq[u] \in 1..(turnSeq[t] - 1) /\ turnGen[u] = generation
                /\ ~ForgottenSource(u)}

\* A turn of an ended generation gets no history.  The recall of notes and records
\* asks the same in a transaction of its own.
ReadTurns(t) ==
  /\ run[t] = "claimed"
  /\ heard' = [heard EXCEPT ![t] = IF turnGen[t] = generation THEN Recent(t) ELSE {}]
  /\ scoped' = IF turnGen[t] = generation THEN scoped \cup {t} ELSE scoped
  /\ run' = [run EXCEPT ![t] = "checked"]
  /\ UNCHANGED <<turnVars, attempt, changeVars, noteVars, screen, itemVars, refining>>

\* Mutant: recall looks over the whole session.
OfSession(n) == note[n] # "none"
\* The record is that of the current execution of a completed task, with its text.
Stands(r) == /\ work[r] = "retained" /\ r \in excerpt
             /\ run[r[1]] = "completed" /\ r[2] \in {0, attempt[r[1]]}
\* _rows_conn: the note is from after the last reset, and its record still stands.
OfScope(n) == note[n] # "none" /\ turnGen[n[1][1]] >= generation /\ Stands(n[1])

Recalled(u) == \E r \in Of(u), k \in Topics : OfScope(<<r, k>>) /\ note[<<r, k>>] \in Active
Recorded(u) == /\ turnGen[u] >= generation
               /\ \E r \in Of(u) : Stands(r) /\ (r[2] = 0 \/ u \notin asks)

\* list_entries and list_records, after the generation was checked.
ReadNotes(t) ==
  /\ run[t] = "checked"
  /\ heard' = [heard EXCEPT ![t] = @ \cup IF t \in scoped
                                         THEN {u \in Turns \ {t} : Recalled(u) \/ Recorded(u)}
                                         ELSE {}]
  /\ run' = [run EXCEPT ![t] = "running"]
  /\ UNCHANGED <<turnVars, attempt, scoped, changeVars, noteVars, screen, itemVars, refining>>

-----------------------------------------------------------------------------
\* Mutant: a late answer may raise its question again.
EvenLate(t) == TRUE
\* The turn is the last of the session.
IsLast(t) == turnSeq[t] = nextSeq - 1

\* complete_conn of the conversation, for a turn of the live generation.
Concludes(t, ok, question) ==
  IF turnGen[t] # generation THEN UNCHANGED <<asks, pending>>
  ELSE /\ asks' = IF question THEN asks \cup {t} ELSE asks \ {t}
       /\ pending' = IF ~IsLast(t) THEN pending ELSE IF ok /\ question THEN t ELSE NoTurn

\* complete_conn of the work memory: one record of a success that may be kept, with
\* the request it came from.  Other records of that request are not looked at.
Remembers(r, ok) ==
  IF ok /\ r[1] \notin Refused /\ work[r] = "none"
  THEN /\ work' = [work EXCEPT ![r] = "retained"]
       /\ excerpt' = IF r[1] \in Sensitive THEN excerpt ELSE excerpt \cup {r}
  ELSE UNCHANGED <<work, excerpt>>

\* capture_conn: the notes of an answer, but for texts that are there already.
Captures(r, question, proposed) ==
  LET allowed == /\ work'[r] = "retained" /\ r \in excerpt' /\ ~question
                 /\ turnGen[r[1]] >= generation
      present(k) == \E s \in Records : /\ note[<<s, k>>] \in Active
                                       /\ noteText[<<s, k>>] = proposed[k]
                                       /\ work[s] = "retained" /\ turnGen[s[1]] >= generation
      new == {n \in {r} \X Topics : /\ allowed /\ proposed[n[2]] # Blank
                                    /\ note[n] = "none" /\ ~present(n[2])} IN
  /\ note' = [n \in Notes |-> IF n \in new THEN "pending" ELSE note[n]]
  /\ noteText' = [n \in Notes |-> IF n \in new THEN proposed[n[2]] ELSE noteText[n]]
  /\ version' = [n \in Notes |-> IF n \in new THEN 1 ELSE version[n]]

Nothing == [k \in Topics |-> Blank]

\* work_queue.finish of a request, under the fence of the claim, in one transaction.
FinishTurn(t, ok, question, proposed) ==
  /\ run[t] = "running"
  /\ run' = [run EXCEPT ![t] = IF ok THEN "completed" ELSE "failed"]
  /\ Concludes(t, ok, question) /\ Remembers(<<t, attempt[t]>>, ok)
  /\ IF ok THEN Captures(<<t, attempt[t]>>, question, proposed)
     ELSE proposed = Nothing /\ UNCHANGED <<note, noteText, version>>
  /\ UNCHANGED <<generation, nextSeq, turnGen, turnSeq, attempt, heard, scoped, changeVars,
                 screen, itemVars, refining>>

\* propose: the run leaves a plan.  Bound: none after the one that was applied.
Propose(t) ==
  /\ t \in Changing /\ run[t] = "running" /\ change[t] \notin {"applied", "reported"}
  /\ run' = [run EXCEPT ![t] = "proposing"] /\ change' = [change EXCEPT ![t] = "proposed"]
  /\ UNCHANGED <<turnVars, attempt, heard, scoped, lost, noteVars, screen, itemVars, refining>>

\* finish of such a run: it waits for the decision, unless the plan is closed already.
\* It answers nothing yet.
FinishProposing(t) ==
  /\ run[t] = "proposing"
  /\ run' = [run EXCEPT ![t] = IF change[t] = "proposed" THEN "waiting" ELSE "cancelled"]
  /\ Concludes(t, FALSE, FALSE)
  /\ UNCHANGED <<generation, nextSeq, turnGen, turnSeq, attempt, heard, scoped, changeVars,
                 noteVars, screen, itemVars, refining>>

\* recover: the worker or its claim is gone.
LoseTurn(t) ==
  /\ run[t] \in Working
  /\ run' = [run EXCEPT ![t] = "failed"] /\ lost' = lost \cup {t}
  /\ UNCHANGED <<turnVars, attempt, heard, scoped, change, noteVars, screen, itemVars, refining>>

\* _settle_closed_plan after a rejection or an expiry: a request that is not at work
\* is blocked when it has a lost attempt, a completed one included; otherwise one
\* that was to go on is cancelled.
ClosePlan(t) ==
  /\ change[t] = "proposed" /\ change' = [change EXCEPT ![t] = "closed"]
  /\ run' = IF run[t] \in Working THEN run
            ELSE IF t \in lost THEN [run EXCEPT ![t] = "failed"]
            ELSE IF run[t] \in Waits THEN [run EXCEPT ![t] = "cancelled"]
            ELSE run
  /\ UNCHANGED <<turnVars, attempt, heard, scoped, lost, noteVars, screen, itemVars, refining>>

\* The approved plan is claimed, while nothing else runs in its workspace, and
\* applied to the last file.
ApplyPlan(t) ==
  /\ change[t] = "proposed" /\ run[t] \in Waits
  /\ \A u \in Turns : run[u] \notin Working /\ change[u] # "applied"
  /\ change' = [change EXCEPT ![t] = "applied"]
  /\ UNCHANGED <<turnVars, run, attempt, heard, scoped, lost, noteVars, screen, itemVars,
                 refining>>

\* finish of the application: it completes the request that waited for it, and the
\* record it leaves of a completed request has the text of that request.
FinishApply(t, proposed) ==
  LET completes == run[t] \in {"waiting", "completed"} IN
  /\ change[t] = "applied" /\ change' = [change EXCEPT ![t] = "reported"]
  /\ run' = IF completes THEN [run EXCEPT ![t] = "completed"] ELSE run
  /\ Remembers(<<t, 0>>, completes)
  /\ IF completes THEN Captures(<<t, 0>>, FALSE, proposed)
     ELSE proposed = Nothing /\ UNCHANGED <<note, noteText, version>>
  /\ UNCHANGED <<turnVars, attempt, heard, scoped, lost, screen, itemVars, refining>>

\* The worker of the application is gone before its finish: no record is left.  The
\* owner may resolve() the plan, which completes the request or blocks it.
LoseApply(t) ==
  /\ change[t] = "applied" /\ change' = [change EXCEPT ![t] = "reported"]
  /\ \E s \in {run[t], "completed", "failed"} : run' = [run EXCEPT ![t] = s]
  /\ UNCHANGED <<turnVars, attempt, heard, scoped, lost, noteVars, screen, itemVars, refining>>

-----------------------------------------------------------------------------
\* forget_record, or the review "forgotten" of one of its notes: the record, its
\* notes and every candidate of its request lose their text.
Forgets(r) ==
  /\ work' = [work EXCEPT ![r] = "forgotten"]
  /\ excerpt' = excerpt \ {r}
  /\ LET mine == {n \in {r} \X Topics : note[n] # "none"}
         derived == {i \in Items : i[1] = r[1] /\ item[i] # "none"} IN
     /\ note' = [n \in Notes |-> IF n \in mine THEN "forgotten" ELSE note[n]]
     /\ noteText' = [n \in Notes |-> IF n \in mine THEN Blank ELSE noteText[n]]
     /\ version' = [n \in Notes |-> IF n \in mine THEN version[n] + 1 ELSE version[n]]
     /\ item' = [i \in Items |-> IF i \in derived THEN "archived" ELSE item[i]]
     /\ title' = [i \in Items |-> IF i \in derived THEN Blank ELSE title[i]]
  /\ UNCHANGED <<turnVars, taskVars, refining>>

Forget(r) == work[r] = "retained" /\ Forgets(r) /\ UNCHANGED screen

\* A reviewer opens the list; the screen keeps the version it showed.
Look(k, n) == /\ OfScope(n) /\ note[n] \in Active /\ version[n] < MaxReviews
              /\ screen' = [screen EXCEPT ![k] = <<n, version[n]>>]
              /\ UNCHANGED <<turnVars, taskVars, noteVars, itemVars, refining>>

\* Mutant: the other versions of the topic stay selected.
NoOther(n) == {}
\* The other active versions of the topic since the last reset.
Others(n) == {m \in Notes \ {n} : /\ m[2] = n[2] /\ note[m] \in Active
                                  /\ turnGen[m[1][1]] >= generation}

\* review_entry, of the version shown.
Review(k, verdict) ==
  LET n == screen[k][1]
      closed == IF verdict = "approved" THEN Others(n) ELSE {} IN
  /\ OfScope(n) /\ note[n] \in Active /\ version[n] = screen[k][2]
  /\ UNCHANGED screen
  /\ IF verdict = "forgotten" THEN Forgets(n[1])
     ELSE /\ note' = [m \in Notes |-> IF m = n THEN verdict
                                      ELSE IF m \in closed THEN "superseded" ELSE note[m]]
          /\ version' = [m \in Notes |-> IF m = n \/ m \in closed THEN version[m] + 1
                                         ELSE version[m]]
          /\ UNCHANGED <<turnVars, taskVars, work, excerpt, noteText, itemVars, refining>>

-----------------------------------------------------------------------------
\* Mutant: a source is judged when the candidates are listed only.
Known(t) == \E r \in Of(t) : work[r] # "none"
\* _memory_source_state_conn allows a completed request with a standing record of its
\* own, none of whose records was forgotten.
Allowed(t) == /\ Stands(<<t, attempt[t]>>) /\ attempt[t] > 0
              /\ t \notin Refused /\ ~ForgottenSource(t)

\* extract_memory_candidates_from_requests: a candidate for every allowed request
\* that has none under the extracted title; the memory worker goes on to refine
\* what it created.
Extract(refines) ==
  LET due == {t \in Turns : Allowed(t) /\ \A n \in 1..Copies : title[<<t, n>>] # "extracted"}
      slot(t) == {n \in 1..Copies : item[<<t, n>>] = "none"}
      new == {i \in Items : i[1] \in due /\ i[2] \in slot(i[1])
                            /\ \A n \in slot(i[1]) : i[2] <= n} IN
  /\ new # {} /\ (refines => refining = {})
  /\ item' = [i \in Items |-> IF i \in new THEN "pending" ELSE item[i]]
  /\ title' = [i \in Items |-> IF i \in new THEN "extracted" ELSE title[i]]
  /\ refining' = IF refines THEN new ELSE refining
  /\ UNCHANGED <<turnVars, taskVars, noteVars, screen>>

\* refine_memory_with_llm returned: update_memory looks at the source again.  The
\* model failed, or the title is taken, and nothing is written.
Refine(i) ==
  /\ i \in refining /\ refining' = refining \ {i}
  /\ title' \in {title, IF Allowed(i[1]) THEN [title EXCEPT ![i] = "refined"] ELSE title}
  /\ UNCHANGED <<turnVars, taskVars, noteVars, screen, item>>

\* The operator decides a candidate.
Decide(i, verdict) ==
  /\ item[i] \in {"pending", "approved", "rejected"} /\ Allowed(i[1])
  /\ item' = [item EXCEPT ![i] = verdict]
  /\ UNCHANGED <<turnVars, taskVars, noteVars, screen, title, refining>>

Proposals == [Topics -> Texts \cup {Blank}]
\* Without proposals of a model the first line of the request is the topic.
Headlines == {[Nothing EXCEPT ![k] = x] : k \in Topics, x \in Texts \cup {Blank}}

MemoryNext ==
  \/ \E t \in Turns : \/ Bind(t) \/ ClaimTurn(t) \/ ResumeTurn(t) \/ ReadTurns(t)
                      \/ ReadNotes(t) \/ LoseTurn(t) \/ Propose(t) \/ FinishProposing(t)
                      \/ ClosePlan(t) \/ ApplyPlan(t) \/ LoseApply(t)
                      \/ \E ok, question \in BOOLEAN, p \in Proposals :
                           FinishTurn(t, ok, question, p)
                      \/ \E p \in Headlines : FinishApply(t, p)
  \/ \E r \in Records : Forget(r)
  \/ Reset
  \/ \E k \in Reviewers : \/ \E n \in Notes : Look(k, n)
                          \/ \E v \in {"approved", "rejected", "forgotten"} : Review(k, v)
  \/ \E refines \in BOOLEAN : Extract(refines)
  \/ \E i \in Items : \/ Refine(i)
                      \/ \E v \in {"approved", "rejected"} : Decide(i, v)
MemorySpec == MemoryInit /\ [][MemoryNext]_memoryVars

-----------------------------------------------------------------------------
\* The question that waits for an answer is that of the last turn of the live
\* conversation, and its task has answered, unless a plan of a lost attempt was
\* closed after that (bind_conn, complete_conn, reset).
QuestionIsLatest ==
  pending # NoTurn =>
    /\ turnGen[pending] = generation /\ turnSeq[pending] = nextSeq - 1
    /\ pending \in asks
    /\ run[pending] = "completed" \/ (pending \in lost /\ change[pending] # "none")

\* Nothing said before a reset reaches the prompt of a turn accepted after it
\* (the worker_context of the three stores).
ResetIsBoundary == \A t \in Turns : \A u \in heard[t] : turnGen[u] >= turnGen[t]

\* Of a record that was forgotten, and of a request that asked not to be remembered,
\* no record and no note keeps a text; no candidate of a request one of whose records
\* was forgotten does: "cannot resurrect" (forget_record, review_entry, update_memory,
\* capture_conn, also at the end of an application).
ForgottenStaysForgotten ==
  /\ \A r \in Records : work[r] = "forgotten" \/ r[1] \in Refused =>
       /\ r \notin excerpt
       /\ \A k \in Topics : noteText[<<r, k>>] = Blank
  /\ \A t \in Turns : ForgottenSource(t) \/ t \in Refused =>
       \A n \in 1..Copies : title[<<t, n>>] = Blank

\* What docs/security_and_reliability.md says of a forgotten source, of which the code
\* clears one execution: no record of the request keeps its text (complete_conn).
SourceForgotten ==
  \A r, s \in Records : r[1] = s[1] /\ work[r] = "forgotten" => s \notin excerpt

\* Of the versions of a topic at most one is selected (review_entry).
OneSelected ==
  \A k \in Topics : \A r, s \in Records :
    LET selected(x) == note[<<x, k>>] = "approved" /\ turnGen[x[1]] >= generation IN
    selected(r) /\ selected(s) => r = s
=============================================================================

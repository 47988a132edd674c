---------------------------- MODULE RuntimeProofs ----------------------------
(***************************************************************************)
(* Proofs about the command coordinator, for every number of tasks,        *)
(* threads, coordinators, resources, approvals and executions.  They rest  *)
(* on one invariant, which has five parts beside the types: what a thread  *)
(* at each place of its call knows of its execution (Knowing), that no two *)
(* threads start the same execution (Apart), that nothing has happened to  *)
(* executions without a row (Unborn), who spends an approval (Spending),   *)
(* and what a recorded end is evidence of (Recorded).  Most steps only add *)
(* to the evidence (Forward), so a thread goes on knowing what it knew     *)
(* whatever the others do.                                                 *)
(***************************************************************************)
EXTENDS ExecutionRuntime, TLAPS

StartSteps   == {"acquire", "refuse", "record", "consume", "launch", "fail", "session",
                 "run"}
WriterSteps  == {"acquire", "refuse", "record", "consume"}
EndingSteps  == {"marker", "alive", "beat", "cancelling", "kill", "settle", "close"}
BoundSteps   == StartSteps \cup EndingSteps \cup {"look", "missing", "unlock"}

\* What the record of an end is evidence of.
Evidence(s, x) == /\ s = "succeeded" => marker[x] = "succeeded"
                  /\ s \in {"cancelled", "timed_out"} => Over(x)

\* What a thread knows at its place.
KnowsJob(h) ==
  /\ step[h] = "create" => job[h].task \in Tasks
                           /\ (job[h].resource = None <=> job[h].approval = None)
  /\ step[h] \in WriterSteps => job[h].resource # None /\ job[h].approval # None
  /\ step[h] = "launch" /\ job[h].approval # None
       => approval[job[h].approval].status = "consumed"
KnowsRow(h) ==
  /\ step[h] \in BoundSteps => on[h] # 0
  /\ step[h] \in StartSteps => args[on[h]] = job[h]
  /\ step[h] \in WriterSteps \cup {"launch"} => runner[on[h]] = "none"
  /\ step[h] = "session" => runner[on[h]] # "none"
KnowsEnd(h) ==
  /\ step[h] \in EndingSteps => session[on[h]] # "none"
  /\ step[h] = "settle" => found[h] \in Terminal /\ Evidence(found[h], on[h])
  /\ step[h] \in {"close", "unlock"} => exec[on[h]] \in Terminal
  /\ step[h] = "close" => exec[on[h]] = found[h]
Knows(h) == KnowsJob(h) /\ KnowsRow(h) /\ KnowsEnd(h)
Knowing  == \A h \in Threads : Knows(h)

\* A thread of start_command works alone on its execution.
Starts(h) == step[h] \in StartSteps
Apart == \A h, i \in Threads : Starts(h) /\ Starts(i) /\ on[h] = on[i] => h = i

\* Nothing has happened to executions that do not exist.
Unborn == \A x \in Execs : x > created => /\ runner[x] = "none" /\ exec[x] = "none"
                                          /\ session[x] = "none" /\ marker[x] = "none"

\* An approval that a process runs under, or is about to, is consumed, and by that
\* execution alone.
About(x)  == \E h \in Threads : step[h] = "launch" /\ on[h] = x
Spends(x) == args[x].approval # None /\ (runner[x] # "none" \/ About(x))
Spending ==
  /\ \A x \in Execs : Spends(x) => approval[args[x].approval].status = "consumed"
  /\ \A x, y \in Execs : Spends(x) /\ Spends(y) /\ args[x].approval = args[y].approval
                           => x = y

RecordedOf(x) == /\ Evidence(exec[x], x)
                 /\ session[x] # "none" => runner[x] # "none"
                 /\ session[x] \notin {"none", "running"}
                      => exec[x] \in Terminal /\ session[x] = Closing(exec[x])
Recorded == \A x \in Execs : RecordedOf(x)

RuntimeInv == RuntimeTypeOK /\ Knowing /\ Apart /\ Unborn /\ Spending /\ Recorded

-----------------------------------------------------------------------------
\* The shared state only moves forward, for executions that exist.
Forward ==
  /\ created' >= created
  /\ \A x \in Execs : x <= created =>
       /\ args'[x] = args[x]
       /\ exec[x] \in Terminal => exec'[x] = exec[x]
       /\ runner[x] # "none" => runner'[x] # "none"
       /\ Over(x) => Over(x)'
       /\ marker[x] # "none" => marker'[x] = marker[x]
       /\ session[x] # "none" => session'[x] # "none"
  /\ \A a \in Approvals : approval[a].status = "consumed"
                                => approval'[a].status = "consumed"

\* Thread i did nothing.
Same(i) == /\ step'[i] = step[i] /\ goal'[i] = goal[i] /\ job'[i] = job[i]
           /\ on'[i] = on[i] /\ seen'[i] = seen[i] /\ found'[i] = found[i]
           /\ token'[i] = token[i] /\ todo'[i] = todo[i]
\* It did nothing, stopped, or went on with the execution it had.
GoesOn(i) == \/ Same(i)
             \/ step'[i] \in {"idle", "next", "task"}
             \/ /\ Knows(i)'
                /\ Starts(i)' => Starts(i) /\ on'[i] = on[i]
                /\ step'[i] = "launch" => step[i] = "launch"

-----------------------------------------------------------------------------
\* A thread that did nothing knows what it knew, as no process was started for the
\* execution it is about to start.
LEMMA SameKnows ==
  ASSUME RuntimeTypeOK, NEW i \in Threads, Same(i), Knows(i), Forward,
         step[i] \in WriterSteps \cup {"launch"} => runner'[on[i]] = runner[on[i]]
  PROVE  Knows(i)'
<1> USE DEF StartSteps, WriterSteps, EndingSteps, BoundSteps
<1>1. step'[i] = step[i] /\ on'[i] = on[i] /\ job'[i] = job[i] /\ found'[i] = found[i]
  BY DEF Same
<1>2. on[i] \in 0 .. created /\ on[i] \in Nat /\ created \in Nat /\ created <= MaxExecutions
  BY RuntimeAssumption DEF RuntimeTypeOK, ThreadTypeOK, RowTypeOK
<1>3. on[i] # 0 => on[i] \in Execs /\ on[i] <= created
  BY <1>2, RuntimeAssumption DEF Execs
<1>4. KnowsJob(i)'
  <2>1. job[i].approval \in Approvals \cup {None}
    BY DEF RuntimeTypeOK, ThreadTypeOK, Jobs
  <2> QED  BY <1>1, <2>1 DEF Knows, KnowsJob, Forward
<1>5. KnowsRow(i)'
  BY <1>1, <1>3 DEF Knows, KnowsRow, Forward
<1>6. KnowsEnd(i)'
  BY <1>1, <1>3 DEF Knows, KnowsRow, KnowsEnd, Forward, Evidence, Over, Terminal
<1> QED  BY <1>4, <1>5, <1>6 DEF Knows

\* Most steps: the executions are the same, no process is started, what is recorded
\* stays in order, and each thread goes on.
LedgerKept ==
  /\ RowTypeOK' /\ StoreTypeOK' /\ ProcessTypeOK' /\ Forward /\ Unborn' /\ Recorded'
  /\ \A x \in Execs : runner[x] = "none" <=> runner'[x] = "none"
  /\ UNCHANGED args
LEMMA Onward ==
  ASSUME RuntimeInv, LedgerKept, ThreadTypeOK', \A i \in Threads : GoesOn(i)
  PROVE  RuntimeInv'
<1> USE DEF LedgerKept, RuntimeInv
<1>0. RuntimeTypeOK'
  BY DEF RuntimeTypeOK
<1>1. Knowing'
  <2> SUFFICES ASSUME NEW i \in Threads PROVE Knows(i)'
    BY DEF Knowing
  <2>1. CASE Same(i)
    <3>1. on[i] \in 0 .. created /\ created \in Nat /\ created <= MaxExecutions
      BY RuntimeAssumption DEF RuntimeTypeOK, ThreadTypeOK, RowTypeOK
    <3>2. step[i] \in WriterSteps \cup {"launch"}
            => on[i] \in Execs /\ runner[on[i]] = "none"
      BY <3>1, RuntimeAssumption
      DEF Knowing, Knows, KnowsRow, Execs, WriterSteps, StartSteps, BoundSteps
    <3> QED  BY <2>1, <3>2, SameKnows DEF Knowing
  <2>2. CASE step'[i] \in {"idle", "next", "task"}
    BY <2>2 DEF Knows, KnowsJob, KnowsRow, KnowsEnd, StartSteps, WriterSteps,
       EndingSteps, BoundSteps
  <2>3. CASE Knows(i)'
    BY <2>3
  <2> QED  BY <2>1, <2>2, <2>3 DEF GoesOn
<1>2. \A i \in Threads : Starts(i)' => Starts(i) /\ on'[i] = on[i]
  BY DEF GoesOn, Same, Starts, StartSteps
<1>3. \A i \in Threads : step'[i] = "launch" => step[i] = "launch" /\ on'[i] = on[i]
  BY <1>2 DEF GoesOn, Same, Starts, StartSteps
<1>4. Apart'
  BY <1>2 DEF Apart
<1>5. \A x \in Execs : Spends(x)' => Spends(x)
  BY <1>3 DEF Spends, About
<1>6. Spending'
  <2>1. \A x \in Execs : args[x].approval \in Approvals \cup {None}
    BY DEF RuntimeTypeOK, RowTypeOK, Jobs
  <2>2. \A x \in Execs : Spends(x)' => approval'[args'[x].approval].status = "consumed"
    BY <1>5, <2>1 DEF Spending, Spends, Forward
  <2>3. \A x, y \in Execs : Spends(x)' /\ Spends(y)' /\ args'[x].approval = args'[y].approval
                              => x = y
    BY <1>5 DEF Spending
  <2> QED  BY <2>2, <2>3 DEF Spending
<1> QED  BY <1>0, <1>1, <1>4, <1>6

-----------------------------------------------------------------------------
\* How threads move.  One goes to its next place and keeps its locals.
LEMMA ProceedMoves ==
  ASSUME RuntimeTypeOK, NEW h \in Threads, NEW s \in Steps, Proceed(h, s),
         UNCHANGED created
  PROVE  /\ ThreadTypeOK' /\ step'[h] = s
         /\ UNCHANGED <<goal, job, on, seen, found, token, todo>>
         /\ \A i \in Threads \ {h} : Same(i)
BY DEF RuntimeTypeOK, ThreadTypeOK, Proceed, Goto, Same, callVars, localVars

\* Threads that return or are lost in a crash know nothing any more.
LEMMA ReturnMoves ==
  ASSUME RuntimeTypeOK, NEW H, Return(H), UNCHANGED created
  PROVE  ThreadTypeOK' /\ \A i \in Threads : GoesOn(i)
<1>1. /\ step' = Without(step, H, "idle") /\ goal' = Without(goal, H, "none")
      /\ job' = Without(job, H, NoJob) /\ on' = Without(on, H, 0)
      /\ seen' = Without(seen, H, FALSE) /\ found' = Without(found, H, "none")
      /\ token' = Without(token, H, 0) /\ todo' = Without(todo, H, {})
  BY DEF Return
<1>2. NoJob \in Jobs /\ 0 \in 0 .. created
  BY DEF NoJob, Jobs, RuntimeTypeOK, RowTypeOK
<1>3. \A T, f, v : f \in [Threads -> T] /\ v \in T => Without(f, H, v) \in [Threads -> T]
  BY DEF Without
<1>4. ThreadTypeOK'
  <2>1. step' \in [Threads -> Steps]
    BY <1>1, <1>3 DEF RuntimeTypeOK, ThreadTypeOK, Steps
  <2>2. goal' \in [Threads -> {"none", "start", "recover", "timeout", "cancel"}]
    BY <1>1, <1>3 DEF RuntimeTypeOK, ThreadTypeOK
  <2>3. job' \in [Threads -> Jobs]
    BY <1>1, <1>2, <1>3 DEF RuntimeTypeOK, ThreadTypeOK
  <2>4. on' \in [Threads -> 0 .. created]
    BY <1>1, <1>2, <1>3 DEF RuntimeTypeOK, ThreadTypeOK
  <2>5. seen' \in [Threads -> BOOLEAN]
    BY <1>1, <1>3 DEF RuntimeTypeOK, ThreadTypeOK
  <2>6. found' \in [Threads -> Terminal \cup {"none"}]
    BY <1>1, <1>3 DEF RuntimeTypeOK, ThreadTypeOK
  <2>7. token' \in [Threads -> Nat]
    BY <1>1, <1>3 DEF RuntimeTypeOK, ThreadTypeOK
  <2>8. todo' \in [Threads -> SUBSET (1 .. created)]
    BY <1>1, <1>3 DEF RuntimeTypeOK, ThreadTypeOK
  <2> QED  BY <2>1, <2>2, <2>3, <2>4, <2>5, <2>6, <2>7, <2>8 DEF ThreadTypeOK
<1>5. \A i \in Threads : IF i \in H THEN step'[i] = "idle" ELSE Same(i)
  BY <1>1 DEF Without, Same
<1> QED  BY <1>4, <1>5 DEF GoesOn

\* A reconciliation goes on with its list.
LEMMA ObservedMoves ==
  ASSUME RuntimeTypeOK, NEW h \in Threads, Observed(h), UNCHANGED created
  PROVE  ThreadTypeOK' /\ \A i \in Threads : GoesOn(i)
<1>1. ThreadTypeOK'
  BY DEF RuntimeTypeOK, RowTypeOK, ThreadTypeOK, Observed, Goto, Steps
<1>2. step'[h] = "next" /\ \A i \in Threads \ {h} : Same(i)
  BY DEF RuntimeTypeOK, ThreadTypeOK, Observed, Goto, Same
<1> QED  BY <1>1, <1>2 DEF GoesOn

\* The adapter reports an end.
LEMMA FoundMoves ==
  ASSUME RuntimeTypeOK, NEW h \in Threads, NEW s \in Terminal, Found(h, s),
         UNCHANGED created
  PROVE  /\ ThreadTypeOK' /\ step'[h] = "settle" /\ found'[h] = s
         /\ UNCHANGED <<goal, job, on, seen, token, todo>>
         /\ \A i \in Threads \ {h} : Same(i)
BY DEF RuntimeTypeOK, ThreadTypeOK, Found, Goto, Steps, Same, callVars

\* A transition that is not refused.
LEMMA WriteMoves ==
  ASSUME RuntimeTypeOK, NEW x \in Execs, x <= created, NEW s \in Statuses, NEW force,
         May(x, s, force), Write(x, s), held' \in [Execs -> Nat]
  PROVE  /\ RowTypeOK' /\ exec'[x] = s /\ UNCHANGED <<created, args>>
         /\ \A y \in Execs \ {x} : exec'[y] = exec[y]
         /\ exec[x] \in Terminal => exec'[x] = exec[x]
<1>1. /\ exec' = [exec EXCEPT ![x] = s] /\ UNCHANGED <<created, current, args>>
      /\ exec[x] \in Terminal => s = exec[x]
  BY DEF Write, May
<1>2. taskStatus' = taskStatus
      \/ (s # "cancelling" /\ taskStatus' = [taskStatus EXCEPT ![args[x].task] = TaskFor(s)])
  BY DEF Write
<1>3. s # "cancelling" => TaskFor(s) \in {"running", "completed", "failed", "cancelled"}
  BY DEF TaskFor, Statuses, Terminal, Active
<1>4. taskStatus' \in [Tasks -> {"queued", "running", "awaiting_approval", "blocked",
                                 "completed", "failed", "cancelled"}]
  BY <1>2, <1>3 DEF RuntimeTypeOK, RowTypeOK
<1>5. exec' \in [Execs -> Statuses \cup {"none"}]
  BY <1>1 DEF RuntimeTypeOK, RowTypeOK
<1> QED  BY <1>1, <1>4, <1>5 DEF RuntimeTypeOK, RowTypeOK

-----------------------------------------------------------------------------
\* How the ledger and the processes move.  The execution of a thread exists.
LEMMA BoundRow ==
  ASSUME RuntimeInv, NEW h \in Threads, step[h] \in BoundSteps
  PROVE  on[h] \in Execs /\ on[h] <= created /\ created \in Nat
<1>1. on[h] \in 0 .. created /\ created \in 0 .. MaxExecutions
  BY DEF RuntimeInv, RuntimeTypeOK, ThreadTypeOK, RowTypeOK
<1>2. on[h] # 0
  BY DEF RuntimeInv, Knowing, Knows, KnowsRow
<1> QED  BY <1>1, <1>2, RuntimeAssumption DEF Execs

\* Nothing that matters is written.
LEMMA StillKept ==
  ASSUME RuntimeInv, taskStatus' = taskStatus,
         UNCHANGED <<current, rowVars, session, approval, lease, procVars, faults>>
  PROVE  LedgerKept
<1> USE DEF RuntimeInv, rowVars, procVars
<1>1. RowTypeOK' /\ StoreTypeOK' /\ ProcessTypeOK'
  BY DEF RuntimeTypeOK, RowTypeOK, StoreTypeOK, ProcessTypeOK
<1>2. Forward
  BY DEF Forward, Over, RuntimeTypeOK, RowTypeOK
<1>3. Unborn' /\ Recorded'
  BY DEF Unborn, Recorded, RecordedOf, Evidence, Over
<1> QED  BY <1>1, <1>2, <1>3 DEF LedgerKept

\* A transition, with what it takes for an end to be recorded.
LEMMA WriteKept ==
  ASSUME RuntimeInv, NEW x \in Execs, x <= created, NEW s \in Statuses, NEW force,
         May(x, s, force), Write(x, s), Evidence(s, x), held' \in [Execs -> Nat],
         UNCHANGED <<session, approval, lease, procVars, faults>>
  PROVE  LedgerKept /\ exec'[x] = s
<1> USE DEF RuntimeInv, procVars
<1>1. /\ RowTypeOK' /\ exec'[x] = s /\ UNCHANGED <<created, args>>
      /\ \A y \in Execs \ {x} : exec'[y] = exec[y]
      /\ exec[x] \in Terminal => exec'[x] = exec[x]
  BY WriteMoves
<1>2. StoreTypeOK' /\ ProcessTypeOK'
  BY <1>1 DEF RuntimeTypeOK, StoreTypeOK, ProcessTypeOK
<1>3. Forward
  BY <1>1 DEF Forward, Over, RuntimeTypeOK, RowTypeOK
<1>4. Unborn'
  BY <1>1 DEF Unborn, Execs, RuntimeTypeOK, RowTypeOK
<1>5. RecordedOf(x)'
  BY <1>1 DEF Recorded, RecordedOf, Evidence, Over, Terminal
<1>6. Recorded'
  <2> SUFFICES ASSUME NEW y \in Execs, y # x PROVE RecordedOf(y)'
    BY <1>5 DEF Recorded
  <2> QED  BY <1>1 DEF Recorded, RecordedOf, Evidence, Over
<1> QED  BY <1>1, <1>2, <1>3, <1>4, <1>6 DEF LedgerKept

\* The session of an execution that runs, or that is recorded as it ended.
LEMMA SessionKept ==
  ASSUME RuntimeInv, NEW x \in Execs, x <= created, runner[x] # "none",
         NEW s \in {"running", "stopped", "failed", "cancelled"},
         s = "running" \/ (exec[x] \in Terminal /\ s = Closing(exec[x])),
         session' = [session EXCEPT ![x] = s],
         UNCHANGED <<taskVars, rowVars, approval, lease, procVars, faults>>
  PROVE  LedgerKept
<1> USE DEF RuntimeInv, taskVars, rowVars, procVars
<1>1. RowTypeOK' /\ StoreTypeOK' /\ ProcessTypeOK'
  BY DEF RuntimeTypeOK, RowTypeOK, StoreTypeOK, ProcessTypeOK
<1>2. session'[x] = s /\ \A y \in Execs \ {x} : session'[y] = session[y]
  BY DEF RuntimeTypeOK, StoreTypeOK
<1>3. Forward
  BY <1>2 DEF Forward, Over, RuntimeTypeOK, RowTypeOK
<1>4. Unborn'
  BY <1>2 DEF Unborn, Execs, RuntimeTypeOK, RowTypeOK
<1>5. Recorded'
  BY <1>2 DEF Recorded, RecordedOf, Evidence, Over
<1> QED  BY <1>1, <1>3, <1>4, <1>5 DEF LedgerKept

\* Leases and approvals that are not consumed change.
LEMMA GrantKept ==
  ASSUME RuntimeInv, RowTypeOK', StoreTypeOK',
         \A a \in Approvals : approval[a].status = "consumed"
                                => approval'[a].status = "consumed",
         UNCHANGED <<current, rowVars, session, procVars, faults>>
  PROVE  LedgerKept
<1> USE DEF RuntimeInv, rowVars, procVars
<1>1. ProcessTypeOK'
  BY DEF RuntimeTypeOK, ProcessTypeOK
<1>2. Forward
  BY DEF Forward, Over, RuntimeTypeOK, RowTypeOK
<1>3. Unborn' /\ Recorded'
  BY DEF Unborn, Recorded, RecordedOf, Evidence, Over
<1> QED  BY <1>1, <1>2, <1>3 DEF LedgerKept

\* A process writes its marker or ends, and a coordinator forgets its children.
LEMMA ProcessKept ==
  ASSUME RuntimeInv, ProcessTypeOK',
         \A x \in Execs : /\ runner[x] = "none" <=> runner'[x] = "none"
                          /\ Over(x) => Over(x)'
                          /\ marker[x] # "none" => marker'[x] = marker[x]
                          /\ runner[x] = "none" => marker'[x] = marker[x],
         UNCHANGED <<taskVars, rowVars, session, approval, lease>>
  PROVE  LedgerKept
<1> USE DEF RuntimeInv, taskVars, rowVars
<1>1. RowTypeOK' /\ StoreTypeOK'
  BY DEF RuntimeTypeOK, RowTypeOK, StoreTypeOK
<1>2. Forward
  BY DEF Forward, Over, RuntimeTypeOK, RowTypeOK
<1>3. Unborn'
  BY DEF Unborn
<1>4. Recorded'
  BY DEF Recorded, RecordedOf, Evidence, Over
<1> QED  BY <1>1, <1>2, <1>3, <1>4 DEF LedgerKept

-----------------------------------------------------------------------------
\* Steps of start_command.

\* A call starts.
LEMMA StartStep ==
  ASSUME RuntimeInv, NEW h \in Threads, NEW j \in Jobs, Start(h, j)
  PROVE  RuntimeInv'
<1>1. LedgerKept
  BY StillKept DEF Start, taskVars
<1>2. ThreadTypeOK' /\ step'[h] = "create" /\ job'[h] = j
       /\ \A i \in Threads \ {h} : Same(i)
  BY DEF Start, Goto, Same, Steps, rowVars, localVars, RuntimeInv, RuntimeTypeOK,
     RowTypeOK, ThreadTypeOK
<1>3. Knows(h)'
  BY <1>2 DEF Start, Jobs, Knows, KnowsJob, KnowsRow, KnowsEnd, StartSteps, WriterSteps,
     EndingSteps, BoundSteps
<1> QED  BY <1>1, <1>2, <1>3, Onward DEF GoesOn, Starts, StartSteps

\* It asks for the lease of the resource.
LEMMA AcquireStep ==
  ASSUME RuntimeInv, NEW h \in Threads, Acquire(h)
  PROVE  RuntimeInv'
<1> DEFINE r == job[h].resource
<1>0. /\ on[h] \in Execs /\ on[h] <= created /\ created \in Nat /\ step[h] = "acquire"
      /\ created' = created /\ UNCHANGED <<taskVars, rowVars>>
  BY BoundRow DEF Acquire, rowVars, StartSteps, WriterSteps, EndingSteps, BoundSteps
<1>1. r \in Resources
  BY DEF Acquire, Jobs, Knowing, Knows, KnowsJob, KnowsRow, KnowsEnd, StartSteps,
     WriterSteps, EndingSteps, BoundSteps, RuntimeInv, RuntimeTypeOK, RowTypeOK,
     ThreadTypeOK
<1>2. \/ /\ lease' = [lease EXCEPT ![r] = [owner |-> on[h], fence |-> @.fence + 1,
                                        state |-> "live"]]
         /\ token' = [token EXCEPT ![h] = lease[r].fence + 1] /\ Goto(h, "record")
      \/ Goto(h, "refuse") /\ UNCHANGED <<lease, token>>
  BY DEF Acquire
<1>3. lease[r].fence \in Nat
  BY <1>1 DEF RuntimeInv, RuntimeTypeOK, StoreTypeOK
<1>4. StoreTypeOK'
  <2>1. lease' \in [Resources -> [owner : 0 .. created, fence : Nat,
                                 state : {"free", "live", "expired"}]]
    BY <1>0, <1>1, <1>2, <1>3 DEF Execs, RuntimeInv, RuntimeTypeOK, StoreTypeOK
  <2> QED  BY <1>0, <2>1 DEF Acquire, RuntimeInv, RuntimeTypeOK, StoreTypeOK
<1>5. LedgerKept
  <2>1. RowTypeOK'
    BY <1>0 DEF taskVars, rowVars, RuntimeInv, RuntimeTypeOK, RowTypeOK, ThreadTypeOK
  <2> QED  BY <1>0, <1>4, <2>1, GrantKept DEF Acquire, taskVars
<1>6. ThreadTypeOK' /\ step'[h] \in {"record", "refuse"} /\ on'[h] = on[h]
       /\ job'[h] = job[h]
      /\ \A i \in Threads \ {h} : Same(i)
  <2>1. UNCHANGED <<callVars, seen, found, todo>>
    BY DEF Acquire
  <2>2. token' \in [Threads -> Nat] /\ \A i \in Threads \ {h} : token'[i] = token[i]
    BY <1>2, <1>3 DEF RuntimeInv, RuntimeTypeOK, RowTypeOK, ThreadTypeOK
  <2>3. step' \in [Threads -> Steps] /\ step'[h] \in {"record", "refuse"}
        /\ \A i \in Threads \ {h} : step'[i] = step[i]
    BY <1>2 DEF Goto, Steps, RuntimeInv, RuntimeTypeOK, RowTypeOK, ThreadTypeOK
  <2> QED  BY <1>0, <2>1, <2>2, <2>3 DEF Same, callVars, RuntimeInv, RuntimeTypeOK,
              RowTypeOK, ThreadTypeOK
<1>7. Knows(h)'
  BY <1>0, <1>6 DEF Acquire, RuntimeInv, Knowing, procVars, rowVars, Knows, KnowsJob,
     KnowsRow, KnowsEnd, StartSteps, WriterSteps, EndingSteps, BoundSteps
<1> QED  BY <1>0, <1>5, <1>6, <1>7, Onward DEF GoesOn, Starts, StartSteps

\* The lease is held: the attempt is recorded as failed.
LEMMA RefuseStep ==
  ASSUME RuntimeInv, NEW h \in Threads, Refuse(h)
  PROVE  RuntimeInv'
<1>0. on[h] \in Execs /\ on[h] <= created
  BY BoundRow DEF Refuse, StartSteps, WriterSteps, EndingSteps, BoundSteps
<1>1. LedgerKept
  <2>1. CASE May(on[h], "failed", FALSE)
    BY <1>0, <2>1, WriteKept DEF Refuse, Evidence, Over, Statuses, Terminal, Active,
       RuntimeInv, RuntimeTypeOK, RowTypeOK, ThreadTypeOK
  <2>2. CASE ~ May(on[h], "failed", FALSE)
    BY <2>2, StillKept DEF Refuse, Refused, taskVars, rowVars
  <2> QED  BY <2>1, <2>2
<1>2. created' = created
  BY DEF Refuse, Write, Refused
<1> QED  BY <1>1, <1>2, ReturnMoves, Onward DEF Refuse, RuntimeInv

\* The attempt is recorded as running.
LEMMA RunStep ==
  ASSUME RuntimeInv, NEW h \in Threads, Run(h)
  PROVE  RuntimeInv'
<1>0. on[h] \in Execs /\ on[h] <= created
  BY BoundRow DEF Run, StartSteps, WriterSteps, EndingSteps, BoundSteps
<1>1. LedgerKept
  <2>1. CASE May(on[h], "running", FALSE)
    BY <1>0, <2>1, WriteKept DEF Run, Evidence, Over, Statuses, Terminal, Active, RuntimeInv,
       RuntimeTypeOK, RowTypeOK, ThreadTypeOK
  <2>2. CASE ~ May(on[h], "running", FALSE)
    BY <2>2, StillKept DEF Run, Refused, taskVars, rowVars
  <2> QED  BY <2>1, <2>2
<1>2. created' = created
  BY DEF Run, Write, Refused
<1> QED  BY <1>1, <1>2, ReturnMoves, Onward DEF Run, RuntimeInv

\* The lease is written into the row.
LEMMA RecordLeaseStep ==
  ASSUME RuntimeInv, NEW h \in Threads, RecordLease(h)
  PROVE  RuntimeInv'
<1>0. on[h] \in Execs /\ on[h] <= created
  BY BoundRow DEF RecordLease, StartSteps, WriterSteps, EndingSteps, BoundSteps
<1>1. CASE May(on[h], "starting", FALSE) /\ Write(on[h], "starting")
           /\ held' = [held EXCEPT ![on[h]] = token[h]] /\ Proceed(h, "consume")
  <2>1. held' \in [Execs -> Nat] /\ created' = created
    BY <1>1 DEF Write, RuntimeInv, RuntimeTypeOK, RowTypeOK, ThreadTypeOK
  <2>2. LedgerKept
    BY <1>0, <1>1, <2>1, WriteKept DEF RecordLease, Evidence, Over, Statuses, Active
  <2>3. /\ ThreadTypeOK' /\ step'[h] = "consume" /\ UNCHANGED <<job, on>>
        /\ \A i \in Threads \ {h} : Same(i)
    BY <1>1, <2>1, ProceedMoves DEF RuntimeInv, Steps
  <2>4. args' = args /\ runner' = runner
    BY <1>1 DEF Write, RecordLease, procVars
  <2>5. Knows(h)'
    BY <2>3, <2>4 DEF RecordLease, RuntimeInv, Knowing, Knows, KnowsJob, KnowsRow,
       KnowsEnd, StartSteps, WriterSteps, EndingSteps, BoundSteps
  <2> QED  BY <2>2, <2>3, <2>5, Onward DEF GoesOn, RecordLease, Starts, StartSteps
<1>2. CASE Refused /\ Return({h}) /\ UNCHANGED held
  <2>1. LedgerKept
    BY <1>2, StillKept DEF RecordLease, Refused, taskVars, rowVars
  <2> QED  BY <1>2, <2>1, ReturnMoves, Onward DEF Refused, RuntimeInv
<1> QED  BY <1>1, <1>2 DEF RecordLease

\* The start failed: the attempt is recorded as failed.
LEMMA FailStep ==
  ASSUME RuntimeInv, NEW h \in Threads, Fail(h)
  PROVE  RuntimeInv'
<1>0. on[h] \in Execs /\ on[h] <= created
  BY BoundRow DEF Fail, StartSteps, WriterSteps, EndingSteps, BoundSteps
<1>1. CASE May(on[h], "failed", FALSE) /\ Write(on[h], "failed") /\ Goto(h, "unlock")
           /\ token' = [token EXCEPT ![h] = held[on[h]]]
           /\ UNCHANGED <<callVars, seen, found, todo>>
  <2>1. LedgerKept /\ exec'[on[h]] = "failed" /\ created' = created
    BY <1>0, <1>1, WriteKept DEF Fail, Write, Evidence, Over, Statuses, Terminal, RuntimeInv,
       RuntimeTypeOK, RowTypeOK, ThreadTypeOK
  <2>2. held[on[h]] \in Nat
    BY <1>0 DEF RuntimeInv, RuntimeTypeOK, RowTypeOK, ThreadTypeOK
  <2>3. ThreadTypeOK' /\ step'[h] = "unlock" /\ on'[h] = on[h]
         /\ \A i \in Threads \ {h} : Same(i)
    BY <1>1, <2>1, <2>2 DEF Goto, Same, Steps, callVars, RuntimeInv, RuntimeTypeOK,
       RowTypeOK, ThreadTypeOK
  <2>4. Knows(h)'
    BY <1>0, <2>1, <2>3 DEF Execs, Terminal, Knows, KnowsJob, KnowsRow, KnowsEnd,
       StartSteps, WriterSteps, EndingSteps, BoundSteps
  <2> QED  BY <2>1, <2>3, <2>4, Onward DEF GoesOn, Starts, StartSteps
<1>2. CASE Refused /\ Return({h})
  <2>1. LedgerKept
    BY <1>2, StillKept DEF Fail, Refused, taskVars, rowVars
  <2> QED  BY <1>2, <2>1, ReturnMoves, Onward DEF Refused, RuntimeInv
<1> QED  BY <1>1, <1>2 DEF Fail

\* The session of the started process is recorded.
LEMMA SessionStep ==
  ASSUME RuntimeInv, NEW h \in Threads, Session(h)
  PROVE  RuntimeInv'
<1>0. on[h] \in Execs /\ on[h] <= created /\ runner[on[h]] # "none"
  BY BoundRow DEF Session, RuntimeInv, Knowing, Knows, KnowsJob, KnowsRow, KnowsEnd,
     StartSteps, WriterSteps, EndingSteps, BoundSteps
<1>1. LedgerKept
  BY <1>0, SessionKept DEF Session
<1>2. ThreadTypeOK' /\ step'[h] = "run" /\ UNCHANGED <<job, on>>
       /\ \A i \in Threads \ {h} : Same(i)
  BY ProceedMoves DEF Session, rowVars, RuntimeInv, Steps
<1>3. Knows(h)'
  BY <1>2 DEF Session, rowVars, RuntimeInv, Knowing, Knows, KnowsJob, KnowsRow, KnowsEnd,
     StartSteps, WriterSteps, EndingSteps, BoundSteps
<1> QED  BY <1>1, <1>2, <1>3, Onward DEF GoesOn, Session, Starts, StartSteps

-----------------------------------------------------------------------------
\* The three steps that make an execution, spend its approval and start its process.
LEMMA SpendingKept ==
  ASSUME RuntimeInv, Forward,
         \A x \in Execs : Spends(x)' => Spends(x) /\ args'[x] = args[x]
  PROVE  Spending'
<1>1. \A x \in Execs : args[x].approval \in Approvals \cup {None}
  BY DEF RuntimeInv, RuntimeTypeOK, RowTypeOK, Jobs
<1>2. \A x \in Execs : Spends(x)' => approval'[args'[x].approval].status = "consumed"
  BY <1>1 DEF RuntimeInv, Spending, Spends, Forward
<1>3. \A x, y \in Execs : Spends(x)' /\ Spends(y)' /\ args'[x].approval = args'[y].approval
                            => x = y
  BY DEF RuntimeInv, Spending
<1> QED  BY <1>2, <1>3 DEF Spending

\* The row of an execution is created.
LEMMA CreateStep ==
  ASSUME RuntimeInv, NEW h \in Threads, Create(h)
  PROVE  RuntimeInv'
<1>0. PICK n \in Execs : n = created + 1
  BY RuntimeAssumption DEF Create, Execs, RuntimeInv, RuntimeTypeOK, RowTypeOK
<1>1. created \in Nat /\ n = created + 1 /\ n > created /\ created' = n /\ n \in Nat
  BY <1>0, RuntimeAssumption DEF Create, Execs, RuntimeInv, RuntimeTypeOK, RowTypeOK
<1>2. /\ exec' = [exec EXCEPT ![n] = "starting"] /\ args' = [args EXCEPT ![n] = job[h]]
      /\ current' = [current EXCEPT ![job[h].task] = n] /\ on' = [on EXCEPT ![h] = n]
      /\ step' = [step EXCEPT ![h] = IF job[h].resource = None THEN "launch" ELSE "acquire"]
      /\ UNCHANGED <<taskStatus, held, session, approval, lease, runner, marker, child, goal,
                     job, seen, found, token, todo, faults>>
  BY <1>1 DEF Create, Goto, procVars, localVars
<1>3. RuntimeTypeOK'
  <2>1. job[h] \in Jobs
    BY DEF RuntimeInv, RuntimeTypeOK, ThreadTypeOK
  <2>2. 0 .. created \subseteq 0 .. n /\ 1 .. created \subseteq 1 .. n /\ n \in 0 .. n
        /\ n \in 0 .. MaxExecutions
    BY <1>1, RuntimeAssumption DEF Execs
  <2>3. RowTypeOK'
    BY <1>1, <1>2, <2>1, <2>2 DEF RuntimeInv, RuntimeTypeOK, RowTypeOK, Statuses, Active
  <2>4. StoreTypeOK'
    <3>1. lease' \in [Resources -> [owner : 0 .. n, fence : Nat,
                                    state : {"free", "live", "expired"}]]
      BY <1>2, <2>2 DEF RuntimeInv, RuntimeTypeOK, StoreTypeOK
    <3> QED  BY <1>1, <1>2, <3>1 DEF RuntimeInv, RuntimeTypeOK, StoreTypeOK
  <2>5. ProcessTypeOK'
    BY <1>2 DEF RuntimeInv, RuntimeTypeOK, ProcessTypeOK
  <2>6. ThreadTypeOK'
    <3>1. on' \in [Threads -> 0 .. n] /\ todo' \in [Threads -> SUBSET (1 .. n)]
      BY <1>2, <2>2 DEF RuntimeInv, RuntimeTypeOK, ThreadTypeOK
    <3> QED  BY <1>1, <1>2, <3>1 DEF RuntimeInv, RuntimeTypeOK, ThreadTypeOK, Steps
  <2> QED  BY <2>3, <2>4, <2>5, <2>6 DEF RuntimeTypeOK
<1>4. /\ runner[n] = "none" /\ exec[n] = "none" /\ session[n] = "none" /\ marker[n] = "none"
      /\ args'[n] = job[h] /\ exec'[n] = "starting"
      /\ \A x \in Execs : x # n => args'[x] = args[x] /\ exec'[x] = exec[x]
  BY <1>1, <1>2 DEF RuntimeInv, Unborn, RuntimeTypeOK, RowTypeOK
<1>5. Forward
  BY <1>1, <1>2, <1>4 DEF Forward, Over, Execs
<1>6. \A i \in Threads \ {h} : Same(i)
  BY <1>2 DEF Same, RuntimeInv, RuntimeTypeOK, ThreadTypeOK
<1>7. /\ on'[h] = n /\ job'[h] = job[h] /\ n # 0
      /\ step'[h] = IF job[h].resource = None THEN "launch" ELSE "acquire"
  BY <1>1, <1>2 DEF RuntimeInv, RuntimeTypeOK, ThreadTypeOK
<1>8. job[h].resource = None <=> job[h].approval = None
  BY DEF Create, RuntimeInv, Knowing, Knows, KnowsJob
<1>9. Knowing'
  <2>1. Knows(h)'
    BY <1>2, <1>4, <1>7, <1>8 DEF Knows, KnowsJob, KnowsRow, KnowsEnd, StartSteps,
       WriterSteps, EndingSteps, BoundSteps
  <2>2. \A i \in Threads \ {h} : Knows(i)'
    BY <1>2, <1>5, <1>6, SameKnows DEF RuntimeInv, Knowing
  <2> QED  BY <2>1, <2>2 DEF Knowing
<1>10. \A i \in Threads \ {h} : on'[i] = on[i] /\ on[i] # n /\ step'[i] = step[i]
  BY <1>1, <1>6 DEF Same, RuntimeInv, RuntimeTypeOK, ThreadTypeOK
<1>11. Apart'
  BY <1>7, <1>10 DEF RuntimeInv, Apart, Starts
<1>12. Unborn'
  BY <1>1, <1>2, <1>4 DEF RuntimeInv, Unborn, Execs
<1>13. Spending'
  <2>1. ~ Spends(n)'
    <3>1. About(n)' => job[h].approval = None
      BY <1>7, <1>8, <1>10 DEF About
    <3> QED  BY <1>2, <1>4, <3>1 DEF Spends
  <2>2. \A x \in Execs : x # n => (Spends(x)' => Spends(x))
    <3>1. \A x \in Execs : x # n => (About(x)' => About(x))
      BY <1>7, <1>10 DEF About
    <3> QED  BY <1>2, <1>4, <3>1 DEF Spends
  <2> QED  BY <1>1, <1>4, <1>5, <2>1, <2>2, SpendingKept
<1>14. Recorded'
  BY <1>2, <1>4 DEF RuntimeInv, Recorded, RecordedOf, Evidence, Over
<1> QED  BY <1>3, <1>9, <1>11, <1>12, <1>13, <1>14 DEF RuntimeInv

\* The approval is looked at again, and marked.
LEMMA ConsumeStep ==
  ASSUME RuntimeInv, NEW h \in Threads, Consume(h)
  PROVE  RuntimeInv'
<1> DEFINE a == job[h].approval
           x == on[h]
<1>1. /\ step[h] = "consume" /\ a # None /\ a \in Approvals /\ x \in Execs /\ x <= created
      /\ args[x] = job[h] /\ runner[x] = "none" /\ x # 0
  <2>1. step[h] = "consume" /\ x \in Execs /\ x <= created
    BY BoundRow DEF Consume, StartSteps, BoundSteps
  <2>2. a # None /\ args[x] = job[h] /\ runner[x] = "none" /\ x # 0
    BY <2>1 DEF RuntimeInv, Knowing, Knows, KnowsJob, KnowsRow, StartSteps, WriterSteps,
       BoundSteps
  <2>3. a \in Approvals
    BY <2>2 DEF RuntimeInv, RuntimeTypeOK, ThreadTypeOK, Jobs
  <2> QED  BY <2>1, <2>2, <2>3
<1>2. UNCHANGED <<taskVars, rowVars, session, lease, procVars, faults>>
  BY DEF Consume
<1>3. CASE /\ Approved(a, job[h].task, job[h].resource)
           /\ approval' = Spent(a) /\ Proceed(h, "launch")
  <2>1. /\ approval[a].status = "approved" /\ approval'[a].status = "consumed"
        /\ \A b \in Approvals \ {a} : approval'[b] = approval[b]
    BY <1>1, <1>3 DEF Approved, Spent, RuntimeInv, RuntimeTypeOK, StoreTypeOK
  <2>2. RowTypeOK' /\ StoreTypeOK'
    <3>1. RowTypeOK'
      BY <1>2 DEF taskVars, rowVars, RuntimeInv, RuntimeTypeOK, RowTypeOK
    <3>2. approval' = [approval EXCEPT ![a].status = "consumed"]
      BY <1>3 DEF Spent
    <3>3. [approval[a] EXCEPT !.status = "consumed"] \in
            [status : {"none", "pending", "approved", "rejected", "consumed", "expired"},
             task : Tasks \cup {None}, resource : Resources \cup {None}, fresh : BOOLEAN]
      BY <1>1 DEF RuntimeInv, RuntimeTypeOK, StoreTypeOK
    <3>4. StoreTypeOK'
      BY <1>2, <3>2, <3>3 DEF rowVars, RuntimeInv, RuntimeTypeOK, StoreTypeOK
    <3> QED  BY <3>1, <3>4
  <2>3. LedgerKept
    BY <1>2, <2>1, <2>2, GrantKept DEF taskVars
  <2>4. /\ ThreadTypeOK' /\ step'[h] = "launch" /\ UNCHANGED <<job, on>>
        /\ \A i \in Threads \ {h} : Same(i)
    BY <1>2, <1>3, ProceedMoves DEF Steps, RuntimeInv, rowVars
  <2>5. Knowing'
    <3>1. Knows(h)'
      BY <1>1, <1>2, <2>1, <2>4 DEF Knows, KnowsJob, KnowsRow, KnowsEnd, StartSteps,
         WriterSteps, EndingSteps, BoundSteps, rowVars, procVars
    <3>2. \A i \in Threads \ {h} : Knows(i)'
      BY <1>2, <2>3, <2>4, SameKnows DEF RuntimeInv, Knowing, LedgerKept, procVars
    <3> QED  BY <3>1, <3>2 DEF Knowing
  <2>6. Apart'
    BY <1>1, <2>4 DEF RuntimeInv, Apart, Starts, Same, StartSteps
  <2>7. \A y \in Execs : Spends(y)' => Spends(y) \/ y = x
    BY <1>2, <2>4 DEF Spends, About, Same, rowVars, procVars
  <2>8. \A y \in Execs : Spends(y) => args[y].approval # a
    BY <2>1 DEF RuntimeInv, Spending
  <2>9. Spending'
    <3>1. args' = args /\ \A y \in Execs : args[y].approval \in Approvals \cup {None}
      BY <1>2 DEF rowVars, RuntimeInv, RuntimeTypeOK, RowTypeOK, Jobs
    <3>2. \A y \in Execs : Spends(y)' => approval'[args'[y].approval].status = "consumed"
      <4> SUFFICES ASSUME NEW y \in Execs, Spends(y)'
                   PROVE  approval'[args[y].approval].status = "consumed"
        BY <3>1
      <4>1. CASE y = x
        BY <1>1, <2>1, <4>1
      <4>2. CASE Spends(y)
        BY <2>1, <2>8, <3>1, <4>2 DEF RuntimeInv, Spending, Spends
      <4> QED  BY <2>7, <4>1, <4>2
    <3>3. \A y, z \in Execs : Spends(y)' /\ Spends(z)' /\ args[y].approval = args[z].approval
                                => y = z
      BY <1>1, <2>7, <2>8 DEF RuntimeInv, Spending
    <3> QED  BY <3>1, <3>2, <3>3 DEF Spending
  <2> QED  BY <2>2, <2>3, <2>4, <2>5, <2>6, <2>9 DEF RuntimeInv, RuntimeTypeOK, LedgerKept
<1>4. CASE Proceed(h, "fail") /\ approval' = approval
  <2>1. LedgerKept
    BY <1>2, <1>4, StillKept DEF taskVars
  <2>2. /\ ThreadTypeOK' /\ step'[h] = "fail" /\ UNCHANGED <<job, on>>
        /\ \A i \in Threads \ {h} : Same(i)
    BY <1>2, <1>4, ProceedMoves DEF Steps, RuntimeInv, rowVars
  <2>3. Knows(h)'
    BY <1>1, <1>2, <2>2 DEF Knows, KnowsJob, KnowsRow, KnowsEnd, StartSteps,
       WriterSteps, EndingSteps, BoundSteps, rowVars
  <2> QED  BY <1>1, <2>1, <2>2, <2>3, Onward DEF GoesOn, Starts, StartSteps
<1> QED  BY <1>3, <1>4 DEF Consume

\* The process is started, or not.
LEMMA LaunchStep ==
  ASSUME RuntimeInv, NEW h \in Threads, Launch(h)
  PROVE  RuntimeInv'
<1>0. PICK x \in Execs : x = on[h]
  BY BoundRow DEF Launch, StartSteps, BoundSteps
<1>1. /\ step[h] = "launch" /\ x = on[h] /\ x <= created /\ x # 0
      /\ args[x] = job[h] /\ runner[x] = "none"
  <2>1. step[h] = "launch" /\ x = on[h] /\ x <= created
    BY <1>0, BoundRow DEF Launch, StartSteps, BoundSteps
  <2> QED  BY <2>1 DEF RuntimeInv, Knowing, Knows, KnowsRow, StartSteps, BoundSteps
<1>2. UNCHANGED <<taskVars, rowVars, session, approval, lease>>
  BY DEF Launch
<1>3. ASSUME NEW s \in {"session", "fail"}, Launched(h), Proceed(h, s),
             faults' \in 0 .. MaxFaults
      PROVE  RuntimeInv'
  <2>1. /\ runner'[x] = "alive" /\ marker' = marker
        /\ \A y \in Execs \ {x} : runner'[y] = runner[y]
    BY <1>1, <1>3 DEF Launched, RuntimeInv, RuntimeTypeOK, ProcessTypeOK
  <2>2. RowTypeOK' /\ StoreTypeOK'
    BY <1>2 DEF taskVars, rowVars, RuntimeInv, RuntimeTypeOK, RowTypeOK, StoreTypeOK
  <2>3. ProcessTypeOK'
    <3>1. Home[h] \in Coordinators
      BY RuntimeAssumption
    <3> QED  BY <1>3, <3>1 DEF Launched, RuntimeInv, RuntimeTypeOK, ProcessTypeOK
  <2>4. Forward
    BY <1>1, <1>2, <2>1 DEF Forward, Over, rowVars, RuntimeInv, RuntimeTypeOK, RowTypeOK
  <2>5. /\ ThreadTypeOK' /\ step'[h] = s /\ UNCHANGED <<job, on>>
        /\ \A i \in Threads \ {h} : Same(i)
    BY <1>2, <1>3, ProceedMoves DEF Steps, RuntimeInv, rowVars
  <2>6. Knowing'
    <3>1. Knows(h)'
      BY <1>1, <1>2, <2>1, <2>5 DEF Knows, KnowsJob, KnowsRow, KnowsEnd, StartSteps,
         WriterSteps, EndingSteps, BoundSteps, rowVars
    <3>2. ASSUME NEW i \in Threads \ {h} PROVE Knows(i)'
      <4>1. step[i] \in WriterSteps \cup {"launch"} => on[i] # x /\ on[i] \in Execs
        BY <1>1, BoundRow DEF RuntimeInv, Apart, Starts, StartSteps, WriterSteps,
           BoundSteps
      <4>2. step[i] \in WriterSteps \cup {"launch"} => runner'[on[i]] = runner[on[i]]
        BY <2>1, <4>1
      <4> QED  BY <2>4, <2>5, <4>2, SameKnows DEF RuntimeInv, Knowing
    <3> QED  BY <3>1, <3>2 DEF Knowing
  <2>7. Apart'
    BY <1>1, <2>5 DEF RuntimeInv, Apart, Starts, Same, StartSteps
  <2>8. Unborn'
    BY <1>1, <1>2, <2>1 DEF RuntimeInv, Unborn, rowVars, RuntimeTypeOK, RowTypeOK, Execs
  <2>9. Spending'
    <3>0. args' = args /\ About(x)
      BY <1>1, <1>2 DEF About, rowVars
    <3>1. Spends(x)' => Spends(x)
      BY <3>0 DEF Spends
    <3>2. \A y \in Execs \ {x} : About(y)' => About(y)
      BY <2>5 DEF About, Same
    <3>3. \A y \in Execs \ {x} : Spends(y)' => Spends(y)
      BY <2>1, <3>0, <3>2 DEF Spends
    <3> QED  BY <2>4, <3>0, <3>1, <3>3, SpendingKept
  <2>10. Recorded'
    <3>0. exec' = exec /\ session' = session /\ \A y \in Execs : RecordedOf(y)
      BY <1>2 DEF RuntimeInv, Recorded, rowVars
    <3>1. RecordedOf(x)'
      BY <1>1, <2>1, <3>0 DEF RecordedOf, Evidence, Over
    <3>2. \A y \in Execs \ {x} : RecordedOf(y)'
      BY <2>1, <3>0 DEF RecordedOf, Evidence, Over
    <3> QED  BY <3>1, <3>2 DEF Recorded
  <2> QED  BY <2>2, <2>3, <2>5, <2>6, <2>7, <2>8, <2>9, <2>10 DEF RuntimeInv, RuntimeTypeOK
<1>4. CASE Proceed(h, "fail") /\ UNCHANGED <<procVars, faults>>
  <2>1. LedgerKept
    BY <1>2, <1>4, StillKept DEF taskVars
  <2>2. /\ ThreadTypeOK' /\ step'[h] = "fail" /\ UNCHANGED <<job, on>>
        /\ \A i \in Threads \ {h} : Same(i)
    BY <1>2, <1>4, ProceedMoves DEF Steps, RuntimeInv, rowVars
  <2>3. Knows(h)'
    BY <1>1, <1>2, <2>2 DEF Knows, KnowsJob, KnowsRow, KnowsEnd, StartSteps,
       WriterSteps, EndingSteps, BoundSteps, rowVars
  <2> QED  BY <1>1, <2>1, <2>2, <2>3, Onward DEF GoesOn, Starts, StartSteps
<1>5. /\ faults \in 0 .. MaxFaults
      /\ faults < MaxFaults => faults + 1 \in 0 .. MaxFaults
  BY RuntimeAssumption DEF RuntimeInv, RuntimeTypeOK, ProcessTypeOK
<1> QED  BY <1>3, <1>4, <1>5 DEF Launch

-----------------------------------------------------------------------------
\* Steps of recover_active and observe.

\* A reconciliation lists the active executions.
LEMMA RecoverStep ==
  ASSUME RuntimeInv, NEW h \in Threads, Recover(h)
  PROVE  RuntimeInv'
<1>1. LedgerKept
  BY StillKept DEF Recover, taskVars
<1>2. ThreadTypeOK' /\ step'[h] = "next" /\ \A i \in Threads \ {h} : Same(i)
  BY DEF Recover, Goto, Same, Steps, rowVars, RuntimeInv, RuntimeTypeOK, RowTypeOK,
     ThreadTypeOK
<1> QED  BY <1>1, <1>2, Onward DEF GoesOn

\* It takes the next of them.
LEMMA ObserveStep ==
  ASSUME RuntimeInv, NEW h \in Threads, NEW x \in Execs, Observe(h, x)
  PROVE  RuntimeInv'
<1>1. LedgerKept
  BY StillKept DEF Observe, taskVars
<1>2. x \in 1 .. created /\ x \in 0 .. created /\ x # 0 /\ created' = created
  BY DEF Observe, rowVars, RuntimeInv, RuntimeTypeOK, RowTypeOK, ThreadTypeOK
<1>3. ThreadTypeOK' /\ step'[h] = "look" /\ on'[h] = x /\ \A i \in Threads \ {h} : Same(i)
  BY <1>2 DEF Observe, Goto, Same, Steps, RuntimeInv, RuntimeTypeOK, RowTypeOK, ThreadTypeOK
<1>4. Knows(h)'
  BY <1>2, <1>3 DEF Knows, KnowsJob, KnowsRow, KnowsEnd, StartSteps, WriterSteps,
     EndingSteps, BoundSteps
<1> QED  BY <1>1, <1>3, <1>4, Onward DEF GoesOn, Starts, StartSteps

\* It is through.
LEMMA RecoveredStep ==
  ASSUME RuntimeInv, NEW h \in Threads, Recovered(h)
  PROVE  RuntimeInv'
<1>1. LedgerKept
  BY StillKept DEF Recovered, taskVars
<1>2. created' = created
  BY DEF Recovered, rowVars
<1> QED  BY <1>1, <1>2, ReturnMoves, Onward DEF Recovered, RuntimeInv

\* The session of the execution is looked up.
LEMMA LookStep ==
  ASSUME RuntimeInv, NEW h \in Threads, Look(h)
  PROVE  RuntimeInv'
<1>0. step[h] = "look" /\ on[h] # 0 /\ created' = created /\ session' = session
  BY DEF Look, rowVars, RuntimeInv, Knowing, Knows, KnowsJob, KnowsRow, KnowsEnd,
     StartSteps, WriterSteps, EndingSteps, BoundSteps
<1>1. LedgerKept
  BY StillKept DEF Look, taskVars
<1>2. CASE Observed(h)
  BY <1>0, <1>1, <1>2, ObservedMoves, Onward DEF RuntimeInv
<1>3. ASSUME NEW s \in {"missing", "cancelling", "marker"}, Proceed(h, s),
             s # "missing" => session[on[h]] # "none"
      PROVE  RuntimeInv'
  <2>1. ThreadTypeOK' /\ step'[h] = s /\ on'[h] = on[h] /\ \A i \in Threads \ {h} : Same(i)
    BY <1>0, <1>3, ProceedMoves DEF RuntimeInv, Steps
  <2>2. Knows(h)'
    BY <1>0, <1>3, <2>1 DEF Knows, KnowsJob, KnowsRow, KnowsEnd, StartSteps, WriterSteps,
       EndingSteps, BoundSteps
  <2> QED  BY <1>1, <2>1, <2>2, Onward DEF GoesOn, Starts, StartSteps
<1>4. CASE /\ session[on[h]] # "none" /\ goal' = [goal EXCEPT ![h] = "timeout"]
           /\ Goto(h, "kill") /\ UNCHANGED <<job, on, localVars>>
  <2>1. ThreadTypeOK' /\ step'[h] = "kill" /\ on'[h] = on[h]
         /\ \A i \in Threads \ {h} : Same(i)
    BY <1>0, <1>4 DEF Goto, Same, Steps, localVars, RuntimeInv, RuntimeTypeOK, RowTypeOK,
       ThreadTypeOK
  <2>2. Knows(h)'
    BY <1>0, <1>4, <2>1 DEF Knows, KnowsJob, KnowsRow, KnowsEnd, StartSteps, WriterSteps,
       EndingSteps, BoundSteps
  <2> QED  BY <1>1, <2>1, <2>2, Onward DEF GoesOn, Starts, StartSteps
<1> QED  BY <1>2, <1>3, <1>4 DEF Look

\* An execution without a session is recorded as lost.
LEMMA MissingStep ==
  ASSUME RuntimeInv, NEW h \in Threads, Missing(h)
  PROVE  RuntimeInv'
<1>0. on[h] \in Execs /\ on[h] <= created
  BY BoundRow DEF Missing, StartSteps, WriterSteps, EndingSteps, BoundSteps
<1>1. CASE May(on[h], "lost", TRUE) /\ Write(on[h], "lost")
  <2>1. LedgerKept /\ created' = created
    BY <1>0, <1>1, WriteKept DEF Missing, Write, Evidence, Over, Statuses, Terminal,
       RuntimeInv, RuntimeTypeOK, RowTypeOK, ThreadTypeOK
  <2>2. CASE Proceed(h, "task")
    BY <2>1, <2>2, ProceedMoves, Onward DEF GoesOn, RuntimeInv, Steps
  <2>3. CASE Observed(h)
    BY <2>1, <2>3, ObservedMoves, Onward DEF RuntimeInv
  <2>4. CASE Return({h})
    BY <2>1, <2>4, ReturnMoves, Onward DEF RuntimeInv
  <2> QED  BY <2>2, <2>3, <2>4 DEF Missing
<1>2. CASE Refused /\ Return({h})
  <2>1. LedgerKept
    BY <1>2, StillKept DEF Missing, Refused, taskVars, rowVars
  <2> QED  BY <1>2, <2>1, ReturnMoves, Onward DEF Refused, RuntimeInv
<1> QED  BY <1>1, <1>2 DEF Missing

\* The marker is read.
LEMMA ReadMarkerStep ==
  ASSUME RuntimeInv, NEW h \in Threads, ReadMarker(h)
  PROVE  RuntimeInv'
<1>0. /\ on[h] \in Execs /\ on[h] # 0 /\ session[on[h]] # "none" /\ step[h] = "marker"
      /\ created' = created /\ session' = session /\ marker' = marker /\ runner' = runner
      /\ exec' = exec
  BY BoundRow DEF ReadMarker, RuntimeInv, Knowing, rowVars, procVars, Knows, KnowsJob,
     KnowsRow, KnowsEnd, StartSteps, WriterSteps, EndingSteps, BoundSteps
<1>1. LedgerKept
  BY StillKept DEF ReadMarker, taskVars
<1>2. CASE Proceed(h, "alive")
  <2>1. ThreadTypeOK' /\ step'[h] = "alive" /\ on'[h] = on[h]
         /\ \A i \in Threads \ {h} : Same(i)
    BY <1>0, <1>2, ProceedMoves DEF RuntimeInv, Steps
  <2>2. Knows(h)'
    BY <1>0, <2>1 DEF Knows, KnowsJob, KnowsRow, KnowsEnd, StartSteps, WriterSteps,
       EndingSteps, BoundSteps
  <2> QED  BY <1>1, <2>1, <2>2, Onward DEF GoesOn, Starts, StartSteps
<1>3. CASE marker[on[h]] # "none" /\ Found(h, marker[on[h]])
  <2>0. marker[on[h]] \in {"succeeded", "failed"}
    BY <1>0, <1>3 DEF RuntimeInv, RuntimeTypeOK, ProcessTypeOK
  <2>1. /\ ThreadTypeOK' /\ step'[h] = "settle" /\ on'[h] = on[h]
        /\ found'[h] = marker[on[h]]
        /\ \A i \in Threads \ {h} : Same(i)
    BY <1>0, <1>3, <2>0, FoundMoves DEF RuntimeInv, Terminal
  <2>2. Knows(h)'
    BY <1>0, <2>0, <2>1 DEF Evidence, Over, Terminal, Knows, KnowsJob, KnowsRow, KnowsEnd,
       StartSteps, WriterSteps, EndingSteps, BoundSteps
  <2> QED  BY <1>1, <2>1, <2>2, Onward DEF GoesOn, Starts, StartSteps
<1> QED  BY <1>2, <1>3 DEF ReadMarker

\* The process is looked for.
LEMMA AliveStep ==
  ASSUME RuntimeInv, NEW h \in Threads, Alive(h)
  PROVE  RuntimeInv'
<1>0. /\ on[h] \in Execs /\ on[h] # 0 /\ session[on[h]] # "none" /\ step[h] = "alive"
      /\ created' = created /\ session' = session /\ marker' = marker /\ runner' = runner
      /\ exec' = exec
  BY BoundRow DEF Alive, RuntimeInv, Knowing, rowVars, procVars, Knows, KnowsJob,
     KnowsRow, KnowsEnd, StartSteps, WriterSteps, EndingSteps, BoundSteps
<1>1. LedgerKept
  BY StillKept DEF Alive, taskVars
<1>2. CASE Proceed(h, "beat")
  <2>1. ThreadTypeOK' /\ step'[h] = "beat" /\ on'[h] = on[h]
         /\ \A i \in Threads \ {h} : Same(i)
    BY <1>0, <1>2, ProceedMoves DEF RuntimeInv, Steps
  <2>2. Knows(h)'
    BY <1>0, <2>1 DEF Knows, KnowsJob, KnowsRow, KnowsEnd, StartSteps, WriterSteps,
       EndingSteps, BoundSteps
  <2> QED  BY <1>1, <2>1, <2>2, Onward DEF GoesOn, Starts, StartSteps
<1>3. ASSUME NEW m \in {marker[on[h]], "none"}, Found(h, Ended(h, on[h], m))
      PROVE  RuntimeInv'
  <2>0. /\ Ended(h, on[h], m) \in {"succeeded", "failed", "lost"}
        /\ Ended(h, on[h], m) = "succeeded" => marker[on[h]] = "succeeded"
    <3>1. marker[on[h]] \in {"none", "succeeded", "failed"}
      BY <1>0 DEF RuntimeInv, RuntimeTypeOK, ProcessTypeOK
    <3> QED  BY <3>1 DEF Ended
  <2>1. /\ ThreadTypeOK' /\ step'[h] = "settle" /\ on'[h] = on[h]
        /\ found'[h] = Ended(h, on[h], m) /\ \A i \in Threads \ {h} : Same(i)
    BY <1>0, <1>3, <2>0, FoundMoves DEF RuntimeInv, Terminal
  <2>2. Knows(h)'
    BY <1>0, <2>0, <2>1 DEF Evidence, Over, Terminal, Knows, KnowsJob, KnowsRow, KnowsEnd,
       StartSteps, WriterSteps, EndingSteps, BoundSteps
  <2> QED  BY <1>1, <2>1, <2>2, Onward DEF GoesOn, Starts, StartSteps
<1> QED  BY <1>2, <1>3 DEF Alive

\* A running process is recorded in its session.
LEMMA BeatStep ==
  ASSUME RuntimeInv, NEW h \in Threads, Beat(h)
  PROVE  RuntimeInv'
<1>0. /\ on[h] \in Execs /\ on[h] <= created /\ runner[on[h]] # "none" /\ created' = created
  BY BoundRow DEF Beat, rowVars, RuntimeInv, Knowing, Recorded, RecordedOf, Knows,
     KnowsJob, KnowsRow, KnowsEnd, StartSteps, WriterSteps, EndingSteps, BoundSteps
<1>1. LedgerKept
  BY <1>0, SessionKept DEF Beat
<1> QED  BY <1>0, <1>1, ObservedMoves, Onward DEF Beat, RuntimeInv

\* An end is recorded.
LEMMA SettleStep ==
  ASSUME RuntimeInv, NEW h \in Threads, Settle(h)
  PROVE  RuntimeInv'
<1>0. /\ on[h] \in Execs /\ on[h] # 0 /\ on[h] <= created /\ session[on[h]] # "none"
      /\ found[h] \in Terminal /\ Evidence(found[h], on[h]) /\ step[h] = "settle"
  BY BoundRow DEF Settle, RuntimeInv, Knowing, Knows, KnowsJob, KnowsRow, KnowsEnd,
     StartSteps, WriterSteps, EndingSteps, BoundSteps
<1>1. CASE /\ May(on[h], found[h], TRUE) /\ Write(on[h], found[h])
           /\ token' = [token EXCEPT ![h] = held[on[h]]] /\ Goto(h, "close")
           /\ UNCHANGED <<callVars, seen, found, todo>>
  <2>1. LedgerKept /\ exec'[on[h]] = found[h] /\ created' = created /\ session' = session
    BY <1>0, <1>1, WriteKept DEF Settle, Write, Statuses, RuntimeInv, RuntimeTypeOK,
       RowTypeOK, ThreadTypeOK
  <2>2. held[on[h]] \in Nat
    BY <1>0 DEF RuntimeInv, RuntimeTypeOK, RowTypeOK, ThreadTypeOK
  <2>3. /\ ThreadTypeOK' /\ step'[h] = "close" /\ on'[h] = on[h] /\ found'[h] = found[h]
        /\ \A i \in Threads \ {h} : Same(i)
    BY <1>1, <2>1, <2>2 DEF Goto, Same, Steps, callVars, RuntimeInv, RuntimeTypeOK,
       RowTypeOK, ThreadTypeOK
  <2>4. Knows(h)'
    BY <1>0, <2>1, <2>3 DEF Knows, KnowsJob, KnowsRow, KnowsEnd, StartSteps, WriterSteps,
       EndingSteps, BoundSteps
  <2> QED  BY <2>1, <2>3, <2>4, Onward DEF GoesOn, Starts, StartSteps
<1>2. CASE Refused /\ Return({h})
  <2>1. LedgerKept
    BY <1>2, StillKept DEF Settle, Refused, taskVars, rowVars
  <2> QED  BY <1>2, <2>1, ReturnMoves, Onward DEF Refused, RuntimeInv
<1> QED  BY <1>1, <1>2 DEF Settle

\* The session is closed as the execution ended.
LEMMA CloseStep ==
  ASSUME RuntimeInv, NEW h \in Threads, Close(h)
  PROVE  RuntimeInv'
<1>0. /\ on[h] \in Execs /\ on[h] # 0 /\ on[h] <= created /\ exec[on[h]] = found[h]
      /\ exec[on[h]] \in Terminal /\ runner[on[h]] # "none"
      /\ created' = created /\ exec' = exec
  BY BoundRow DEF Close, rowVars, RuntimeInv, Knowing, Recorded, RecordedOf, Knows,
     KnowsJob, KnowsRow, KnowsEnd, StartSteps, WriterSteps, EndingSteps, BoundSteps
<1>1. Closing(found[h]) \in {"running", "stopped", "failed", "cancelled"}
  BY DEF Closing
<1>2. LedgerKept
  BY <1>0, <1>1, SessionKept DEF Close
<1>3. ThreadTypeOK' /\ step'[h] = "unlock" /\ on'[h] = on[h]
       /\ \A i \in Threads \ {h} : Same(i)
  BY <1>0, ProceedMoves DEF Close, RuntimeInv, Steps
<1>4. Knows(h)'
  BY <1>0, <1>3 DEF Knows, KnowsJob, KnowsRow, KnowsEnd, StartSteps, WriterSteps,
     EndingSteps, BoundSteps
<1> QED  BY <1>2, <1>3, <1>4, Onward DEF GoesOn, Starts, StartSteps

\* The lease is released, if it is still the one.
LEMMA UnlockStep ==
  ASSUME RuntimeInv, NEW h \in Threads, Unlock(h)
  PROVE  RuntimeInv'
<1>1. RowTypeOK' /\ created' = created
  BY DEF Unlock, taskVars, rowVars, RuntimeInv, RuntimeTypeOK, RowTypeOK, ThreadTypeOK
<1>2. StoreTypeOK'
  BY <1>1 DEF Unlock, RuntimeInv, RuntimeTypeOK, StoreTypeOK
<1>3. LedgerKept
  BY <1>1, <1>2, GrantKept DEF Unlock, taskVars
<1>4. CASE Return({h})
  BY <1>1, <1>3, <1>4, ReturnMoves, Onward DEF RuntimeInv
<1>5. CASE Proceed(h, "task")
  BY <1>1, <1>3, <1>5, ProceedMoves, Onward DEF GoesOn, RuntimeInv, Steps
<1>6. CASE Observed(h)
  BY <1>1, <1>3, <1>6, ObservedMoves, Onward DEF RuntimeInv
<1> QED  BY <1>4, <1>5, <1>6 DEF Unlock

-----------------------------------------------------------------------------
\* Steps of a cancellation.

\* The process is stopped.
LEMMA StoppedStep ==
  ASSUME RuntimeInv, NEW h \in Threads, Stopped(h)
  PROVE  RuntimeInv'
<1>0. /\ on[h] \in Execs /\ on[h] # 0 /\ session[on[h]] # "none" /\ runner[on[h]] # "none"
      /\ step[h] = "kill" /\ created' = created /\ session' = session
  BY BoundRow DEF Stopped, rowVars, RuntimeInv, Knowing, Recorded, RecordedOf, Knows,
     KnowsJob, KnowsRow, KnowsEnd, StartSteps, WriterSteps, EndingSteps, BoundSteps
<1>1. /\ runner' = [runner EXCEPT ![on[h]] = IF runner[on[h]] = "exited" THEN "exited" ELSE "gone"]
      /\ UNCHANGED <<marker, child, faults, taskVars, rowVars, session, approval, lease>>
  BY DEF Stopped
<1>2. ProcessTypeOK' /\ runner'[on[h]] \in {"exited", "gone"}
  BY <1>0, <1>1 DEF RuntimeInv, RuntimeTypeOK, ProcessTypeOK
<1>3. \A x \in Execs : x # on[h] => runner'[x] = runner[x]
  BY <1>1 DEF RuntimeInv, RuntimeTypeOK, ProcessTypeOK
<1>4. LedgerKept
  <2>1. UNCHANGED <<taskVars, rowVars, session, approval, lease>> /\ marker' = marker
    BY DEF Stopped
  <2>2. ASSUME NEW x \in Execs
        PROVE  /\ runner[x] = "none" <=> runner'[x] = "none"
               /\ Over(x) => Over(x)'
    <3>1. CASE x = on[h]
      BY <1>0, <1>2, <3>1 DEF Over
    <3>2. CASE x # on[h]
      BY <1>3, <3>2 DEF Over
    <3> QED  BY <3>1, <3>2
  <2> QED  BY <1>2, <2>1, <2>2, ProcessKept
<1>5. Outcome(h, TRUE) \in {"cancelled", "timed_out"}
  BY DEF Outcome
<1>6. /\ ThreadTypeOK' /\ step'[h] = "settle" /\ on'[h] = on[h]
      /\ found'[h] = Outcome(h, TRUE)
      /\ \A i \in Threads \ {h} : Same(i)
  BY <1>0, <1>5, FoundMoves DEF Stopped, RuntimeInv, Terminal
<1>7. Knows(h)'
  BY <1>0, <1>2, <1>5, <1>6 DEF Evidence, Over, Terminal, Knows, KnowsJob, KnowsRow, KnowsEnd,
     StartSteps, WriterSteps, EndingSteps, BoundSteps
<1> QED  BY <1>4, <1>6, <1>7, Onward DEF GoesOn, Starts, StartSteps

\* The process could not be stopped, or it is not known whether it was.
LEMMA UnstoppedStep ==
  ASSUME RuntimeInv, NEW h \in Threads, Unstopped(h)
  PROVE  RuntimeInv'
<1>0. /\ on[h] \in Execs /\ on[h] # 0 /\ session[on[h]] # "none"
      /\ step[h] = "kill" /\ created' = created /\ session' = session
  BY BoundRow DEF Unstopped, rowVars, RuntimeInv, Knowing, Knows, KnowsJob, KnowsRow,
     KnowsEnd, StartSteps, WriterSteps, EndingSteps, BoundSteps
<1>1. ProcessTypeOK'
  <2>1. faults' \in 0 .. MaxFaults
    BY RuntimeAssumption DEF Unstopped, RuntimeInv, RuntimeTypeOK, ProcessTypeOK
  <2> QED  BY <2>1 DEF Unstopped, procVars, RuntimeInv, RuntimeTypeOK, ProcessTypeOK
<1>2. LedgerKept
  BY <1>1, ProcessKept DEF Unstopped, procVars, Over
<1>3. CASE Proceed(h, "beat")
  <2>1. ThreadTypeOK' /\ step'[h] = "beat" /\ on'[h] = on[h]
         /\ \A i \in Threads \ {h} : Same(i)
    BY <1>0, <1>3, ProceedMoves DEF RuntimeInv, Steps
  <2>2. Knows(h)'
    BY <1>0, <2>1 DEF Knows, KnowsJob, KnowsRow, KnowsEnd, StartSteps, WriterSteps,
       EndingSteps, BoundSteps
  <2> QED  BY <1>2, <2>1, <2>2, Onward DEF GoesOn, Starts, StartSteps
<1>4. CASE Found(h, Outcome(h, FALSE))
  <2>1. /\ ThreadTypeOK' /\ step'[h] = "settle" /\ on'[h] = on[h] /\ found'[h] = "lost"
        /\ \A i \in Threads \ {h} : Same(i)
    BY <1>0, <1>4, FoundMoves DEF Outcome, RuntimeInv, Terminal
  <2>2. Knows(h)'
    BY <1>0, <2>1 DEF Evidence, Over, Terminal, Knows, KnowsJob, KnowsRow, KnowsEnd,
       StartSteps, WriterSteps, EndingSteps, BoundSteps
  <2> QED  BY <1>2, <2>1, <2>2, Onward DEF GoesOn, Starts, StartSteps
<1> QED  BY <1>3, <1>4 DEF Unstopped

\* The owner cancels a task.
LEMMA CancelStep ==
  ASSUME RuntimeInv, NEW h \in Threads, NEW t \in Tasks, Cancel(h, t)
  PROVE  RuntimeInv'
<1>1. LedgerKept
  BY StillKept DEF Cancel, taskVars
<1>2. current[t] \in 0 .. created /\ created' = created
  BY DEF Cancel, rowVars, RuntimeInv, RuntimeTypeOK, RowTypeOK, ThreadTypeOK
<1>3. /\ step'[h] = "task" \/ (step'[h] = "look" /\ current[t] # 0)
      /\ on'[h] = current[t] /\ \A i \in Threads \ {h} : Same(i)
  BY DEF Cancel, Goto, Same, RuntimeInv, RuntimeTypeOK, RowTypeOK, ThreadTypeOK
<1>4. ThreadTypeOK'
  <2>1. step' \in [Threads -> Steps]
    BY DEF Cancel, Goto, Steps, RuntimeInv, RuntimeTypeOK, RowTypeOK, ThreadTypeOK
  <2>2. job' \in [Threads -> Jobs]
    <3>1. job[h] \in Jobs /\ job \in [Threads -> Jobs]
      BY DEF RuntimeInv, RuntimeTypeOK, RowTypeOK, ThreadTypeOK
    <3>2. [job[h] EXCEPT !.task = t] \in Jobs
      BY <3>1 DEF Jobs
    <3> QED  BY <3>1, <3>2 DEF Cancel
  <2>3. on' \in [Threads -> 0 .. created]
    BY <1>2 DEF Cancel, RuntimeInv, RuntimeTypeOK, RowTypeOK, ThreadTypeOK
  <2>4. seen' \in [Threads -> BOOLEAN]
    BY DEF Cancel, RuntimeInv, RuntimeTypeOK, RowTypeOK, ThreadTypeOK
  <2> QED  BY <1>2, <2>1, <2>2, <2>3, <2>4 DEF Cancel, RuntimeInv, RuntimeTypeOK,
              RowTypeOK, ThreadTypeOK
<1>5. Knows(h)'
  BY <1>3 DEF Knows, KnowsJob, KnowsRow, KnowsEnd, StartSteps, WriterSteps, EndingSteps,
     BoundSteps
<1> QED  BY <1>1, <1>3, <1>4, <1>5, Onward DEF GoesOn, Starts, StartSteps

\* The execution is recorded as being cancelled.
LEMMA CancellingStep ==
  ASSUME RuntimeInv, NEW h \in Threads, Cancelling(h)
  PROVE  RuntimeInv'
<1>0. /\ on[h] \in Execs /\ on[h] # 0 /\ on[h] <= created /\ session[on[h]] # "none"
      /\ session' = session
  BY BoundRow DEF Cancelling, RuntimeInv, Knowing, Knows, KnowsJob, KnowsRow, KnowsEnd,
     StartSteps, WriterSteps, EndingSteps, BoundSteps
<1>1. CASE May(on[h], "cancelling", TRUE) /\ Write(on[h], "cancelling") /\ Proceed(h, "kill")
  <2>1. LedgerKept /\ created' = created
    BY <1>0, <1>1, WriteKept DEF Cancelling, Write, Evidence, Over, Statuses, Active,
       RuntimeInv, RuntimeTypeOK, RowTypeOK, ThreadTypeOK
  <2>2. ThreadTypeOK' /\ step'[h] = "kill" /\ on'[h] = on[h]
         /\ \A i \in Threads \ {h} : Same(i)
    BY <1>1, <2>1, ProceedMoves DEF RuntimeInv, Steps
  <2>3. Knows(h)'
    BY <1>0, <2>2 DEF Knows, KnowsJob, KnowsRow, KnowsEnd, StartSteps, WriterSteps,
       EndingSteps, BoundSteps
  <2> QED  BY <2>1, <2>2, <2>3, Onward DEF GoesOn, Starts, StartSteps
<1>2. CASE Refused /\ Return({h})
  <2>1. LedgerKept
    BY <1>2, StillKept DEF Cancelling, Refused, taskVars, rowVars
  <2> QED  BY <1>2, <2>1, ReturnMoves, Onward DEF Refused, RuntimeInv
<1> QED  BY <1>1, <1>2 DEF Cancelling

\* The cancelled task is closed, or held for review.
LEMMA CancelTaskStep ==
  ASSUME RuntimeInv, NEW h \in Threads, CancelTask(h)
  PROVE  RuntimeInv'
<1> DEFINE t == job[h].task
<1>0. UNCHANGED <<current, created, args, held, session, lease, procVars, faults>>
  BY DEF CancelTask
<1>1. \/ /\ Cancellable(h, t)
         /\ approval' = [a \in Approvals |->
              IF approval[a].task = t /\ approval[a].status = "pending"
              THEN [approval[a] EXCEPT !.status = "rejected"] ELSE approval[a]]
         /\ taskStatus' = [taskStatus EXCEPT ![t] = IF Uncertain(t) THEN "blocked"
                                                    ELSE "cancelled"]
         /\ exec' = [x \in Execs |-> IF args[x].task = t /\ exec[x] \in Active THEN "lost"
                                     ELSE exec[x]]
      \/ UNCHANGED <<approval, taskStatus, exec>>
  BY DEF CancelTask
<1>2. \A x \in Execs : exec'[x] = exec[x] \/ (exec[x] \in Active /\ exec'[x] = "lost")
  BY <1>1
<1>3. \A a \in Approvals : approval[a].status = "consumed" => approval'[a] = approval[a]
  BY <1>1
<1>4. LedgerKept
  <2>1. exec' \in [Execs -> Statuses \cup {"none"}]
    BY <1>1 DEF Statuses, Terminal, RuntimeInv, RuntimeTypeOK, RowTypeOK, ThreadTypeOK
  <2>2. taskStatus' \in [Tasks -> {"queued", "running", "awaiting_approval", "blocked",
                                   "completed", "failed", "cancelled"}]
    BY <1>1 DEF RuntimeInv, RuntimeTypeOK, RowTypeOK, ThreadTypeOK
  <2>3. RowTypeOK'
    BY <1>0, <2>1, <2>2 DEF RuntimeInv, RuntimeTypeOK, RowTypeOK, ThreadTypeOK
  <2>4. StoreTypeOK'
    BY <1>0, <1>1 DEF RuntimeInv, RuntimeTypeOK, StoreTypeOK
  <2>5. ProcessTypeOK'
    BY <1>0 DEF procVars, RuntimeInv, RuntimeTypeOK, ProcessTypeOK
  <2>6. Forward
    BY <1>0, <1>2, <1>3 DEF Forward, Over, procVars, Terminal, Active, RuntimeInv,
       RuntimeTypeOK, RowTypeOK, ThreadTypeOK
  <2>7. Unborn'
    BY <1>0, <1>2 DEF RuntimeInv, Unborn, procVars, Active
  <2>8. Recorded'
    <3> SUFFICES ASSUME NEW x \in Execs PROVE RecordedOf(x)'
      BY DEF Recorded
    <3>1. RecordedOf(x) /\ session'[x] = session[x] /\ marker' = marker /\ runner' = runner
      BY <1>0 DEF RuntimeInv, Recorded, procVars
    <3> QED  BY <1>2, <3>1 DEF RecordedOf, Evidence, Over, Terminal, Active
  <2> QED  BY <1>0, <2>3, <2>4, <2>5, <2>6, <2>7, <2>8 DEF LedgerKept, procVars
<1> QED  BY <1>0, <1>4, ReturnMoves, Onward DEF CancelTask, RuntimeInv

-----------------------------------------------------------------------------
\* Steps of the owner and of the environment.
LEMMA RestMoves ==
  ASSUME RuntimeInv, UNCHANGED <<step, callVars, localVars, created>>
  PROVE  ThreadTypeOK' /\ \A i \in Threads : GoesOn(i)
BY DEF callVars, localVars, GoesOn, Same, RuntimeInv, RuntimeTypeOK, ThreadTypeOK

\* An approval is asked for.
LEMMA RequestApprovalStep ==
  ASSUME RuntimeInv, NEW a \in Approvals, NEW t \in Tasks, NEW r \in Resources,
         RequestApproval(a, t, r)
  PROVE  RuntimeInv'
<1>1. RowTypeOK' /\ StoreTypeOK'
  BY DEF RequestApproval, rowVars, StoreTypeOK, RuntimeInv, RuntimeTypeOK, RowTypeOK,
     ThreadTypeOK
<1>2. LedgerKept
  <2>1. \A b \in Approvals : approval[b].status = "consumed"
                                 => approval'[b].status = "consumed"
    BY DEF RequestApproval, RuntimeInv, RuntimeTypeOK, StoreTypeOK
  <2> QED  BY <1>1, <2>1, GrantKept DEF RequestApproval
<1> QED  BY <1>2, RestMoves, Onward DEF RequestApproval, rowVars

\* An approval is decided.
LEMMA DecideStep ==
  ASSUME RuntimeInv, NEW a \in Approvals, NEW d \in {"approved", "rejected"}, Decide(a, d)
  PROVE  RuntimeInv'
<1>1. approval' = [approval EXCEPT ![a].status = IF approval[a].fresh THEN d ELSE "expired"]
  BY DEF Decide
<1>2. StoreTypeOK'
  BY <1>1 DEF Decide, rowVars, RuntimeInv, RuntimeTypeOK, StoreTypeOK
<1>3. RowTypeOK'
  <2>1. taskStatus' \in [Tasks -> {"queued", "running", "awaiting_approval", "blocked",
                                   "completed", "failed", "cancelled"}]
    BY DEF Decide, RuntimeInv, RuntimeTypeOK, RowTypeOK, ThreadTypeOK
  <2> QED  BY <2>1 DEF Decide, rowVars, RuntimeInv, RuntimeTypeOK, RowTypeOK, ThreadTypeOK
<1>4. \A b \in Approvals : approval[b].status = "consumed"
                               => approval'[b].status = "consumed"
  BY <1>1 DEF Decide, RuntimeInv, RuntimeTypeOK, StoreTypeOK
<1>5. LedgerKept
  BY <1>2, <1>3, <1>4, GrantKept DEF Decide
<1> QED  BY <1>5, RestMoves, Onward DEF Decide, rowVars

\* An approval expires.
LEMMA ApprovalExpiresStep ==
  ASSUME RuntimeInv, NEW a \in Approvals, ApprovalExpires(a)
  PROVE  RuntimeInv'
<1>1. approval' = [approval EXCEPT ![a].fresh = FALSE]
  BY DEF ApprovalExpires
<1>2. StoreTypeOK'
  <2> DEFINE R == [status : {"none", "pending", "approved", "rejected", "consumed",
                             "expired"},
                   task : Tasks \cup {None}, resource : Resources \cup {None},
                   fresh : BOOLEAN]
  <2>1. approval \in [Approvals -> R]
    BY DEF RuntimeInv, RuntimeTypeOK, StoreTypeOK
  <2>2. [approval[a] EXCEPT !.fresh = FALSE] \in R
    BY <2>1
  <2>3. approval' \in [Approvals -> R]
    BY <1>1, <2>1, <2>2
  <2> QED  BY <2>3 DEF ApprovalExpires, rowVars, RuntimeInv, RuntimeTypeOK, StoreTypeOK
<1>3. RowTypeOK'
  BY DEF ApprovalExpires, taskVars, rowVars, RuntimeInv, RuntimeTypeOK, RowTypeOK,
     ThreadTypeOK
<1>4. \A b \in Approvals : approval[b].status = "consumed"
                               => approval'[b].status = "consumed"
  BY <1>1 DEF RuntimeInv, RuntimeTypeOK, StoreTypeOK
<1>5. LedgerKept
  BY <1>2, <1>3, <1>4, GrantKept DEF ApprovalExpires, taskVars
<1> QED  BY <1>5, RestMoves, Onward DEF ApprovalExpires, rowVars

\* A lease expires.
LEMMA LeaseExpiresStep ==
  ASSUME RuntimeInv, NEW r \in Resources, LeaseExpires(r)
  PROVE  RuntimeInv'
<1>1. lease' = [lease EXCEPT ![r].state = "expired"]
  BY DEF LeaseExpires
<1>2. StoreTypeOK'
  BY <1>1 DEF LeaseExpires, rowVars, RuntimeInv, RuntimeTypeOK, StoreTypeOK
<1>3. RowTypeOK'
  BY DEF LeaseExpires, taskVars, rowVars, RuntimeInv, RuntimeTypeOK, RowTypeOK, ThreadTypeOK
<1>4. LedgerKept
  BY <1>2, <1>3, GrantKept DEF LeaseExpires, taskVars
<1> QED  BY <1>4, RestMoves, Onward DEF LeaseExpires, rowVars

\* A runner writes its marker.
LEMMA WriteMarkerStep ==
  ASSUME RuntimeInv, NEW x \in Execs, NEW result \in {"succeeded", "failed"},
         WriteMarker(x, result)
  PROVE  RuntimeInv'
<1>1. marker' = [marker EXCEPT ![x] = result] /\ UNCHANGED <<runner, child, faults>>
      /\ runner[x] = "alive" /\ marker[x] = "none"
  BY DEF WriteMarker
<1>2. ProcessTypeOK' /\ \A y \in Execs \ {x} : marker'[y] = marker[y]
  BY <1>1 DEF RuntimeInv, RuntimeTypeOK, ProcessTypeOK
<1>3. LedgerKept
  BY <1>1, <1>2, ProcessKept DEF WriteMarker, Over
<1> QED  BY <1>3, RestMoves, Onward DEF WriteMarker, rowVars

\* A runner exits.
LEMMA RunnerExitsStep ==
  ASSUME RuntimeInv, NEW x \in Execs, RunnerExits(x)
  PROVE  RuntimeInv'
<1>1. /\ runner' = [runner EXCEPT ![x] = "exited"] /\ UNCHANGED <<marker, child>>
      /\ runner[x] = "alive" /\ faults' \in 0 .. MaxFaults
  BY RuntimeAssumption DEF RunnerExits, RuntimeInv, RuntimeTypeOK, ProcessTypeOK
<1>2. /\ ProcessTypeOK' /\ runner'[x] = "exited"
      /\ \A y \in Execs \ {x} : runner'[y] = runner[y]
  BY <1>1 DEF RuntimeInv, RuntimeTypeOK, ProcessTypeOK
<1>3. LedgerKept
  BY <1>1, <1>2, ProcessKept DEF RunnerExits, Over
<1> QED  BY <1>3, RestMoves, Onward DEF RunnerExits, rowVars

\* A runner dies.
LEMMA RunnerDiesStep ==
  ASSUME RuntimeInv, NEW x \in Execs, RunnerDies(x)
  PROVE  RuntimeInv'
<1>1. /\ runner' = [runner EXCEPT ![x] = "gone"] /\ UNCHANGED <<marker, child>>
      /\ runner[x] = "alive" /\ faults' \in 0 .. MaxFaults
  BY RuntimeAssumption DEF RunnerDies, RuntimeInv, RuntimeTypeOK, ProcessTypeOK
<1>2. /\ ProcessTypeOK' /\ runner'[x] = "gone"
      /\ \A y \in Execs \ {x} : runner'[y] = runner[y]
  BY <1>1 DEF RuntimeInv, RuntimeTypeOK, ProcessTypeOK
<1>3. LedgerKept
  BY <1>1, <1>2, ProcessKept DEF RunnerDies, Over
<1> QED  BY <1>3, RestMoves, Onward DEF RunnerDies, rowVars

\* A coordinator crashes.
LEMMA CrashStep ==
  ASSUME RuntimeInv, NEW c \in Coordinators, Crash(c)
  PROVE  RuntimeInv'
<1>1. faults' \in 0 .. MaxFaults
  BY RuntimeAssumption DEF Crash, RuntimeInv, RuntimeTypeOK, ProcessTypeOK
<1>2. ProcessTypeOK'
  BY <1>1 DEF Crash, RuntimeInv, RuntimeTypeOK, ProcessTypeOK
<1>3. LedgerKept
  BY <1>2, ProcessKept DEF Crash, Over
<1>4. created' = created /\ Return({h \in Threads : Home[h] = c})
  BY DEF Crash, rowVars
<1> QED  BY <1>3, <1>4, ReturnMoves, Onward DEF RuntimeInv

-----------------------------------------------------------------------------
\* The invariant holds from the start and is kept by every step.
LEMMA RuntimeInit == Init => RuntimeInv
<1> SUFFICES ASSUME Init PROVE RuntimeInv
  OBVIOUS
<1> USE DEF Init
<1>1. RuntimeTypeOK
  <2>1. NoJob \in Jobs
    BY DEF NoJob, Jobs
  <2>2. 0 \in 0 .. 0 /\ 0 \in 0 .. MaxExecutions /\ 0 \in 0 .. MaxFaults
    BY RuntimeAssumption
  <2>3. RowTypeOK
    BY <2>1, <2>2 DEF RowTypeOK
  <2>4. StoreTypeOK
    BY <2>2 DEF StoreTypeOK
  <2>5. ProcessTypeOK
    BY <2>2 DEF ProcessTypeOK
  <2>6. ThreadTypeOK
    BY <2>1, <2>2 DEF ThreadTypeOK, Steps
  <2> QED  BY <2>3, <2>4, <2>5, <2>6 DEF RuntimeTypeOK
<1>2. Knowing
  BY DEF Knowing, Knows, KnowsJob, KnowsRow, KnowsEnd, StartSteps, WriterSteps,
     EndingSteps, BoundSteps
<1>3. Apart /\ Unborn
  BY DEF Apart, Starts, StartSteps, Unborn
<1>4. Spending
  BY DEF Spending, Spends, NoJob
<1>5. Recorded
  BY DEF Recorded, RecordedOf, Evidence, Over
<1> QED  BY <1>1, <1>2, <1>3, <1>4, <1>5 DEF RuntimeInv

\* Every step of every thread and of the environment keeps the invariant.
LEMMA RuntimeStep == RuntimeInv /\ [Next]_vars => RuntimeInv'
<1> SUFFICES ASSUME RuntimeInv, [Next]_vars PROVE RuntimeInv'
  OBVIOUS
<1>1. ASSUME NEW h \in Callers, StartCommand(h) PROVE RuntimeInv'
  <2> h \in Threads
    BY DEF Threads
  <2>1. CASE \E j \in Jobs : Start(h, j)
    BY <2>1, StartStep
  <2>2. CASE Create(h) \/ Acquire(h) \/ Refuse(h) \/ RecordLease(h)
    BY <2>2, CreateStep, AcquireStep, RefuseStep, RecordLeaseStep
  <2>3. CASE Consume(h) \/ Launch(h) \/ Fail(h)
    BY <2>3, ConsumeStep, LaunchStep, FailStep
  <2>4. CASE Unlock(h) \/ Session(h) \/ Run(h)
    BY <2>4, UnlockStep, SessionStep, RunStep
  <2> QED  BY <1>1, <2>1, <2>2, <2>3, <2>4 DEF StartCommand
<1>2. ASSUME NEW h \in Servers, Reconcile(h) PROVE RuntimeInv'
  <2> h \in Threads
    BY DEF Threads
  <2>1. CASE \E x \in Execs : Observe(h, x)
    BY <2>1, ObserveStep
  <2>2. CASE Recover(h) \/ Recovered(h) \/ Look(h) \/ Missing(h)
    BY <2>2, RecoverStep, RecoveredStep, LookStep, MissingStep
  <2>3. CASE ReadMarker(h) \/ Alive(h) \/ Beat(h)
    BY <2>3, ReadMarkerStep, AliveStep, BeatStep
  <2>4. CASE Settle(h) \/ Close(h) \/ Unlock(h)
    BY <2>4, SettleStep, CloseStep, UnlockStep
  <2> QED  BY <1>2, <2>1, <2>2, <2>3, <2>4 DEF Reconcile
<1>3. ASSUME NEW h \in Servers, Stop(h) PROVE RuntimeInv'
  <2> h \in Threads
    BY DEF Threads
  <2>1. CASE \E t \in Tasks : Cancel(h, t)
    BY <2>1, CancelStep
  <2>2. CASE Cancelling(h) \/ Stopped(h) \/ Unstopped(h) \/ CancelTask(h)
    BY <2>2, CancellingStep, StoppedStep, UnstoppedStep, CancelTaskStep
  <2> QED  BY <1>3, <2>1, <2>2 DEF Stop
<1>4. ASSUME Owner PROVE RuntimeInv'
  BY <1>4, RequestApprovalStep, DecideStep DEF Owner
<1>5. ASSUME Environment PROVE RuntimeInv'
  BY <1>5, ApprovalExpiresStep, LeaseExpiresStep, WriteMarkerStep, RunnerExitsStep,
     RunnerDiesStep, CrashStep DEF Environment
<1>6. CASE UNCHANGED vars
  <2>1. /\ UNCHANGED <<taskVars, rowVars, session, approval, lease, procVars, faults>>
        /\ UNCHANGED <<step, callVars, localVars>>
    BY <1>6 DEF vars
  <2>2. LedgerKept
    BY <2>1, StillKept DEF taskVars
  <2>3. ThreadTypeOK' /\ \A i \in Threads : GoesOn(i)
    BY <2>1, RestMoves DEF rowVars
  <2> QED  BY <2>2, <2>3, Onward
<1> QED  BY <1>1, <1>2, <1>3, <1>4, <1>5, <1>6 DEF Next

\* The coordinator keeps the inductive invariant: what every thread knows of its
\* execution stays true while the others, the runners and crashes do their steps.
THEOREM RuntimeInvariant == Spec => []RuntimeInv
BY RuntimeInit, RuntimeStep, PTL DEF Spec

-----------------------------------------------------------------------------
\* Every record of the ledger, the processes and the threads of execution_runtime keeps
\* its type: no execution is named that was not created, and a thread's locals are what
\* its place in start_command, observe or cancel reads.
THEOREM RuntimeTypeCorrect == Spec => []RuntimeTypeOK
<1>1. RuntimeInv => RuntimeTypeOK
  BY DEF RuntimeInv
<1> QED  BY <1>1, RuntimeInvariant, PTL

\* check_approval looks and marks in one transaction, so that of any number of calls of
\* start_command under one approval at most one starts its process.
THEOREM ApprovalOnceCorrect == Spec => []ApprovalOnce
<1>1. RuntimeInv => ApprovalOnce
  BY DEF RuntimeInv, Spending, Spends, ApprovalOnce
<1> QED  BY <1>1, RuntimeInvariant, PTL

\* Whichever thread observes an attempt, whatever crashes and whatever cannot be read,
\* success is recorded only after the runner has written that the command ended with 0.
THEOREM SuccessIsReportedCorrect == Spec => []SuccessIsReported
<1>1. RuntimeInv => SuccessIsReported
  BY DEF RuntimeInv, Recorded, RecordedOf, Evidence, Over, SuccessIsReported
<1> QED  BY <1>1, RuntimeInvariant, PTL

\* A cancellation or a time-out is recorded only of a runner that adapter.cancel saw end.
THEOREM StoppedIsGoneCorrect == Spec => []StoppedIsGone
<1>1. RuntimeInv => StoppedIsGone
  BY DEF RuntimeInv, Recorded, RecordedOf, Evidence, Over, StoppedIsGone
<1> QED  BY <1>1, RuntimeInvariant, PTL

\* The two transactions of _apply_observation, the transition and the closing of the
\* session, agree whatever other threads do between them.
THEOREM SessionAgreesCorrect == Spec => []SessionAgrees
<1>1. RuntimeInv => SessionAgrees
  BY DEF RuntimeInv, Recorded, RecordedOf, SessionAgrees
<1> QED  BY <1>1, RuntimeInvariant, PTL

\* release_writer_lease lets go of a live lease only for the attempt that owns it, and its
\* callers call it only once that attempt's end is in the ledger.
THEOREM LeaseOutlastsAttemptCorrect == Spec => LeaseOutlastsAttempt
<1> DEFINE Kept == \A r \in Resources :
       lease[r].state = "live" /\ lease'[r] # lease[r]
         => lease'[r].state = "expired" \/ exec[lease[r].owner] \in Terminal
<1>1. ASSUME RuntimeInv, [Next]_vars PROVE Kept
  <2> SUFFICES ASSUME NEW r \in Resources, lease[r].state = "live", lease'[r] # lease[r]
               PROVE  lease'[r].state = "expired" \/ exec[lease[r].owner] \in Terminal
    OBVIOUS
  <2>1. lease \in [Resources -> [owner : 0 .. created, fence : Nat,
                                 state : {"free", "live", "expired"}]]
    BY <1>1 DEF RuntimeInv, RuntimeTypeOK, StoreTypeOK
  <2>2. \A h \in Threads : ~ Acquire(h)
    <3> SUFFICES ASSUME NEW h \in Threads, Acquire(h) PROVE FALSE
      OBVIOUS
    <3>1. Free(job[h].resource)
          /\ lease' = [lease EXCEPT ![job[h].resource] =
                         [owner |-> on[h], fence |-> @.fence + 1, state |-> "live"]]
      BY DEF Acquire
    <3>2. job[h].resource # r
      BY <3>1 DEF Free
    <3> QED  BY <2>1, <3>1, <3>2
  <2>3. CASE \E h \in Threads : Unlock(h)
    <3>1. PICK h \in Threads : Unlock(h)
      BY <2>3
    <3>2. Releases(h, r)
      BY <3>1 DEF Unlock
    <3>3. exec[on[h]] \in Terminal
      BY <1>1, <3>1 DEF Unlock, RuntimeInv, Knowing, Knows, KnowsEnd
    <3> QED  BY <3>2, <3>3 DEF Releases
  <2>4. CASE \E q \in Resources : LeaseExpires(q)
    BY <2>1, <2>4 DEF LeaseExpires
  <2>5. CASE lease' = lease
    BY <2>5
  <2>6. \/ \E h \in Threads : Acquire(h) \/ Unlock(h)
        \/ \E q \in Resources : LeaseExpires(q)
        \/ lease' = lease
    <3>1. ASSUME NEW h \in Callers, StartCommand(h)
          PROVE  Acquire(h) \/ Unlock(h) \/ lease' = lease
      BY <3>1 DEF StartCommand, Start, Create, Refuse, RecordLease, Consume, Launch, Fail,
         Session, Run
    <3>2. ASSUME NEW h \in Servers, Reconcile(h) PROVE Unlock(h) \/ lease' = lease
      BY <3>2 DEF Reconcile, Observe, Recover, Recovered, Look, Missing, ReadMarker,
         Alive, Beat, Settle, Close
    <3>3. ASSUME NEW h \in Servers, Stop(h) PROVE lease' = lease
      BY <3>3 DEF Stop, Cancel, Cancelling, Stopped, Unstopped, CancelTask
    <3>4. ASSUME Owner PROVE lease' = lease
      BY <3>4 DEF Owner, RequestApproval, Decide
    <3>5. ASSUME Environment
          PROVE  lease' = lease \/ \E q \in Resources : LeaseExpires(q)
      BY <3>5 DEF Environment, ApprovalExpires, WriteMarker, RunnerExits, RunnerDies,
         Crash
    <3>6. CASE UNCHANGED vars
      BY <3>6 DEF vars
    <3> QED  BY <1>1, <3>1, <3>2, <3>3, <3>4, <3>5, <3>6 DEF Next, Threads
  <2> QED  BY <2>2, <2>3, <2>4, <2>5, <2>6
<1>2. RuntimeInv /\ [Next]_vars => [Kept]_vars
  BY <1>1
<1> QED  BY <1>2, RuntimeInvariant, PTL DEF Spec, LeaseOutlastsAttempt
=============================================================================

------------------------------ MODULE MCRuntime -------------------------------
(***************************************************************************)
(* Instances of the command coordinator for TLC.                           *)
(***************************************************************************)
EXTENDS ExecutionRuntime, FiniteSets, TLC

MCHome     == [h \in Threads |-> CHOOSE c \in Coordinators : TRUE]
\* The API's process is not the one that starts commands.
MCApart    == [h \in Threads |->
                LET api == CHOOSE c \in Coordinators : TRUE IN
                IF h \in Servers THEN api ELSE CHOOSE c \in Coordinators \ {api} : TRUE]
MCSymmetry == Permutations(Callers) \cup Permutations(Servers) \cup Permutations(Approvals)
                \cup Permutations(Tasks)

\* No lease outlives its time: what goes wrong is not the clock's doing.
LeasesLast == \A r \in Resources : lease[r].state # "expired"

\* Bound: the owner grants the approvals before anything starts, and they last.
Asked == {a \in Approvals : approval[a].status # "none"}
Lasting == \A a \in Asked : /\ approval[a].status \in {"pending", "approved", "consumed"}
                            /\ approval[a].fresh
Begun == created > 0 \/ \E h \in Threads : step[h] # "idle"
Granted(A) == Begun => A = Asked /\ \A a \in A : approval[a].status \in {"approved", "consumed"}
GrantedFirst == Lasting /\ Granted(Approvals)

\* Bound: in a behaviour two attempts race for the resource, while the API works in
\* one thread and nothing fails, or one attempt is ended by two threads of the API.
Busy(H)   == Cardinality({h \in H : step[h] # "idle"})
TwoWriters == /\ faults = 0 /\ Busy(Servers) <= 1 /\ GrantedFirst
              /\ \A x \in Execs : args[x].adapter # "tmux"
              /\ \A h \in Threads : job[h].adapter # "tmux"
TwoObservers == /\ created <= 1 /\ Busy(Callers) <= 1
                /\ created = 1 => \A h \in Callers : step[h] # "create"
                /\ Cardinality(Asked) <= 1 /\ Lasting /\ Granted(Asked)
OneRace == TwoWriters \/ TwoObservers
=============================================================================

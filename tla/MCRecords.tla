------------------------------ MODULE MCRecords ------------------------------
(***************************************************************************)
(* The parts that stand apart from the control plane, on small instances:  *)
(* the logs of a service, one call of a model, the polling of a chat, the  *)
(* audit archive and the memory of a conversation.  They share no state,   *)
(* so that a behaviour is one of one of them: Init picks it.               *)
(***************************************************************************)
EXTENDS ServiceLogs, ModelProcess, ChatUpdates, LogArchive, ConversationMemory

VARIABLE part
partVars == <<part, serviceVars, processVars, updateVars, archiveVars, memoryVars>>

MCMonthOf == [r \in Rows |-> r \div 10]  \* a row is numbered by its month

Init == /\ part \in {"service", "process", "updates", "archive", "memory"}
        /\ LogsInit /\ ProcessInit /\ UpdatesInit /\ ArchiveInit /\ MemoryInit

InService == /\ part = "service" /\ LogsNext
             /\ UNCHANGED <<part, processVars, updateVars, archiveVars, memoryVars>>
InProcess == /\ part = "process" /\ ProcessNext
             /\ UNCHANGED <<part, serviceVars, updateVars, archiveVars, memoryVars>>
InUpdates == /\ part = "updates" /\ UpdatesNext
             /\ UNCHANGED <<part, serviceVars, processVars, archiveVars, memoryVars>>
\* Bound: of the audit table either something fails, or there is a third month.
Young     == age[3] = Trail!Open /\ \A r \in recorded : MonthOf[r] # 3
InArchive == /\ part = "archive" /\ ArchiveNext /\ (failures = 0 \/ Young)'
             /\ UNCHANGED <<part, serviceVars, processVars, updateVars, memoryVars>>

\* Bound: of the conversation either two turns that may be remembered, with three
\* attempts, a reset and a reviewer; or one of them, with all its attempts, a plan and
\* the candidates of its text, beside a request that asked not to be remembered.
Bound(t)  == turnSeq[t] # 0
Tried     == {x \in Turns \X (1..MaxAttempts) : x[2] <= attempt[x[1]]}
Spoken    == {noteText[n] : n \in Notes} \ {Blank}
Talk      == /\ \A t \in Turns : (t \in Refused => ~Bound(t)) /\ change[t] = "none"
             /\ \A i \in Items : item[i] = "none"
             /\ Cardinality(Tried) <= 3
OneChange == /\ generation = 0 /\ Cardinality(Spoken) <= 1
             /\ Cardinality({t \in Turns \ Refused : Bound(t)}) <= 1
             /\ (\E t \in Refused : Bound(t)) => Cardinality(Tried) <= 2
InMemory  == /\ part = "memory" /\ MemoryNext /\ (Talk \/ OneChange)'
             /\ UNCHANGED <<part, serviceVars, processVars, updateVars, archiveVars>>

Next == InService \/ InProcess \/ InUpdates \/ InArchive \/ InMemory
Spec == Init /\ [][Next]_partVars /\ (part = "archive" => ArchiveFairness)
=============================================================================

------------------------------ MODULE MCUploads ------------------------------
(***************************************************************************)
(* Instances of the document transfer for TLC: the jobs of one owner, in a *)
(* process that records the messages and in one that does not, if there is *)
(* one.                                                                    *)
(***************************************************************************)
EXTENDS DocumentUploads, TLC

CONSTANT Copying  \* the jobs of a process that does not record
MCJobOwner == [j \in Jobs |-> CHOOSE o \in Owners : TRUE]
MCHome     == [j \in Jobs |-> CHOOSE s \in Services : s \in Recording <=> j \notin Copying]
MCSite     == [c \in Cancellers |-> CHOOSE s \in Recording : TRUE]
MCSymmetry == Permutations(Messages)

\* Bound: in a behaviour the file is edited while only the process that records
\* receives messages, or that process fails or closes, not both; or two messages
\* arrive again and again in both processes, and nothing else happens.
Forgetful == Services \ Recording
Recorded  == /\ \A s \in Forgetful : recent[s] = <<>> /\ service[s] = "up"
             /\ \A p \in waiting : p[2] \in Recording
             /\ \A j \in Copying : jobStatus[j] = "none"
             /\ file = 1 \/ (crashes = 0 /\ \A s \in Services : service[s] = "up")
Received  == claimed \cup {p[1] : p \in evicted} \cup UNION {Heard(s) : s \in Forgetful}
Repeated  == /\ \A j \in Jobs \ Copying : jobStatus[j] = "none"
             /\ crashes = 0 /\ file \notin Private /\ \A c \in Consents : consent[c] = "none"
             /\ \A c \in Cancellers : seen[c] = "idle"
             /\ \A s \in Services : service[s] = "up"
             /\ Cardinality(Received) <= 2
OneTrouble == Recorded \/ Repeated
=============================================================================

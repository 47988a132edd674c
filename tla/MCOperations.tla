----------------------------- MODULE MCOperations -----------------------------
(***************************************************************************)
(* Instances of the control plane for TLC: every request runs in the same  *)
(* workspace and is a turn of the same conversation.                       *)
(***************************************************************************)
EXTENDS OperationProperties, TLC

MCWorkspace    == [r \in Requests |-> CHOOSE s \in Workspaces : TRUE]
MCConversation == [r \in Requests |-> CHOOSE c \in Conversations : TRUE]
MCSymmetry     == Permutations(Requests) \cup Permutations(Workers)
                  \cup Permutations(Plans) \cup Permutations(Applies)
                  \cup Permutations(Watchers)

\* Bound of the larger instances: workers stay up and heard of, nobody edits the
\* files, and neither plans nor drafts expire.  Claims still expire.
Steady == /\ \A w \in Workers : /\ process[w] \in {"absent", "up"}
                                /\ process[w] = "up" => fresh[w]
          /\ \A s \in Workspaces, x \in Paths : disk[s][x] # "edited"
          /\ \A p \in Plans : plan[p] # "none" => planFresh[p]
          /\ \A d \in Requests : draft[d] # "none" => draftFresh[d]

\* Bound of the instance with outside edits: the owner looks only at the files of
\* plans whose effects resolve() may still have to record.
LooksAtEffects == \A s \in Workspaces : lock[s] \in Plans =>
                    \/ plan[lock[s]] \in {"applying", "uncertain"}
                    \/ plan[lock[s]] = "applied" /\ status[TaskOf(lock[s])] # "completed"

\* Bound of the same instance: at most two faults and expiries of plans and drafts.
Expired == {p \in Plans : plan[p] # "none" /\ ~planFresh[p]}
           \cup {d \in Requests : draft[d] # "none" /\ ~draftFresh[d]}
FewTroubles == faults + Cardinality(Expired) <= 2
=============================================================================

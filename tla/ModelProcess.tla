----------------------------- MODULE ModelProcess -----------------------------
(***************************************************************************)
(* One call of a model: invoke (model_routing.py) runs the provider's CLI  *)
(* as the leader of a process group and run_command (process_runner.py)    *)
(* looks at it every 0.2 seconds, until it exits or must be ended because  *)
(* of its owner, the time or the size of its output.  Helpers the leader   *)
(* forks stay in the group; one that detaches itself is not modelled (nor  *)
(* promised by the documents).                                             *)
(***************************************************************************)
EXTENDS Naturals

CONSTANT MaxHelpers  \* bound: helpers at one time

ASSUME HelpersAssumption == MaxHelpers \in Nat

VARIABLES
  leader,     \* the child; "killed" while SIGKILL has not ended it, "exited" unreaped
  helpers,    \* the other processes of the group that can still run
  signs,      \* what the loop looks for: see Signs
  callAt,     \* the next step of the call
  round,      \* 2 in the termination of the finally block
  raised,     \* the OutcomeSignal on its way
  answer      \* what the call ended with

groupVars   == <<leader, helpers>>
processVars == <<leader, helpers, signs, callAt, round, raised, answer>>

\* cancel_event is set; the deadline has passed; an output file is over
\* MAX_OUTPUT_BYTES; the result file is no regular file of a legal size.
Signs == {"cancelled", "late", "oversized", "spoilt"}

Stops   == {"cancelled", "timed_out"}
Signals == {"blocked", "failed"} \cup Stops

ProcessTypeOK ==
  /\ leader \in {"live", "killed", "exited", "reaped"} /\ helpers \in 0..MaxHelpers
  /\ signs \subseteq Signs /\ round \in {1, 2}
  /\ callAt \in {"look", "wait", "term", "termed", "kill", "killed", "cleanup", "read",
                 "done"}
  /\ raised \in Signals \cup {"none", "error"}
  /\ answer \in Signals \cup {"none", "error", "replied"}

ProcessInit ==
  /\ leader = "live" /\ helpers = 0 /\ signs = {}
  /\ callAt = "look" /\ round = 1 /\ raised = "none" /\ answer = "none"

(***************************************************************************)
(* The group, the owner and the clock                                      *)
(***************************************************************************)
CanRun == leader = "live" \/ helpers > 0

LeaderExits == /\ leader \in {"live", "killed"} /\ leader' = "exited"
               /\ UNCHANGED helpers
HelperStarts == /\ CanRun /\ helpers < MaxHelpers /\ helpers' = helpers + 1
                /\ UNCHANGED leader
HelperEnds == helpers > 0 /\ helpers' = helpers - 1 /\ UNCHANGED leader

\* The owner and the clock need no process for theirs.
SignAppears == /\ \E sign \in Signs : /\ sign \in {"cancelled", "late"} \/ CanRun
                                     /\ signs' = signs \cup {sign}
               /\ UNCHANGED groupVars

Surroundings ==
  /\ \/ (LeaderExits \/ HelperStarts \/ HelperEnds) /\ UNCHANGED signs
     \/ SignAppears
  /\ UNCHANGED <<callAt, round, raised, answer>>

(***************************************************************************)
(* run_command                                                             *)
(***************************************************************************)
Raise(signal) == /\ raised' = signal /\ callAt' = "cleanup"
                 /\ UNCHANGED <<round, answer>>
Goto(step) == callAt' = step /\ UNCHANGED <<round, raised, answer>>
End(result) == /\ callAt' = "done" /\ answer' = result
               /\ UNCHANGED <<round, raised>>

\* The head of the loop.  An output over the limit is what the owner is told, even of a
\* call that was cancelled.
Reason == IF "oversized" \in signs THEN "blocked"
          ELSE IF "cancelled" \in signs THEN "cancelled" ELSE "timed_out"
Inspect ==
  /\ callAt = "look" /\ UNCHANGED <<groupVars, signs, round, answer>>
  /\ \/ "spoilt" \in signs /\ raised' = "blocked" /\ callAt' = "cleanup"
     \/ "spoilt" \notin signs /\ signs # {} /\ raised' = Reason /\ callAt' = "term"
     \/ signs = {} /\ callAt' = "wait" /\ UNCHANGED raised

\* proc.wait; the result of a child that ended by itself counts, whatever has happened
\* since the last look.
Await ==
  /\ callAt = "wait" /\ UNCHANGED <<helpers, signs>>
  /\ \/ leader # "exited" /\ Goto("look") /\ UNCHANGED leader
     \/ /\ leader = "exited" /\ leader' = "reaped"
        /\ IF signs \cap {"spoilt", "oversized"} # {} THEN Raise("blocked") ELSE Goto("read")

(***************************************************************************)
(* terminate: SIGTERM, two seconds, SIGKILL, two seconds.  Its errors      *)
(* replace the signal on its way; the finally block calls it once more     *)
(* where the child has not been reaped.                                    *)
(***************************************************************************)
TerminateRaises(signal) ==
  IF round = 2 THEN End(signal) ELSE Raise(signal)

Signal ==
  /\ callAt \in {"term", "kill"} /\ UNCHANGED signs
  /\ \/ /\ callAt = "term" /\ Goto("termed") /\ UNCHANGED groupVars
     \/ /\ callAt = "kill" /\ Goto("killed")
        /\ leader' = (IF leader = "live" THEN "killed" ELSE leader) /\ helpers' = 0
     \/ TerminateRaises("blocked") /\ UNCHANGED groupVars  \* PermissionError

\* Mutant: the child is gone, its group is not looked at.
ConfirmLeader ==
  /\ callAt \in {"termed", "killed"} /\ leader = "exited" /\ leader' = "reaped"
  /\ UNCHANGED <<helpers, signs>>
  /\ IF round = 2 THEN End(raised) ELSE Raise(raised)

\* A reaped child leaves its group behind, which SIGKILL then ends.
Confirm ==
  /\ callAt \in {"termed", "killed"} /\ leader = "exited" /\ leader' = "reaped"
  /\ UNCHANGED signs
  /\ \/ helpers' = 0 /\ (IF round = 2 THEN End(raised) ELSE Raise(raised))
     \/ TerminateRaises("error") /\ UNCHANGED helpers  \* a PermissionError nobody catches

Unconfirmed ==
  /\ callAt \in {"termed", "killed"} /\ leader # "exited" /\ UNCHANGED <<groupVars, signs>>
  /\ IF callAt = "termed" THEN Goto("kill") ELSE TerminateRaises("blocked")

CleanUp ==
  /\ callAt = "cleanup" /\ UNCHANGED <<helpers, signs>>
  /\ IF leader \in {"live", "killed"}
     THEN round' = 2 /\ callAt' = "term" /\ UNCHANGED <<leader, raised, answer>>
     ELSE leader' = "reaped" /\ End(raised)

\* invoke: the result file is opened and measured again; an exit code and an empty reply
\* count as well.
ReadReply ==
  /\ callAt = "read" /\ UNCHANGED <<groupVars, signs>>
  /\ \/ "spoilt" \in signs /\ End("blocked")
     \/ "spoilt" \notin signs /\ \E result \in {"replied", "failed", "blocked"} : End(result)

CallStep == Inspect \/ Await \/ Signal \/ Confirm \/ Unconfirmed \/ CleanUp \/ ReadReply

ProcessNext == CallStep \/ Surroundings
ProcessSpec == ProcessInit /\ [][ProcessNext]_processVars

(***************************************************************************)
(* A call reported as cancelled or timed out has ended: its child is       *)
(* reaped and no process of its group can still run.  The child may have   *)
(* exited before either signal, ignored one, or forked until the last      *)
(* moment (p0_execution_20260912.md: a termination without confirmation is *)
(* not reported as a cancellation).                                        *)
(***************************************************************************)
StopIsConfirmed == answer \in Stops => leader = "reaped" /\ helpers = 0
===============================================================================

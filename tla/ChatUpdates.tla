----------------------------- MODULE ChatUpdates -----------------------------
(***************************************************************************)
(* The polling loop of the Telegram connector (telegram_bridge.py).  The   *)
(* server hands out the updates it has not dropped and drops those below   *)
(* the offset of the next call; the connector keeps its offset in memory   *)
(* only, and moves it before it handles an update.                         *)
(***************************************************************************)
EXTENDS Naturals

CONSTANTS LastUpdate,  \* bound: updates the chat sends
          MaxBreaks    \* bound: restarts of the connector

ASSUME UpdatesAssumption == LastUpdate \in Nat
ASSUME BreaksAssumption  == MaxBreaks \in Nat

VARIABLES
  arrived,   \* updates 1..arrived have reached the server
  held,      \* those from here on it would still hand out
  offset,    \* of the connector
  next, upto,\* the updates in hand: next..upto
  pollAt,    \* the connector: "poll", "handle" an update or "reply" to it
  takes,     \* update -> how often handle_update was entered with it
  requests,  \* update -> the requests submitted for it
  restarts

updateVars == <<arrived, held, offset, next, upto, pollAt, takes, requests, restarts>>
handVars   == <<offset, next, upto, pollAt>>

Updates == 1..LastUpdate

UpdatesTypeOK ==
  /\ arrived \in 0..LastUpdate /\ held \in 1..(LastUpdate + 1)
  /\ offset \in 0..(LastUpdate + 1) /\ next \in 1..(LastUpdate + 1) /\ upto \in 0..LastUpdate
  /\ pollAt \in {"poll", "handle", "reply"}
  /\ takes \in [Updates -> Nat] /\ requests \in [Updates -> Nat] /\ restarts \in 0..MaxBreaks

UpdatesInit ==
  /\ arrived = 0 /\ held = 1 /\ offset = 0 /\ next = 1 /\ upto = 0 /\ pollAt = "poll"
  /\ takes = [u \in Updates |-> 0] /\ requests = [u \in Updates |-> 0] /\ restarts = 0

Arrive == /\ arrived < LastUpdate /\ arrived' = arrived + 1
          /\ UNCHANGED <<held, handVars, takes, requests, restarts>>

\* getUpdates.  The server drops what the offset confirms; its answer, one batch of what
\* is left, may be lost.
Poll ==
  /\ pollAt = "poll" /\ next > upto
  /\ held' = IF offset > held THEN offset ELSE held
  /\ \/ UNCHANGED <<next, upto>>
     \/ next' = held' /\ upto' \in held'..arrived
  /\ UNCHANGED <<arrived, offset, pollAt, takes, requests, restarts>>

\* Mutant: the offset passes the whole batch.
TakeBatch ==
  /\ pollAt = "poll" /\ next <= upto
  /\ offset' = upto + 1
  /\ takes' = [takes EXCEPT ![next] = @ + 1] /\ pollAt' = "handle"
  /\ UNCHANGED <<arrived, held, next, upto, requests, restarts>>

\* The offset passes the update before it is handled.
Take ==
  /\ pollAt = "poll" /\ next <= upto
  /\ offset' = IF next + 1 > offset THEN next + 1 ELSE offset
  /\ takes' = [takes EXCEPT ![next] = @ + 1] /\ pollAt' = "handle"
  /\ UNCHANGED <<arrived, held, next, upto, requests, restarts>>

\* An exception of run()'s body gives up the rest of the batch, which is then polled again.
GivesUp == next' = upto + 1 /\ pollAt' = "poll" /\ UNCHANGED <<offset, upto>>

\* handle_update: nothing for the bridge, a request, or a command; an error of the
\* database passes through submit, before or after the request is stored.
Handle ==
  /\ pollAt = "handle"
  /\ \/ next' = next + 1 /\ pollAt' = "poll" /\ UNCHANGED <<offset, upto, requests>>
     \/ /\ requests' \in {requests, [requests EXCEPT ![next] = @ + 1]}
        /\ (pollAt' = "reply" /\ UNCHANGED <<offset, next, upto>>) \/ GivesUp
  /\ UNCHANGED <<arrived, held, takes, restarts>>

\* sendMessage, which may raise whether or not the message went out.
Reply ==
  /\ pollAt = "reply"
  /\ \/ next' = next + 1 /\ pollAt' = "poll" /\ UNCHANGED <<offset, upto>>
     \/ GivesUp
  /\ UNCHANGED <<arrived, held, takes, requests, restarts>>

\* The process dies and is started again.
Restart ==
  /\ restarts < MaxBreaks /\ restarts' = restarts + 1
  /\ offset' = 0 /\ next' = 1 /\ upto' = 0 /\ pollAt' = "poll"
  /\ UNCHANGED <<arrived, held, takes, requests>>

UpdatesNext == Arrive \/ Poll \/ Take \/ Handle \/ Reply \/ Restart
UpdatesSpec == UpdatesInit /\ [][UpdatesNext]_updateVars

(***************************************************************************)
(* The server drops no update the connector has not taken up, and the      *)
(* connector takes none up twice within one life, although answers, the    *)
(* rest of a batch and the offset itself get lost.                         *)
(***************************************************************************)
EveryUpdateTaken ==
  \A u \in Updates : takes[u] <= 1 + restarts /\ (u < held => takes[u] > 0)
=============================================================================

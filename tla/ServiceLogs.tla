------------------------------ MODULE ServiceLogs ------------------------------
(***************************************************************************)
(* Output of a managed service and its retention (service_logs.py).        *)
(* run_service writes segments, one at a time, closes each by a link under *)
(* its final name, and stops when the raw budget is spent.  Maintenance,   *)
(* in another process, archives the segments of a completed month, pins    *)
(* the archive by a second name while it retires raw segments, and gives   *)
(* up archives behind the retained months.  Of the names only those in the *)
(* archive directory are synchronised; a retired segment is taken to be    *)
(* gone at once, the worst case for its archive.                           *)
(***************************************************************************)
EXTENDS Naturals, FiniteSets

CONSTANTS Segments,
          LogMonths,    \* calendar months, numbered in order
          RawLimit,     \* raw_limit_bytes, in segments
          MaxAccidents  \* bound: crashes, errors and power losses

ASSUME LogMonthsAssumption == LogMonths \subseteq Nat /\ LogMonths # {}
ASSUME LogBoundsAssumption == RawLimit \in Nat \ {0} /\ MaxAccidents \in Nat

\* A month is the present one or a later one; completed; thirty days ago; or behind
\* the three retained months.
Present == 0
Completed == 1
RawOver == 2
BehindFloor == 3

VARIABLES
  monthAge,  \* how far each month lies behind
  segment,   \* the file of a segment
  stamp,     \* the month in its final name
  writer,    \* run_service
  total,     \* the raw bytes it counts, in segments
  archive,   \* month -> its archive: there, under a second name too, its segments
  kept,      \* the same, as a power loss would leave it
  upkeep,    \* the maintenance process
  planned,   \* month -> the segments it has still to archive
  expiring,  \* the raw segments it has still to retire
  pins,      \* the months whose archive it pinned
  giveUp,    \* the archives it has still to remove
  accidents

streamVars  == <<segment, stamp, writer, total>>
planVars    == <<planned, expiring, pins, giveUp>>
serviceVars == <<monthAge, streamVars, archive, kept, upkeep, planVars, accidents>>

NoArchive == [there |-> FALSE, second |-> FALSE, of |-> {}]
LogArchives == [there : BOOLEAN, second : BOOLEAN, of : SUBSET Segments]

LogsTypeOK ==
  /\ monthAge \in [LogMonths -> Present..BehindFloor]
  /\ segment \in [Segments -> {"none", "current", "stamped", "linked", "closed",
                               "quarantined", "gone"}]
  /\ stamp \in [Segments -> LogMonths] /\ writer \in {"down", "up", "ending"}
  /\ total \in Nat
  /\ archive \in [LogMonths -> LogArchives] /\ kept \in [LogMonths -> LogArchives]
  /\ upkeep \in {"idle", "archiving", "linked", "published", "pinning", "retiring",
                 "unpinning", "removing"}
  /\ planned \in [LogMonths -> SUBSET Segments]
  /\ expiring \subseteq Segments /\ pins \subseteq LogMonths /\ giveUp \subseteq LogMonths
  /\ accidents \in 0..MaxAccidents

LogsInit ==
  /\ monthAge = [m \in LogMonths |-> Present]
  /\ segment = [s \in Segments |-> "none"]
  /\ stamp = [s \in Segments |-> CHOOSE m \in LogMonths : TRUE]
  /\ writer = "down" /\ total = 0
  /\ archive = [m \in LogMonths |-> NoArchive] /\ kept = archive
  /\ upkeep = "idle" /\ planned = [m \in LogMonths |-> {}]
  /\ expiring = {} /\ pins = {} /\ giveUp = {} /\ accidents = 0

MonthPasses(m) ==
  /\ monthAge[m] < BehindFloor
  /\ \A n \in LogMonths : n < m => monthAge[n] > monthAge[m]
  /\ monthAge' = [monthAge EXCEPT ![m] = @ + 1]
  /\ UNCHANGED <<streamVars, archive, kept, upkeep, planVars, accidents>>

-----------------------------------------------------------------------------
\* The month a clock shows.
ThisMonth == {m \in LogMonths : /\ monthAge[m] = Present
                                /\ \A n \in LogMonths : n < m => monthAge[n] # Present}

Raw == {s \in Segments : segment[s] \in {"current", "stamped", "linked", "closed"}}
Unclosed == {s \in Segments : segment[s] \in {"current", "stamped", "linked"}}

\* run_service begins: _Stream drops the other name of a segment whose close was
\* interrupted, or closes what was left open; the raw budget decides whether the
\* child starts.
StartService ==
  /\ writer = "down"
  /\ segment' = [s \in Segments |-> IF s \in Unclosed THEN "closed" ELSE segment[s]]
  /\ \E m \in ThisMonth :
       stamp' = [s \in Segments |-> IF segment[s] = "current" THEN m ELSE stamp[s]]
  /\ total' = Cardinality(Raw)
  /\ writer' = IF total' >= RawLimit THEN "down" ELSE "up"
  /\ UNCHANGED <<monthAge, archive, kept, upkeep, planVars, accidents>>

\* A chunk opens the next segment.  A budget that seems spent is counted again, with
\* what maintenance retired meanwhile; if it is spent, the child is stopped.
WriteChunk(s) ==
  /\ writer = "up" /\ segment[s] = "none" /\ Unclosed = {}
  /\ segment' = [segment EXCEPT ![s] = "current"]
  /\ total' = IF total + 1 >= RawLimit THEN Cardinality(Raw) + 1 ELSE total + 1
  /\ writer' = IF total' >= RawLimit THEN "ending" ELSE "up"
  /\ UNCHANGED <<monthAge, stamp, archive, kept, upkeep, planVars, accidents>>

\* _close_segment, on rotation and at the end: the time for the name, the link, and
\* the end of the other name.
Stamp(s) == /\ writer # "down" /\ segment[s] = "current"
            /\ segment' = [segment EXCEPT ![s] = "stamped"]
            /\ \E m \in ThisMonth : stamp' = [stamp EXCEPT ![s] = m]
            /\ UNCHANGED <<monthAge, writer, total, archive, kept, upkeep, planVars,
                           accidents>>
Link(s) == /\ writer # "down" /\ segment[s] \in {"stamped", "linked"}
           /\ segment' = [segment EXCEPT ![s] = IF @ = "stamped" THEN "linked" ELSE "closed"]
           /\ UNCHANGED <<monthAge, stamp, writer, total, archive, kept, upkeep, planVars,
                          accidents>>

\* A signal, the exit of the child or an error; the streams are closed.
EndService == /\ \/ writer = "up" /\ writer' = "ending"
                 \/ writer = "ending" /\ Unclosed = {} /\ writer' = "down"
              /\ UNCHANGED <<monthAge, segment, stamp, total, archive, kept, upkeep,
                             planVars, accidents>>

-----------------------------------------------------------------------------
Named(m) == {s \in Segments : segment[s] \in {"linked", "closed"} /\ stamp[s] = m}

\* maintain_service_logs plans, under its lock.  A file with two names, or a raw
\* segment its month's archive lacks, stops everything.
PlanLogs ==
  LET passed == {m \in LogMonths : monthAge[m] # Present}
      new == {m \in passed : ~archive[m].there /\ monthAge[m] # BehindFloor}
      due == {m \in passed : monthAge[m] >= RawOver /\ (archive[m].there \/ m \in new)} IN
  /\ upkeep = "idle"
  /\ \A s \in Segments : segment[s] # "linked"
  /\ \A m \in LogMonths : ~archive[m].second
  /\ \A m \in passed : archive[m].there => Named(m) \subseteq archive[m].of
  /\ planned' = [m \in LogMonths |-> IF m \in new THEN Named(m) ELSE {}]
  /\ expiring' = UNION {Named(m) : m \in due}
  /\ giveUp' = {m \in due : monthAge[m] = BehindFloor /\ archive[m].there}
  /\ pins' = {} /\ upkeep' = "archiving"
  /\ UNCHANGED <<monthAge, streamVars, archive, kept, accidents>>

\* _create_archive: the verified and synchronised temporary file is linked, loses
\* its other name, and the directory is synchronised; month after month.
CreateArchive(m) ==
  /\ planned[m] # {} /\ \A n \in LogMonths : planned[n] # {} => m <= n
  /\ \/ /\ upkeep = "archiving" /\ upkeep' = "linked"
        /\ archive' = [archive EXCEPT ![m] = [there |-> TRUE, second |-> TRUE,
                                              of |-> planned[m]]]
        /\ UNCHANGED <<kept, planned>>
     \/ /\ upkeep = "linked" /\ upkeep' = "published"
        /\ archive' = [archive EXCEPT ![m].second = FALSE]
        /\ UNCHANGED <<kept, planned>>
     \/ /\ upkeep = "published" /\ upkeep' = "archiving"
        /\ kept' = archive /\ planned' = [planned EXCEPT ![m] = {}]
        /\ UNCHANGED archive
  /\ UNCHANGED <<monthAge, streamVars, expiring, pins, giveUp, accidents>>

\* The archive of every month with expiring segments gets a second name.
PinArchive(m) ==
  /\ upkeep \in {"archiving", "pinning"} /\ \A n \in LogMonths : planned[n] = {}
  /\ m \in {stamp[s] : s \in expiring} \ pins
  /\ archive' = [archive EXCEPT ![m].second = TRUE]
  /\ pins' = pins \cup {m} /\ upkeep' = "pinning"
  /\ UNCHANGED <<monthAge, streamVars, kept, planned, expiring, giveUp, accidents>>

\* Mutant: archives found in place are taken to be durable.
AsBefore == kept
\* The directory, synchronised before the first segment is retired.
Synced == archive

SyncPins ==
  /\ upkeep \in {"archiving", "pinning"} /\ \A n \in LogMonths : planned[n] = {}
  /\ {stamp[s] : s \in expiring} \subseteq pins
  /\ kept' = Synced /\ upkeep' = "retiring"
  /\ UNCHANGED <<monthAge, streamVars, archive, planVars, accidents>>

\* _retire_raw: renamed, compared once more, and removed.
RetireRaw(s) ==
  /\ upkeep = "retiring" /\ s \in expiring
  /\ \A r \in expiring \ {s} : segment[r] # "quarantined"
  /\ \/ /\ segment[s] = "closed" /\ segment' = [segment EXCEPT ![s] = "quarantined"]
        /\ UNCHANGED expiring
     \/ /\ segment[s] = "quarantined" /\ segment' = [segment EXCEPT ![s] = "gone"]
        /\ expiring' = expiring \ {s}
  /\ UNCHANGED <<monthAge, stamp, writer, total, archive, kept, upkeep, planned, pins,
                 giveUp, accidents>>

\* The pins go; the directory is synchronised.
Unpin(m) ==
  /\ upkeep \in {"retiring", "unpinning"} /\ expiring = {} /\ m \in pins
  /\ archive' = [archive EXCEPT ![m].second = FALSE]
  /\ pins' = pins \ {m} /\ upkeep' = "unpinning"
  /\ UNCHANGED <<monthAge, streamVars, kept, planned, expiring, giveUp, accidents>>
SyncUnpinned ==
  /\ upkeep \in {"retiring", "unpinning"} /\ expiring = {} /\ pins = {}
  /\ kept' = archive /\ upkeep' = "removing"
  /\ UNCHANGED <<monthAge, streamVars, archive, planVars, accidents>>

\* The archives behind the retained months go, and the run ends.
RemoveArchive(m) ==
  /\ upkeep = "removing" /\ m \in giveUp
  /\ archive' = [archive EXCEPT ![m] = NoArchive] /\ giveUp' = giveUp \ {m}
  /\ UNCHANGED <<monthAge, streamVars, kept, upkeep, planned, expiring, pins, accidents>>
SyncRemoved == /\ upkeep = "removing" /\ giveUp = {}
               /\ kept' = archive /\ upkeep' = "idle"
               /\ UNCHANGED <<monthAge, streamVars, archive, planVars, accidents>>

-----------------------------------------------------------------------------
Accident == accidents < MaxAccidents /\ accidents' = accidents + 1
Forgotten == /\ upkeep' = "idle" /\ planned' = [m \in LogMonths |-> {}]
             /\ expiring' = {} /\ pins' = {} /\ giveUp' = {}

\* An error ends the run: a temporary name goes, a segment in quarantine comes back,
\* pins stay.  A crash leaves everything as it is.
UpkeepFails(crash) ==
  /\ Accident /\ upkeep # "idle" /\ Forgotten
  /\ archive' = [m \in LogMonths |-> IF ~crash /\ upkeep = "linked" /\ planned[m] # {}
                                     THEN [archive[m] EXCEPT !.second = FALSE]
                                     ELSE archive[m]]
  /\ segment' = [s \in Segments |-> IF ~crash /\ s \in expiring /\ segment[s] = "quarantined"
                                    THEN "closed" ELSE segment[s]]
  /\ UNCHANGED <<monthAge, stamp, writer, total, kept>>

\* The time taken for a name is lost with the process.
Unstamped == segment' = [s \in Segments |-> IF segment[s] = "stamped" THEN "current"
                                            ELSE segment[s]]
WriterCrashes == /\ Accident /\ writer # "down" /\ writer' = "down" /\ Unstamped
                 /\ UNCHANGED <<monthAge, stamp, total, archive, kept, upkeep, planVars>>

\* Of the changes of the archive directory since its last synchronisation, any may
\* be there.
LosesPower ==
  /\ Accident /\ Forgotten /\ writer' = "down" /\ Unstamped
  /\ \E there \in SUBSET LogMonths :
       archive' = [m \in LogMonths |-> IF m \in there THEN archive[m] ELSE kept[m]]
  /\ kept' = archive'
  /\ UNCHANGED <<monthAge, stamp, total>>

UpkeepStep == \/ PlanLogs \/ SyncPins \/ SyncUnpinned \/ SyncRemoved
              \/ \E m \in LogMonths : \/ CreateArchive(m) \/ PinArchive(m) \/ Unpin(m)
                                      \/ RemoveArchive(m)
              \/ \E s \in Segments : RetireRaw(s)

LogsNext == \/ \E m \in LogMonths : MonthPasses(m)
            \/ StartService \/ EndService
            \/ \E s \in Segments : WriteChunk(s) \/ Stamp(s) \/ Link(s)
            \/ UpkeepStep
            \/ \E crash \in BOOLEAN : UpkeepFails(crash)
            \/ WriterCrashes \/ LosesPower
LogsSpec == LogsInit /\ [][LogsNext]_serviceVars

-----------------------------------------------------------------------------
\* A segment that maintenance removed is in the archive of its month even after a
\* power loss, until that month is behind the retained ones: no crash or error
\* between publication, pin, retirement and removal loses output
\* (maintain_service_logs and all it calls).
NoSegmentLost ==
  \A s \in Segments : segment[s] = "gone" =>
    \/ kept[stamp[s]].there /\ s \in kept[stamp[s]].of
    \/ monthAge[stamp[s]] = BehindFloor
=============================================================================

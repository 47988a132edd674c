------------------------------ MODULE LogArchive ------------------------------
(***************************************************************************)
(* Monthly archives of the audit table (log_archive.py), run every hour by *)
(* maintenance_loop (log_maintenance.py) in a process of its own: every    *)
(* completed month is written once, linked under its final name, and only  *)
(* then are old housekeeping rows deleted.  A name survives a power loss   *)
(* only after a synchronisation of the directory.                          *)
(***************************************************************************)
EXTENDS Naturals, FiniteSets

CONSTANTS Rows, Months, MonthOf, Pinned,  \* as in AuditTrail
          Batch,       \* DELETE_BATCH
          Budget,      \* MAX_PRUNE_ROWS
          ScanLimit,   \* MAX_SCAN_ROWS and MAX_SCAN_BYTES, of the whole table
          MonthLimit,  \* MAX_ROWS and MAX_BYTES, of one archive
          ArchiveLimit, \* MAX_ARCHIVES
          MaxFailures  \* bound: errors, kills, power losses and spoilt files

ASSUME MonthsAssumption  == Months \subseteq Nat /\ Months # {}
ASSUME MonthOfAssumption == MonthOf \in [Rows -> Months]
ASSUME PinnedAssumption  == Pinned \subseteq Rows
ASSUME BatchAssumption    == Batch \in Nat \ {0}
ASSUME BudgetAssumption   == Budget \in Nat \ {0}
ASSUME LimitsAssumption   == {ScanLimit, MonthLimit, ArchiveLimit} \subseteq Nat
ASSUME FailuresAssumption == MaxFailures \in Nat

VARIABLES
  recorded,  \* the rows ever written
  age,       \* how far each month lies behind
  db,        \* the rows in audit_logs
  visible,   \* month -> its archive: the number of its names, and its rows
  stable,    \* the same, as a power loss would leave it
  unusable,  \* the months whose archive is there but does not pass _read_archive
  phase,     \* the maintenance process
  now,       \* the ages at the time it took for its clock
  live,      \* the rows of completed months it read
  todo,      \* the months still to visit
  month,     \* the month it is at
  doomed,    \* the rows it has still to delete
  pruned,    \* rows deleted in this run
  failures   \* faults so far

runVars     == <<now, live, todo, month, doomed, pruned>>
outsideVars == <<recorded, age, unusable>>
archiveVars == <<recorded, age, db, visible, stable, unusable, phase, now, live, todo,
                 month, doomed, pruned, failures>>

\* The promise, over the rows of the table and of the archives a power loss
\* leaves.
Stored == db \cup UNION {stable[m].rows : m \in Months}
Trail == INSTANCE AuditTrail WITH trail <- Stored

Absent == [names |-> 0, rows |-> {}]
Archives == [names : 0..2, rows : SUBSET Rows]

ArchiveTypeOK ==
  /\ recorded \subseteq Rows /\ db \subseteq recorded /\ unusable \subseteq Months
  /\ age \in [Months -> 0..3] /\ now \in [Months -> 0..3]
  /\ visible \in [Months -> Archives] /\ stable \in [Months -> Archives]
  /\ phase \in {"idle", "choosing", "linked", "published", "verified", "pruning",
                "retention", "expired"}
  /\ live \subseteq Rows /\ todo \subseteq Months /\ month \in Months
  /\ doomed \subseteq Rows /\ pruned \in Nat /\ failures \in 0..MaxFailures

ArchiveInit ==
  /\ recorded = {} /\ age = [m \in Months |-> Trail!Open] /\ db = {}
  /\ visible = [m \in Months |-> Absent] /\ stable = visible /\ unusable = {}
  /\ phase = "idle" /\ now = age /\ live = {} /\ todo = {}
  /\ month = CHOOSE m \in Months : TRUE
  /\ doomed = {} /\ pruned = 0 /\ failures = 0

-----------------------------------------------------------------------------
\* log_audit of any other component.
RecordRow(r) ==
  /\ Trail!Recordable(r)
  /\ recorded' = recorded \cup {r} /\ db' = db \cup {r}
  /\ UNCHANGED <<age, visible, stable, unusable, phase, runVars, failures>>

MonthAges(m) == /\ Trail!Ages(m)
                /\ UNCHANGED <<db, visible, stable, unusable, phase, runVars, failures>>

LiveOf(m)   == {r \in live : MonthOf[r] = m}
Listed(m)   == visible[m].names > 0
Prunable(m) == {r \in LiveOf(m) \ Pinned : now[m] >= Trail!Old}

\* Mutant: an archive left with its temporary name is not repaired.
LeftAsFound(m) == visible[m]

\* _recover_publication: an archive that still has its temporary name loses it, but
\* nothing is removed from one that does not pass.
Recovered(m) == [visible[m] EXCEPT !.names = IF @ = 2 /\ m \notin unusable THEN 1 ELSE @]
Recover == /\ visible' = [m \in Months |-> Recovered(m)]
           /\ stable' = IF visible' = visible THEN stable ELSE visible'

\* The rows of the completed months, and the months with a row or an archive.
CompletedRows == {r \in db : age[MonthOf[r]] # Trail!Open}
Found == {m \in Months : /\ age[m] # Trail!Open
                         /\ Listed(m) \/ \E r \in CompletedRows : MonthOf[r] = m}

\* _read_rows refuses a table beyond the scan limit, before the lock is taken; _run
\* refuses too many months, after the recovery.
Readable == Cardinality(db) <= ScanLimit
\* Mutant: the last archive that may be there is one too many.
BelowLimit == Cardinality(Found) < ArchiveLimit
Countable == Cardinality(Found) <= ArchiveLimit

\* run_archive under its lock.
StartRun ==
  /\ phase = "idle" /\ Readable /\ Countable
  /\ Recover
  /\ live' = CompletedRows /\ todo' = Found
  /\ now' = age /\ pruned' = 0 /\ phase' = "choosing"
  /\ UNCHANGED <<outsideVars, db, month, doomed, failures>>
RefuseRun ==
  /\ phase = "idle" /\ Readable /\ ~Countable
  /\ Recover
  /\ UNCHANGED <<outsideVars, db, phase, runVars, failures>>

\* An archive in place is good if it passes, has one name and holds every row read of
\* its month; a late row blocks the month.
Agrees(m) == /\ m \notin unusable /\ visible[m].names = 1
             /\ LiveOf(m) \subseteq visible[m].rows

\* One archive can hold the rows read of the month.
Fits(m) == Cardinality(LiveOf(m)) <= MonthLimit

\* The next month, in order.  An archive in place is verified; otherwise, if the rows
\* fit, _write_archive writes and synchronises a temporary file and links it.  A month
\* that is blocked is passed over.
TakeMonth ==
  /\ phase = "choosing"
  /\ \E m \in todo :
       /\ \A n \in todo : m <= n
       /\ month' = m /\ todo' = todo \ {m}
       /\ IF Listed(m) \/ ~Fits(m)
          THEN /\ phase' = IF Agrees(m) THEN "verified" ELSE "choosing"
               /\ UNCHANGED visible
          ELSE /\ visible' = [visible EXCEPT ![m] = [names |-> 2, rows |-> LiveOf(m)]]
               /\ phase' = "linked"
  /\ UNCHANGED <<outsideVars, db, stable, now, live, doomed, pruned, failures>>

\* The temporary name goes, the directory is synchronised, and the archive is read back.
DropTemporary ==
  /\ phase = "linked"
  /\ visible' = [visible EXCEPT ![month].names = 1]
  /\ phase' = "published"
  /\ UNCHANGED <<outsideVars, db, stable, runVars, failures>>
SyncDirectory ==
  /\ phase = "published"
  /\ stable' = visible
  /\ phase' = IF month \in unusable THEN "choosing" ELSE "verified"
  /\ UNCHANGED <<outsideVars, db, visible, runVars, failures>>

\* Mutant: an archive found in place is taken to be durable.
AsFound == stable
\* _durable_archive synchronises the directory before rows are deleted.
Durable == visible

\* _prune: the archive is read again and made durable; the old housekeeping rows
\* within the budget of the run are deleted.
StartPruning ==
  /\ phase = "verified"
  /\ IF Prunable(month) = {} \/ month \in unusable
     THEN /\ phase' = IF Prunable(month) = {} THEN "retention" ELSE "choosing"
          /\ UNCHANGED <<stable, doomed>>
     ELSE /\ stable' = Durable /\ phase' = "pruning"
          /\ \E d \in SUBSET Prunable(month) :
               /\ Cardinality(d) <= Budget - pruned
               /\ Cardinality(d) = Budget - pruned \/ d = Prunable(month)
               /\ doomed' = d
  /\ UNCHANGED <<outsideVars, db, visible, now, live, todo, month, pruned, failures>>

\* One transaction deletes a batch, unless the archive is no longer what it was, or the
\* last one is done.
PruneBatch ==
  /\ phase = "pruning"
  /\ IF doomed = {} \/ month \in unusable
     THEN /\ phase' = IF doomed = {} THEN "retention" ELSE "choosing"
          /\ UNCHANGED <<db, doomed, pruned>>
     ELSE /\ \E d \in SUBSET doomed :
               /\ Cardinality(d) = Batch \/ (d = doomed /\ Cardinality(d) < Batch)
               /\ db' = db \ d /\ doomed' = doomed \ d
               /\ pruned' = pruned + Cardinality(d \cap db)
          /\ UNCHANGED phase
  /\ UNCHANGED <<outsideVars, visible, stable, now, live, todo, month, failures>>

\* An archive may go if it is old enough, holds no evidence and still passes, and the
\* table has no row of its month: none it still had to prune, and none written since.
MayExpire(m) == /\ now[m] = Trail!Expiring /\ m \notin unusable
                /\ visible[m].rows \cap Pinned = {}
                /\ \A r \in db : MonthOf[r] # m

ExpireArchive ==
  /\ phase = "retention"
  /\ IF MayExpire(month)
     THEN /\ visible' = [visible EXCEPT ![month] = Absent]
          /\ phase' = "expired"
     ELSE phase' = "choosing" /\ UNCHANGED visible
  /\ UNCHANGED <<outsideVars, db, stable, runVars, failures>>
SyncExpiry ==
  /\ phase = "expired"
  /\ stable' = visible /\ phase' = "choosing"
  /\ UNCHANGED <<outsideVars, db, visible, runVars, failures>>

FinishRun == /\ phase = "choosing" /\ todo = {}
             /\ phase' = "idle"
             /\ UNCHANGED <<outsideVars, db, visible, stable, runVars, failures>>

-----------------------------------------------------------------------------
Fails == failures < MaxFailures /\ failures' = failures + 1

\* An error blocks the month and the run goes on; a temporary name is removed on
\* the way out, unless that fails too.
MonthFails ==
  /\ Fails /\ phase \notin {"idle", "choosing"}
  /\ phase' = "choosing"
  /\ \/ UNCHANGED visible
     \/ /\ phase = "linked"
        /\ visible' = [visible EXCEPT ![month].names = 1]
  /\ UNCHANGED <<outsideVars, db, stable, runVars>>

\* scheduled_run kills the process after five minutes, or it crashes.
Killed == /\ Fails /\ phase # "idle"
          /\ phase' = "idle"
          /\ UNCHANGED <<outsideVars, db, visible, stable, runVars>>

\* Power loss: of the changes of the directory since its last synchronisation,
\* any may be there.
PowerLoss ==
  /\ Fails
  /\ \E kept \in SUBSET Months :
       visible' = [m \in Months |-> IF m \in kept THEN visible[m] ELSE stable[m]]
  /\ stable' = visible' /\ phase' = "idle"
  /\ unusable' = {m \in unusable : visible'[m].names > 0}
  /\ UNCHANGED <<recorded, age, db, runVars>>

\* Somebody else changes the mode, the owner, the links or the content of an archive:
\* _read_archive and _assert_archive refuse it, and nothing here makes it good again.
\* The rows it was given count as kept: what the medium loses is not run_archive's doing.
Spoil(m) ==
  /\ Fails /\ Listed(m) /\ m \notin unusable
  /\ unusable' = unusable \cup {m}
  /\ UNCHANGED <<recorded, age, db, visible, stable, phase, runVars>>

RunStep == \/ TakeMonth \/ DropTemporary \/ SyncDirectory \/ StartPruning \/ PruneBatch
           \/ ExpireArchive \/ SyncExpiry \/ FinishRun

ArchiveNext == \/ \E r \in Rows : RecordRow(r)
               \/ \E m \in Months : MonthAges(m)
               \/ StartRun \/ RefuseRun \/ RunStep
               \/ MonthFails \/ Killed \/ PowerLoss \/ \E m \in Months : Spoil(m)

\* maintenance_loop starts a run every hour, and a run ends.
ArchiveFairness == WF_archiveVars(StartRun) /\ WF_archiveVars(RunStep)
ArchiveSpec == ArchiveInit /\ [][ArchiveNext]_archiveVars /\ ArchiveFairness

-----------------------------------------------------------------------------
\* The table and the durable archives together keep the promise of AuditTrail:
\* no crash, power loss, late row or failed month loses a row that retention does
\* not give up (run_archive and all it calls).
KeepsTrail == Trail!TrailSpec

\* A row of the month came after its archive.
Late(m) == \E r \in db : MonthOf[r] = m /\ Listed(m) /\ r \notin visible[m].rows

\* The month holds more than an archive may.
Crowded(m) == ~Listed(m) /\ Cardinality({r \in db : MonthOf[r] = m}) > MonthLimit

\* No run goes on: too many rows, or months with a row or an archive.
Overfull == \/ Cardinality(db) > ScanLimit
            \/ Cardinality({m \in Months : /\ age[m] # Trail!Open
                                           /\ Listed(m) \/ \E r \in db : MonthOf[r] = m})
                 > ArchiveLimit

\* "Corruption, late entries, unsafe paths or size bounds block the affected operation
\* with the original evidence preserved" (operations_guide.md:137).
Blocked(m) == Late(m) \/ m \in unusable \/ Crowded(m) \/ Overfull

\* Every old housekeeping row leaves the table in the end, in runs of bounded size that
\* fail, are killed and start again: one that stays for good is of a month that is
\* blocked for good, by what the guide names (maintenance_loop, run_archive, _prune).
AgedRowsLeave ==
  \A r \in Rows \ Pinned :
    <>[](r \in db /\ age[MonthOf[r]] >= Trail!Old) => <>[]Blocked(MonthOf[r])
=============================================================================

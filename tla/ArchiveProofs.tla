---------------------------- MODULE ArchiveProofs ----------------------------
(***************************************************************************)
(* LogArchive implements AuditTrail, for any rows, months and budgets and  *)
(* any number of faults.  The invariant says of every month what a run, a  *)
(* crash and a power loss may leave (Safe), and what the run knows of the  *)
(* month it is at (Running, Visiting).                                     *)
(***************************************************************************)
EXTENDS LogArchive, FiniteSetTheorems, TLAPS

\* Rows of an archive are of its month; an archive without a name has none.
Ordered ==
  \A m \in Months :
    /\ \A r \in visible[m].rows \cup stable[m].rows : MonthOf[r] = m
    /\ visible[m].names = 0 => visible[m].rows = {}
    /\ stable[m].names = 0 => stable[m].rows = {}

\* What a synchronisation adds is still in the table; what it takes away is still
\* there, or may be given up.
Safe ==
  \A m \in Months :
    /\ visible[m].rows \subseteq db \cup stable[m].rows
    /\ stable[m].rows \subseteq visible[m].rows \cup db \cup Trail!Expirable

\* The rows a run read of the months still to visit are in the table.
Running ==
  phase # "idle" => /\ \A m \in Months : now[m] <= age[m]
                    /\ \A m \in todo : LiveOf(m) \subseteq db

\* Of the month at hand, the rows it read are in the archive, and those it deletes are
\* in the durable one.
Visiting ==
  /\ phase \notin {"idle", "choosing"} => month \notin todo
  /\ phase \in {"linked", "published", "verified"} => LiveOf(month) \subseteq visible[month].rows
  /\ phase = "pruning" => doomed \subseteq visible[month].rows \cap stable[month].rows

Finite == live \cup doomed \subseteq recorded /\ IsFiniteSet(recorded)

ArchiveInv == ArchiveTypeOK /\ Ordered /\ Safe /\ Running /\ Visiting /\ Finite

LEMMA InStored ==
  \A r : r \in Stored <=> r \in db \/ \E m \in Months : r \in stable[m].rows
BY DEF Stored

LEMMA InStoredNext ==
  \A r : r \in Stored' <=> r \in db' \/ \E m \in Months : r \in stable'[m].rows
BY DEF Stored

LEMMA ArchiveStarts == ArchiveInit => ArchiveInv
<1> SUFFICES ASSUME ArchiveInit PROVE ArchiveInv
  OBVIOUS
<1> USE DEF ArchiveInit, Absent
<1>1. ArchiveTypeOK
  <2>1. month \in Months
    BY MonthsAssumption
  <2>2. QED
    BY <2>1, FailuresAssumption DEF ArchiveTypeOK, Archives, Trail!Open
<1>2. Ordered /\ Safe /\ Running /\ Visiting
  BY DEF Ordered, Safe, Running, Visiting
<1>3. Finite
  BY FS_EmptySet DEF Finite
<1>4. QED
  BY <1>1, <1>2, <1>3 DEF ArchiveInv

-----------------------------------------------------------------------------
(***************************************************************************)
(* The steps of the archive as steps of the trail                          *)
(***************************************************************************)
TrailStep == [Trail!TrailNext]_(Trail!trailVars)

\* Nothing that can be read after a power loss changes.
LEMMA QuietStep ==
  ASSUME UNCHANGED <<recorded, age, Stored>>
  PROVE  TrailStep
BY DEF TrailStep, Trail!trailVars

\* Of every month the archive that was visible, or stays.
LEMMA SyncStep ==
  ASSUME ArchiveInv, UNCHANGED <<recorded, age, db>>,
         \A m \in Months : stable'[m].rows \in {visible[m].rows, stable[m].rows}
  PROVE  TrailStep
<1> DEFINE gone == Stored \ Stored'
<1>1. Stored' \subseteq Stored
  BY InStored, InStoredNext DEF ArchiveInv, Safe
<1>2. gone \subseteq Trail!Expirable
  BY InStored, InStoredNext DEF ArchiveInv, Safe
<1>3. Stored' = Stored \ gone
  BY <1>1
<1>4. Trail!Expire
  BY <1>2, <1>3 DEF Trail!Expire
<1>5. QED
  BY <1>4 DEF TrailStep, Trail!TrailNext

LEMMA RecordIsRecord ==
  ASSUME ArchiveInv, NEW r \in Rows, RecordRow(r)
  PROVE  TrailStep
<1>1. Stored' = Stored \cup {r}
  BY InStored, InStoredNext DEF RecordRow
<1>2. Trail!Record(r)
  BY <1>1 DEF RecordRow, Trail!Record
<1>3. QED
  BY <1>2 DEF TrailStep, Trail!TrailNext

LEMMA AgesIsAge ==
  ASSUME NEW m \in Months, MonthAges(m)
  PROVE  TrailStep
<1>1. Stored' = Stored
  BY DEF MonthAges, Stored
<1>2. Trail!Age(m)
  BY <1>1 DEF MonthAges, Trail!Age
<1>3. QED
  BY <1>2 DEF TrailStep, Trail!TrailNext

-----------------------------------------------------------------------------
(***************************************************************************)
(* The invariant                                                           *)
(***************************************************************************)
LEMMA RecordKeeps ==
  ASSUME ArchiveInv, NEW r \in Rows, RecordRow(r)
  PROVE  ArchiveInv'
<1> USE DEF ArchiveInv, RecordRow, runVars
<1>1. ArchiveTypeOK'
  BY DEF ArchiveTypeOK
<1>2. Ordered'
  BY DEF Ordered
<1>3. Safe'
  BY DEF Safe, Trail!Expirable
<1>4. Running' /\ Visiting'
  BY DEF Running, Visiting, LiveOf
<1>5. Finite'
  BY FS_AddElement DEF Finite
<1>6. QED
  BY <1>1, <1>2, <1>3, <1>4, <1>5

LEMMA AgeKeeps ==
  ASSUME ArchiveInv, NEW m \in Months, MonthAges(m)
  PROVE  ArchiveInv'
<1> USE DEF ArchiveInv, MonthAges, runVars, Trail!Ages, Trail!Expiring, ArchiveTypeOK
<1>1. ArchiveTypeOK'
  OBVIOUS
<1>2. \A n \in Months : age[n] <= age'[n]
  OBVIOUS
<1>3. Trail!Expirable \subseteq (Trail!Expirable)'
  BY <1>2, MonthOfAssumption DEF Trail!Expirable
<1>4. Ordered' /\ Finite'
  BY DEF Ordered, Finite
<1>5. Safe'
  BY <1>3 DEF Safe
<1>6. Running' /\ Visiting'
  BY <1>2 DEF Running, Visiting, LiveOf
<1>7. QED
  BY <1>1, <1>4, <1>5, <1>6

LEMMA RecoverNames ==
  ASSUME ArchiveInv, Recover
  PROVE  /\ \A m \in Months : /\ visible'[m].rows = visible[m].rows
                              /\ visible'[m].names = 0 => visible[m].names = 0
         /\ visible' \in [Months -> Archives]
         /\ stable' = stable \/ stable' = visible'
<1> USE DEF ArchiveInv, ArchiveTypeOK
<1>1. \A m \in Months : /\ visible[m] \in Archives /\ Recovered(m) \in Archives
                        /\ Recovered(m).rows = visible[m].rows
                        /\ Recovered(m).names = 0 => visible[m].names = 0
  BY DEF Recovered, Archives
<1>2. QED
  BY <1>1 DEF Recover

\* Only names go in a run that is refused.
LEMMA RefuseKeeps == ArchiveInv /\ RefuseRun => ArchiveInv' /\ TrailStep
<1> SUFFICES ASSUME ArchiveInv, RefuseRun PROVE ArchiveInv' /\ TrailStep
  OBVIOUS
<1> USE DEF ArchiveInv
<1>1. /\ UNCHANGED <<recorded, age, unusable, db, phase, now, live, todo, month, doomed,
                     pruned, failures>>
      /\ phase = "idle"
  BY DEF RefuseRun, outsideVars, runVars
<1>2. /\ \A m \in Months : /\ visible'[m].rows = visible[m].rows
                           /\ visible'[m].names = 0 => visible[m].names = 0
      /\ visible' \in [Months -> Archives]
      /\ stable' = stable \/ stable' = visible'
  BY RecoverNames DEF RefuseRun
<1>3. ArchiveTypeOK'
  BY <1>1, <1>2 DEF ArchiveTypeOK
<1>4. Ordered' /\ Safe'
  BY <1>1, <1>2 DEF Ordered, Safe, Trail!Expirable
<1>5. Running' /\ Visiting' /\ Finite'
  BY <1>1 DEF Running, Visiting, Finite
<1>6. TrailStep
  BY <1>1, <1>2, SyncStep
<1>7. QED
  BY <1>3, <1>4, <1>5, <1>6

LEMMA StartKeeps == ArchiveInv /\ StartRun => ArchiveInv' /\ TrailStep
<1> SUFFICES ASSUME ArchiveInv, StartRun PROVE ArchiveInv' /\ TrailStep
  OBVIOUS
<1> USE DEF ArchiveInv
<1>1. UNCHANGED <<recorded, age, unusable, db, month, doomed, failures>>
  BY DEF StartRun, outsideVars
<1>2. /\ \A m \in Months : /\ visible'[m].rows = visible[m].rows
                           /\ visible'[m].names = 0 => visible[m].names = 0
      /\ visible' \in [Months -> Archives]
      /\ stable' = stable \/ stable' = visible'
  BY RecoverNames DEF StartRun
<1>4. phase' = "choosing" /\ now' = age /\ pruned' = 0
      /\ live' = {r \in db : age[MonthOf[r]] # Trail!Open} /\ todo' \subseteq Months
  BY DEF StartRun, CompletedRows, Found
<1>5. ArchiveTypeOK'
  BY <1>1, <1>2, <1>4 DEF ArchiveTypeOK
<1>6. Ordered' /\ Safe'
  BY <1>1, <1>2 DEF Ordered, Safe, Trail!Expirable
<1>7. Running' /\ Visiting'
  BY <1>1, <1>4 DEF Running, Visiting, LiveOf, ArchiveTypeOK
<1>8. Finite'
  BY <1>1, <1>4 DEF Finite, ArchiveTypeOK
<1>9. TrailStep
  BY <1>1, <1>2, SyncStep
<1>10. QED
  BY <1>5, <1>6, <1>7, <1>8, <1>9

LEMMA TakeKeeps == ArchiveInv /\ TakeMonth => ArchiveInv' /\ TrailStep
<1> SUFFICES ASSUME ArchiveInv, TakeMonth PROVE ArchiveInv' /\ TrailStep
  OBVIOUS
<1> USE DEF ArchiveInv
<1>1. UNCHANGED <<recorded, age, unusable, db, stable, now, live, doomed, pruned, failures>>
      /\ phase = "choosing"
  BY DEF TakeMonth, outsideVars
<1>2. TrailStep
  BY <1>1, QuietStep DEF Stored
<1>3. PICK m \in todo :
        /\ month' = m /\ todo' = todo \ {m}
        /\ IF Listed(m) \/ ~Fits(m)
           THEN /\ phase' = IF Agrees(m) THEN "verified" ELSE "choosing"
                /\ UNCHANGED visible
           ELSE /\ visible' = [visible EXCEPT ![m] = [names |-> 2, rows |-> LiveOf(m)]]
                /\ phase' = "linked"
  BY DEF TakeMonth
<1>4. m \in Months /\ LiveOf(m) \subseteq Rows /\ LiveOf(m) \subseteq db
      /\ \A r \in LiveOf(m) : MonthOf[r] = m
  BY <1>1 DEF ArchiveTypeOK, Running, LiveOf
<1>5. CASE Listed(m) \/ ~Fits(m)
  BY <1>1, <1>2, <1>3, <1>4, <1>5
  DEF ArchiveTypeOK, Ordered, Safe, Trail!Expirable, Running, Visiting, Finite, LiveOf, Agrees
<1>6. CASE ~Listed(m) /\ Fits(m)
  <2>1. visible' = [visible EXCEPT ![m] = [names |-> 2, rows |-> LiveOf(m)]] /\ phase' = "linked"
    BY <1>3, <1>6
  <2>2. [names |-> 2, rows |-> LiveOf(m)] \in Archives
    BY <1>4 DEF Archives
  <2>3. visible' \in [Months -> Archives]
    BY <2>1, <2>2 DEF ArchiveTypeOK
  <2>4. \A n \in Months : IF n = m THEN visible'[n].names = 2 /\ visible'[n].rows = LiveOf(m)
                                    ELSE visible'[n] = visible[n]
    BY <2>1, <1>4 DEF ArchiveTypeOK
  <2>5. visible[m].rows = {}
    BY <1>4, <1>6 DEF Listed, Ordered, ArchiveTypeOK, Archives
  <2>6. ArchiveTypeOK'
    BY <1>1, <1>3, <2>1, <2>3 DEF ArchiveTypeOK
  <2>7. Ordered'
    BY <1>1, <1>4, <2>4 DEF Ordered
  <2>8. Safe'
    BY <1>1, <1>4, <2>4, <2>5 DEF Safe, Trail!Expirable
  <2>9. Running' /\ Visiting' /\ Finite'
    BY <1>1, <1>3, <1>4, <2>1, <2>4 DEF Running, Visiting, Finite, LiveOf
  <2>10. QED
    BY <1>2, <2>6, <2>7, <2>8, <2>9
<1>7. QED
  BY <1>5, <1>6

\* Names appear and go one at a time; no row moves.
LEMMA NameKeeps ==
  ASSUME ArchiveInv, UNCHANGED <<recorded, age, db, stable, runVars>>, failures' \in 0..MaxFailures,
         unusable' \subseteq Months, phase # "idle", phase = "linked" \/ UNCHANGED visible,
         \/ UNCHANGED visible
         \/ visible' = [visible EXCEPT ![month].names = 1],
         \/ phase' \in {"idle", "choosing"}
         \/ phase = "linked" /\ phase' = "published"
         \/ phase = "retention" /\ phase' = "choosing"
  PROVE  ArchiveInv' /\ TrailStep
<1> USE DEF ArchiveInv, runVars
<1>1. \A m \in Months : /\ visible'[m] \in Archives /\ visible'[m].rows = visible[m].rows
                        /\ visible'[m].names = 0 => visible[m].names = 0
  BY DEF ArchiveTypeOK, Archives
<1>2. ArchiveTypeOK'
  BY <1>1 DEF ArchiveTypeOK
<1>3. Ordered' /\ Safe'
  BY <1>1 DEF Ordered, Safe, Trail!Expirable
<1>4. Running' /\ Visiting' /\ Finite'
  BY <1>1 DEF Running, Visiting, Finite, LiveOf, ArchiveTypeOK
<1>5. TrailStep
  BY QuietStep DEF Stored
<1>6. QED
  BY <1>2, <1>3, <1>4, <1>5

\* The directory is synchronised.
LEMMA SyncKeeps ==
  ASSUME ArchiveInv, UNCHANGED <<recorded, age, db, visible, failures, now, live, todo, month, pruned>>,
         stable' = visible, UNCHANGED unusable, UNCHANGED doomed, phase # "pruning",
         phase # "idle", phase' \in {"verified", "choosing"}, phase' = "verified" => phase = "published"
  PROVE  ArchiveInv' /\ TrailStep
<1> USE DEF ArchiveInv
<1>1. ArchiveTypeOK'
  BY DEF ArchiveTypeOK
<1>2. Ordered' /\ Safe'
  BY DEF Ordered, Safe
<1>3. Running' /\ Visiting' /\ Finite'
  BY DEF Running, Visiting, Finite, LiveOf
<1>4. TrailStep
  BY SyncStep
<1>5. QED
  BY <1>1, <1>2, <1>3, <1>4

LEMMA StartPruningKeeps == ArchiveInv /\ StartPruning => ArchiveInv' /\ TrailStep
<1> SUFFICES ASSUME ArchiveInv, StartPruning PROVE ArchiveInv' /\ TrailStep
  OBVIOUS
<1> USE DEF ArchiveInv
<1>1. /\ UNCHANGED <<recorded, age, unusable, db, visible, now, live, todo, month, pruned,
                     failures>>
      /\ phase = "verified"
  BY DEF StartPruning, outsideVars
<1>2. CASE Prunable(month) = {} \/ month \in unusable
  <2>1. phase' \in {"retention", "choosing"} /\ UNCHANGED <<stable, doomed>>
    BY <1>2 DEF StartPruning
  <2>2. ArchiveTypeOK' /\ Ordered' /\ Safe'
    BY <1>1, <2>1 DEF ArchiveTypeOK, Ordered, Safe, Trail!Expirable
  <2>3. Running' /\ Visiting' /\ Finite'
    BY <1>1, <2>1 DEF Running, Visiting, Finite, LiveOf
  <2>4. TrailStep
    BY <1>1, <2>1, QuietStep DEF Stored
  <2>5. QED
    BY <2>2, <2>3, <2>4
<1>3. CASE ~(Prunable(month) = {} \/ month \in unusable)
  <2>1. stable' = visible /\ phase' = "pruning" /\ doomed' \subseteq Prunable(month)
    BY <1>3 DEF StartPruning, Durable
  <2>2. Prunable(month) \subseteq LiveOf(month) /\ LiveOf(month) \subseteq live
    BY DEF Prunable, LiveOf
  <2>3. ArchiveTypeOK' /\ Ordered' /\ Safe'
    BY <1>1, <2>1, <2>2 DEF ArchiveTypeOK, Ordered, Safe
  <2>4. Running' /\ Finite'
    BY <1>1, <2>1, <2>2 DEF Running, Finite, LiveOf
  <2>5. Visiting'
    BY <1>1, <2>1, <2>2 DEF Visiting
  <2>6. TrailStep
    BY <1>1, <2>1, SyncStep
  <2>7. QED
    BY <2>3, <2>4, <2>5, <2>6
<1>4. QED
  BY <1>2, <1>3

LEMMA PruneKeeps == ArchiveInv /\ PruneBatch => ArchiveInv' /\ TrailStep
<1> SUFFICES ASSUME ArchiveInv, PruneBatch PROVE ArchiveInv' /\ TrailStep
  OBVIOUS
<1> USE DEF ArchiveInv
<1>1. /\ UNCHANGED <<recorded, age, unusable, visible, stable, now, live, todo, month,
                     failures>>
      /\ phase = "pruning"
  BY DEF PruneBatch, outsideVars
<1>2. CASE doomed = {} \/ month \in unusable
  <2>1. phase' \in {"retention", "choosing"} /\ UNCHANGED <<db, doomed, pruned>>
    BY <1>2 DEF PruneBatch
  <2>2. ArchiveTypeOK' /\ Ordered' /\ Safe'
    BY <1>1, <2>1 DEF ArchiveTypeOK, Ordered, Safe, Trail!Expirable
  <2>3. Running' /\ Visiting' /\ Finite'
    BY <1>1, <2>1 DEF Running, Visiting, Finite, LiveOf
  <2>4. TrailStep
    BY <1>1, <2>1, QuietStep DEF Stored
  <2>5. QED
    BY <2>2, <2>3, <2>4
<1>3. CASE ~(doomed = {} \/ month \in unusable)
  <2>1. PICK d \in SUBSET doomed : /\ db' = db \ d /\ doomed' = doomed \ d
                                  /\ pruned' = pruned + Cardinality(d \cap db)
    BY <1>3 DEF PruneBatch
  <2>2. UNCHANGED phase
    BY <1>3 DEF PruneBatch
  <2>3. month \in Months \ todo /\ \A r \in d : /\ r \in visible[month].rows
                                               /\ r \in stable[month].rows /\ MonthOf[r] = month
    BY <1>1, <2>1 DEF Visiting, Ordered, ArchiveTypeOK
  <2>4. Cardinality(d \cap db) \in Nat
    <3>1. IsFiniteSet(d \cap db)
      BY <2>1, FS_Subset DEF Finite
    <3>2. QED
      BY <3>1, FS_CardinalityType
  <2>5. ArchiveTypeOK'
    BY <1>1, <2>1, <2>2, <2>4 DEF ArchiveTypeOK
  <2>6. Ordered'
    BY <1>1 DEF Ordered
  <2>7. Safe'
    BY <1>1, <2>1, <2>3 DEF Safe, Ordered, Trail!Expirable
  <2>8. Running'
    BY <1>1, <2>1, <2>2, <2>3 DEF Running, LiveOf
  <2>9. Visiting' /\ Finite'
    BY <1>1, <2>1, <2>2 DEF Visiting, Finite
  <2>10. Stored' = Stored
    BY <1>1, <2>1, <2>3, InStored, InStoredNext
  <2>11. QED
    BY <1>1, <2>5, <2>6, <2>7, <2>8, <2>9, <2>10, QuietStep
<1>4. QED
  BY <1>2, <1>3

LEMMA ExpireKeeps == ArchiveInv /\ ExpireArchive => ArchiveInv' /\ TrailStep
<1> SUFFICES ASSUME ArchiveInv, ExpireArchive PROVE ArchiveInv' /\ TrailStep
  OBVIOUS
<1> USE DEF ArchiveInv
<1>1. /\ UNCHANGED <<recorded, age, unusable, db, stable, now, live, todo, month, doomed,
                     pruned, failures>>
      /\ phase = "retention"
  BY DEF ExpireArchive, outsideVars, runVars
<1>2. CASE ~MayExpire(month)
  <2>1. phase' = "choosing" /\ UNCHANGED visible
    BY <1>2 DEF ExpireArchive
  <2>2. QED
    BY <1>1, <2>1, NameKeeps DEF runVars, ArchiveTypeOK
<1>3. CASE MayExpire(month)
  <2>1. visible' = [visible EXCEPT ![month] = Absent] /\ phase' = "expired"
    BY <1>3 DEF ExpireArchive
  <2>2. visible[month].rows \subseteq Trail!Expirable
    BY <1>1, <1>3, MonthOfAssumption
    DEF MayExpire, Running, Ordered, ArchiveTypeOK, Archives, Trail!Expirable, Trail!Expiring
  <2>3. \A m \in Months : IF m = month THEN visible'[m] = Absent ELSE visible'[m] = visible[m]
    BY <2>1 DEF ArchiveTypeOK
  <2>4. ArchiveTypeOK'
    BY <1>1, <2>1 DEF ArchiveTypeOK, Absent, Archives
  <2>5. Ordered'
    BY <1>1, <2>3 DEF Ordered, Absent
  <2>6. Safe'
    BY <1>1, <2>2, <2>3 DEF Safe, Absent, Trail!Expirable
  <2>7. Running' /\ Visiting' /\ Finite'
    BY <1>1, <2>1 DEF Running, Visiting, Finite, LiveOf
  <2>8. QED
    BY <1>1, <2>4, <2>5, <2>6, <2>7, QuietStep DEF Stored
<1>4. QED
  BY <1>2, <1>3

\* After a power loss both views agree: every month is as one of them had it.
LEMMA PowerLossKeeps == ArchiveInv /\ PowerLoss => ArchiveInv' /\ TrailStep
<1> SUFFICES ASSUME ArchiveInv, PowerLoss PROVE ArchiveInv' /\ TrailStep
  OBVIOUS
<1> USE DEF ArchiveInv
<1>1. /\ UNCHANGED <<recorded, age, db, now, live, todo, month, doomed, pruned>>
      /\ phase' = "idle" /\ stable' = visible' /\ failures' \in 0..MaxFailures
      /\ unusable' \subseteq Months
  BY FailuresAssumption DEF PowerLoss, Fails, runVars, ArchiveTypeOK
<1>2. PICK kept \in SUBSET Months :
        visible' = [m \in Months |-> IF m \in kept THEN visible[m] ELSE stable[m]]
  BY DEF PowerLoss
<1>3. \A m \in Months : visible'[m] \in {visible[m], stable[m]}
  BY <1>2
<1>4. visible' \in [Months -> Archives]
  BY <1>2 DEF ArchiveTypeOK
<1>5. ArchiveTypeOK'
  BY <1>1, <1>4 DEF ArchiveTypeOK
<1>6. Ordered' /\ Safe'
  BY <1>1, <1>3 DEF Ordered, Safe
<1>7. Running' /\ Visiting' /\ Finite'
  BY <1>1 DEF Running, Visiting, Finite
<1>8. TrailStep
  BY <1>1, <1>3, SyncStep
<1>9. QED
  BY <1>5, <1>6, <1>7, <1>8

\* An archive that no longer passes keeps its place and its rows.
LEMMA SpoilKeeps == ASSUME ArchiveInv, NEW m \in Months, Spoil(m) PROVE ArchiveInv' /\ TrailStep
<1> USE DEF ArchiveInv
<1>1. /\ UNCHANGED <<recorded, age, db, visible, stable, phase, now, live, todo, month, doomed,
                     pruned>>
      /\ failures' \in 0..MaxFailures /\ unusable' \subseteq Months
  BY FailuresAssumption DEF Spoil, Fails, runVars, ArchiveTypeOK
<1>2. ArchiveTypeOK' /\ Ordered' /\ Safe'
  BY <1>1 DEF ArchiveTypeOK, Ordered, Safe, Trail!Expirable
<1>3. Running' /\ Visiting' /\ Finite'
  BY <1>1 DEF Running, Visiting, Finite, LiveOf
<1>4. TrailStep
  BY <1>1, QuietStep DEF Stored
<1>5. QED
  BY <1>2, <1>3, <1>4

\* Every step of a run, every fault and every new row keeps the invariant, and is a step of
\* the trail or none.
LEMMA StepKeeps == ArchiveInv /\ ArchiveNext => ArchiveInv' /\ TrailStep
<1> SUFFICES ASSUME ArchiveInv, ArchiveNext PROVE ArchiveInv' /\ TrailStep
  OBVIOUS
<1>1. CASE \E r \in Rows : RecordRow(r)
  BY <1>1, RecordKeeps, RecordIsRecord
<1>2. CASE \E m \in Months : MonthAges(m)
  BY <1>2, AgeKeeps, AgesIsAge
<1>3. CASE StartRun \/ RefuseRun
  BY <1>3, StartKeeps, RefuseKeeps
<1>4. CASE RunStep
  <2>1. CASE DropTemporary \/ FinishRun
    BY <2>1, NameKeeps DEF DropTemporary, FinishRun, outsideVars, ArchiveInv, ArchiveTypeOK
  <2>2. CASE SyncDirectory \/ SyncExpiry
    BY <2>2, SyncKeeps DEF SyncDirectory, SyncExpiry, outsideVars, runVars
  <2>3. QED
    BY <1>4, <2>1, <2>2, TakeKeeps, StartPruningKeeps, PruneKeeps, ExpireKeeps DEF RunStep
<1>5. CASE MonthFails \/ Killed
  BY <1>5, NameKeeps, FailuresAssumption
  DEF MonthFails, Killed, Fails, outsideVars, ArchiveInv, ArchiveTypeOK
<1>6. CASE PowerLoss \/ \E m \in Months : Spoil(m)
  BY <1>6, PowerLossKeeps, SpoilKeeps
<1>7. QED
  BY <1>1, <1>2, <1>3, <1>4, <1>5, <1>6 DEF ArchiveNext

LEMMA StutterKeeps ==
  ArchiveInv /\ UNCHANGED archiveVars => ArchiveInv' /\ TrailStep
<1> SUFFICES ASSUME ArchiveInv, UNCHANGED archiveVars PROVE ArchiveInv' /\ TrailStep
  OBVIOUS
<1> USE DEF archiveVars
<1>1. ArchiveInv'
  BY DEF ArchiveInv, ArchiveTypeOK, Ordered, Safe, Running, Visiting, Finite, LiveOf, Trail!Expirable
<1>2. TrailStep
  BY QuietStep DEF Stored
<1>3. QED
  BY <1>1, <1>2

\* What every run, crash and power loss leaves behind (the inductive invariant).
THEOREM ArchiveInvariant == ArchiveSpec => []ArchiveInv
<1>1. ArchiveInv /\ [ArchiveNext]_archiveVars => ArchiveInv'
  BY StepKeeps, StutterKeeps
<1>2. QED
  BY <1>1, ArchiveStarts, PTL DEF ArchiveSpec

(***************************************************************************)
(* The table and the archives that a power loss leaves keep every recorded *)
(* row but the housekeeping that retention may give up: run_archive        *)
(* implements the promise of AuditTrail through crashes, power losses,     *)
(* failed months and rows that come late.                                  *)
(***************************************************************************)
THEOREM KeepsTrailCorrect == ArchiveSpec => KeepsTrail
<1>1. ArchiveInit => Trail!TrailInit
  BY DEF ArchiveInit, Trail!TrailInit, Stored, Absent, Trail!Open
<1>2. ArchiveInv /\ [ArchiveNext]_archiveVars => [Trail!TrailNext]_(Trail!trailVars)
  BY StepKeeps, StutterKeeps DEF TrailStep
<1>3. QED
  BY <1>1, <1>2, ArchiveInvariant, PTL DEF ArchiveSpec, KeepsTrail, Trail!TrailSpec
===============================================================================

------------------------------ MODULE AuditTrail ------------------------------
(***************************************************************************)
(* What audit retention promises of the trail, wherever its rows are kept: *)
(* a recorded row stays, unless it is housekeeping of a month that lies    *)
(* behind the twelve retained ones.                                        *)
(***************************************************************************)
EXTENDS Naturals

CONSTANTS Rows,      \* audit_logs rows
          Months,    \* calendar months, numbered in order
          MonthOf,   \* [Rows -> Months], from created_at in KST
          Pinned     \* the rows that are workflow evidence, not housekeeping

VARIABLES trail,    \* the rows that exist
          recorded, \* the rows ever written
          age       \* how far each month lies behind

trailVars == <<trail, recorded, age>>

\* The current month or a later one; completed; all of it more than ninety days
\* ago; before the preceding twelve months.
Open == 0
Closed == 1
Old == 2
Expiring == 3

TrailInit == trail = {} /\ recorded = {} /\ age = [m \in Months |-> Open]

\* log_audit: a row carries the time its writer read, so that it may come late.
\* Months open one after another.
Recordable(r) == /\ r \notin recorded
                 /\ \A n \in Months : n < MonthOf[r] => age[n] # Open

Record(r) == /\ Recordable(r)
             /\ recorded' = recorded \cup {r}
             /\ trail' = trail \cup {r}
             /\ UNCHANGED age

\* Time passes, for the earlier months first.
Ages(m) == /\ age[m] < Expiring
           /\ \A n \in Months : n < m => age[n] > age[m]
           /\ age' = [age EXCEPT ![m] = @ + 1]
           /\ UNCHANGED recorded

Age(m) == Ages(m) /\ UNCHANGED trail

Expirable == {r \in Rows \ Pinned : age[MonthOf[r]] = Expiring}

\* Retention gives up any of the rows it may.
Expire == /\ \E gone \in SUBSET Expirable : trail' = trail \ gone
          /\ UNCHANGED <<recorded, age>>

TrailNext == \/ \E r \in Rows : Record(r)
             \/ \E m \in Months : Age(m)
             \/ Expire
TrailSpec == TrailInit /\ [][TrailNext]_trailVars
=============================================================================

------------------------------ MODULE Capacity ------------------------------
(***************************************************************************)
(* The Capacity context: one profile, with the units that are available    *)
(* and those that are allocated, their totals, and snapshots of the totals *)
(* (src/capacity/service.ts).                                              *)
(*                                                                         *)
(* A command is one step, as in Organization.  Units are whole here, and a *)
(* period or an allocation that is not there has none; resources, works    *)
(* and instants are left out.                                              *)
(***************************************************************************)
EXTENDS Integers, FiniteSetsExt

CONSTANTS
  Period, Allocation, CapacitySnapshot,  \* ids
  MaxUnits                               \* bound on units

CapacityAssumption == IsFiniteSet(Period) /\ IsFiniteSet(Allocation) /\ MaxUnits \in Nat

Nothing == [availableUnits |-> 0, allocatedUnits |-> 0, remainingUnits |-> 0]

VARIABLES
  capacity,  \* the snapshot of CapacityProfile
  captured   \* history: availability and allocations when a snapshot was taken

TypeOK ==
  /\ capacity.status \in {"ABSENT", "ACTIVE", "ARCHIVED"}
  /\ capacity.lifecycleEpoch \in 0 .. 1
  /\ capacity.availability \in [Period -> 0 .. MaxUnits]
  /\ capacity.allocations \in [Allocation -> 0 .. MaxUnits]
  /\ DOMAIN capacity.snapshots \subseteq CapacitySnapshot
  /\ DOMAIN captured = DOMAIN capacity.snapshots

Init ==
  /\ capacity = [status |-> "ABSENT", lifecycleEpoch |-> 0,
                 availability |-> [p \in Period |-> 0], allocations |-> [a \in Allocation |-> 0],
                 totals |-> Nothing, snapshots |-> <<>>]
  /\ captured = <<>>

-----------------------------------------------------------------------------

Loadable == capacity.status = "ACTIVE"

\* Periods that overlap count twice; more may be allocated than is available.
totals(availability, allocations) ==
  LET available == MapThenSumSet(LAMBDA p : availability[p], Period)
      allocated == MapThenSumSet(LAMBDA a : allocations[a], Allocation)
  IN [availableUnits |-> available, allocatedUnits |-> allocated,
      remainingUnits |-> available - allocated]

\* #calculate()
calculate(profile) ==
  [profile EXCEPT !.totals = totals(profile.availability, profile.allocations)]

Stores(next) == capacity' = next /\ UNCHANGED captured

CreateCapacityProfile ==
  /\ capacity.status = "ABSENT"
  /\ Stores([capacity EXCEPT !.status = "ACTIVE"])

\* Defect: the totals wait for the next recalculation.
UpdateAvailabilityOnly(p, units) ==
  /\ Loadable
  /\ Stores([capacity EXCEPT !.availability[p] = units])

UpdateAvailability(p, units) ==
  /\ Loadable
  /\ Stores(calculate([capacity EXCEPT !.availability[p] = units]))

AllocateWorkload(a, units) ==
  /\ Loadable /\ capacity.allocations[a] = 0
  /\ Stores(calculate([capacity EXCEPT !.allocations[a] = units]))

CaptureCapacitySnapshot(s) ==
  /\ Loadable /\ s \notin DOMAIN capacity.snapshots
  /\ LET now == calculate(capacity) IN
     /\ capacity' = [now EXCEPT !.snapshots =
          [t \in DOMAIN @ \cup {s} |-> IF t = s THEN now.totals ELSE @[t]]]
     /\ captured' = [t \in DOMAIN captured \cup {s} |->
          IF t = s THEN [availability |-> now.availability, allocations |-> now.allocations]
                   ELSE captured[t]]

RecalculateCapacity ==
  /\ Loadable
  /\ Stores(calculate(capacity))

ArchiveCapacityProfile ==
  /\ Loadable
  /\ Stores([capacity EXCEPT !.status = "ARCHIVED", !.lifecycleEpoch = @ + 1])

Next ==
  \/ CreateCapacityProfile
  \/ \E p \in Period, units \in 0 .. MaxUnits : UpdateAvailability(p, units)
  \/ \E a \in Allocation, units \in 1 .. MaxUnits : AllocateWorkload(a, units)
  \/ \E s \in CapacitySnapshot : CaptureCapacitySnapshot(s)
  \/ RecalculateCapacity \/ ArchiveCapacityProfile

-----------------------------------------------------------------------------
(* Properties *)

\* The totals always are those of the present availability and allocations,
\* whatever command came last, so that recalculating never changes them; and a
\* snapshot keeps the totals of the moment it was taken, of which the allocated
\* units are still allocated ("recalculates available, allocated, and
\* remaining totals after every relevant mutation", docs/capacity-context.md).
TotalsFollow ==
  /\ calculate(capacity) = capacity
  /\ \A s \in DOMAIN captured :
       /\ capacity.snapshots[s] = totals(captured[s].availability, captured[s].allocations)
       /\ capacity.snapshots[s].allocatedUnits <= capacity.totals.allocatedUnits
=============================================================================

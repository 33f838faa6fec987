----------------------------- MODULE DueSignals -----------------------------
(***************************************************************************)
(* What a timeline promises about its deadlines and critical markers: an   *)
(* item signals at most once, in one step, at a moment when its instant,   *)
(* as it is then, has passed; and not after the timeline is archived.      *)
(***************************************************************************)
EXTENDS Integers

CONSTANTS
  Deadline, \* items whose instant can be moved
  Marker,   \* items whose instant stays as defined
  Instant,  \* a set of natural numbers
  Unset     \* the instant of an item that is not defined

VARIABLES
  now,       \* the clock
  status,    \* "ABSENT", then "ACTIVE", then "ARCHIVED"
  instants,  \* the instant of each item
  signalled  \* items that have signalled

vars == <<now, status, instants, signalled>>

Item == Deadline \cup Marker

Init ==
  /\ now = 0
  /\ status = "ABSENT"
  /\ instants = [i \in Item |-> Unset]
  /\ signalled = {}

Become(old, new) ==
  /\ status = old
  /\ status' = new
  /\ UNCHANGED <<now, instants, signalled>>

\* An item is defined, or a deadline is moved.
Schedule(i, t) ==
  /\ status = "ACTIVE"
  /\ i \in Marker => instants[i] = Unset
  /\ instants' = [instants EXCEPT ![i] = t]
  /\ UNCHANGED <<now, status, signalled>>

Signal(i) ==
  /\ status = "ACTIVE"
  /\ i \notin signalled
  /\ instants[i] \in Instant
  /\ instants[i] <= now
  /\ signalled' = signalled \cup {i}
  /\ UNCHANGED <<now, status, instants>>

Tick ==
  /\ now' > now
  /\ UNCHANGED <<status, instants, signalled>>

Next ==
  \/ Become("ABSENT", "ACTIVE")
  \/ Become("ACTIVE", "ARCHIVED")
  \/ \E i \in Item : Signal(i) \/ \E t \in Instant : Schedule(i, t)
  \/ Tick

Spec == Init /\ [][Next]_vars
=============================================================================

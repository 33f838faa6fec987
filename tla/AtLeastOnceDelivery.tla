------------------------ MODULE AtLeastOnceDelivery ------------------------
(***************************************************************************)
(* What the outbox promises: an event handed to it reaches the sink any    *)
(* number of times, is called delivered only once the sink has it, and     *)
(* ends delivered or dead-lettered, never both and never back.             *)
(***************************************************************************)
CONSTANT Event

VARIABLES
  enqueued,   \* events handed over
  received,   \* events the sink has accepted at least once
  delivered,  \* events the outbox has settled as delivered
  dead        \* events the outbox has given up on

vars == <<enqueued, received, delivered, dead>>

Init ==
  /\ enqueued = {}
  /\ received = {}
  /\ delivered = {}
  /\ dead = {}

Pending == enqueued \ (delivered \cup dead)

Enqueue(e) ==
  /\ e \notin enqueued
  /\ enqueued' = enqueued \cup {e}
  /\ UNCHANGED <<received, delivered, dead>>

\* Duplicates, even of settled events, are allowed: they change nothing.
Receive(e) ==
  /\ e \in enqueued
  /\ received' = received \cup {e}
  /\ UNCHANGED <<enqueued, delivered, dead>>

Deliver(e) ==
  /\ e \in Pending \cap received
  /\ delivered' = delivered \cup {e}
  /\ UNCHANGED <<enqueued, received, dead>>

GiveUp(e) ==
  /\ e \in Pending
  /\ dead' = dead \cup {e}
  /\ UNCHANGED <<enqueued, received, delivered>>

Next == \E e \in Event : Enqueue(e) \/ Receive(e) \/ Deliver(e) \/ GiveUp(e)

Spec == Init /\ [][Next]_vars
=============================================================================

---------------------------- MODULE CommandLedger ----------------------------
(***************************************************************************)
(* What a bounded context promises its clients: a ledger to which each     *)
(* operation is appended at most once, in one step, as the next version of *)
(* its aggregate and computed from everything that happened to the         *)
(* aggregate before; and answers that are only ever ledger entries.        *)
(***************************************************************************)
EXTENDS Commands

VARIABLES
  version,  \* the current version of each aggregate, 0 before it exists
  ledger,   \* the events that took effect
  replies   \* the (fingerprint, event) pairs clients received

vars == <<version, ledger, replies>>

Init ==
  /\ version = [a \in Aggregate |-> 0]
  /\ ledger = {}
  /\ replies = {}

\* Request r makes operation o, carrying command c, take effect.
Apply(o, c, r) ==
  LET current == version[c.aggregate] IN
  /\ o \notin OperationsOf(ledger)
  /\ c.create <=> current = 0
  /\ c.expected \in {NoExpectation, current}
  /\ ledger' = ledger \cup
       {[operation |-> o, command |-> c, version |-> current + 1,
         seen |-> OperationsOf(HistoryIn(ledger, c.aggregate)), request |-> r]}
  /\ version' = [version EXCEPT ![c.aggregate] = current + 1]
  /\ UNCHANGED replies

Reply(e) ==
  /\ replies' = replies \cup {[fingerprint |-> e.command, event |-> e]}
  /\ UNCHANGED <<version, ledger>>

Next ==
  \/ \E o \in Operation, c \in Command, r \in Request : Apply(o, c, r)
  \/ \E e \in ledger : Reply(e)

Spec == Init /\ [][Next]_vars
=============================================================================

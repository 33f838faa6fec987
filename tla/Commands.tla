------------------------------ MODULE Commands ------------------------------
(***************************************************************************)
(* The commands of one bounded context and the events they leave behind:   *)
(* the vocabulary that the ledger (what a context promises) and the        *)
(* command pipeline (how it keeps the promise) share.                      *)
(***************************************************************************)
EXTENDS Integers, FiniteSets

CONSTANTS
  Aggregate,      \* aggregate ids of the context
  Operation,      \* operation_ids, chosen by clients, who may reuse them
  Request,        \* slots for requests in flight
  Expected,       \* values of expected_version that commands carry
  NoExpectation   \* expected_version left out

ASSUME CommandsAssumption ==
  /\ Expected \subseteq Nat \cup {NoExpectation}
  /\ NoExpectation \notin Nat

\* A command's fingerprint digests all of it, so a command stands for its own.
Command == [aggregate: Aggregate, create: BOOLEAN, expected: Expected]

\* `request` tells apart the events (their uuid) that two attempts of one
\* operation emit; `seen` holds the operations whose effect the state had
\* that the event was computed from.
Event == [operation: Operation, command: Command, version: Nat,
          seen: SUBSET Operation, request: Request]

\* The events of aggregate a among E.
HistoryIn(E, a) == {e \in E : e.command.aggregate = a}

\* The operations of the events E.
OperationsOf(E) == {e.operation : e \in E}
=============================================================================

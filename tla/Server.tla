------------------------------- MODULE Server -------------------------------
(***************************************************************************)
(* The life of the process: configuration, listening, connections with     *)
(* their requests, the outbox worker, and the end: a signal, a deadline,   *)
(* and two databases to close (src/mission/server.ts).                     *)
(*                                                                         *)
(* A request that has its body runs to its answer without letting go of    *)
(* the event loop, for its storage is synchronous: a handler is only seen  *)
(* waiting for its body.  A batch of the worker waits for the receiver.    *)
(* Admission says which requests get so far, Outbox what a batch does.     *)
(***************************************************************************)
CONSTANT Connection

VARIABLES
  phase,       \* of the server that listens
  connection,  \* of each: "none", "idle" between requests, "body" within one
  worker,      \* of the outbox: "off", "ready" to start, "waiting" or in a "batch"
  stopping,    \* the worker is asked to stop
  shuttingDown,
  handled,     \* the signals that still have a handler
  deadline,    \* the timer of the shutdown runs
  closed,      \* the databases that are closed
  exited       \* how the process ended, or "no"

serverVars ==
  <<phase, connection, worker, stopping, shuttingDown, handled, deadline, closed, exited>>

TypeOK ==
  /\ phase \in {"configuring", "starting", "listening", "closing", "closed", "failed"}
  /\ connection \in [Connection -> {"none", "idle", "body"}]
  /\ worker \in {"off", "ready", "waiting", "batch"}
  /\ {stopping, shuttingDown, deadline} \subseteq BOOLEAN
  /\ handled \subseteq {"SIGINT", "SIGTERM"}
  /\ closed \subseteq {"application", "outbox"}
  /\ exited \in {"no", "0", "1", "signal"}

Init ==
  /\ phase = "configuring"
  /\ connection = [c \in Connection |-> "none"]
  /\ worker = "off" /\ stopping = FALSE
  /\ shuttingDown = FALSE /\ handled = {} /\ deadline = FALSE
  /\ closed = {} /\ exited = "no"

-----------------------------------------------------------------------------

Running == exited = "no"

\* With the address of a receiver there is a worker.  From here to the handlers
\* of the signals nothing awaits.
createOutboxRuntime ==
  /\ Running /\ phase = "configuring"
  /\ phase' = "starting"
  /\ worker' \in {"off", "ready"}
  /\ handled' = {"SIGINT", "SIGTERM"}
  /\ UNCHANGED <<connection, stopping, shuttingDown, deadline, closed, exited>>

\* A setting is out of its range, the database is in memory, or the lease is
\* not longer than a batch may take: the error ends the process.
createOutboxRuntimeFails ==
  /\ Running /\ phase = "configuring"
  /\ exited' = "1"
  /\ UNCHANGED <<phase, connection, worker, stopping, shuttingDown, handled, deadline, closed>>

\* The callback of server.listen() starts the worker, if one is configured.
Listen ==
  /\ Running /\ phase = "starting"
  /\ phase' = "listening"
  /\ worker' = IF worker = "ready" THEN "waiting" ELSE worker
  /\ UNCHANGED <<connection, stopping, shuttingDown, handled, deadline, closed, exited>>

\* The address is taken: nothing handles the error.
ListenFails ==
  /\ Running /\ phase = "starting"
  /\ exited' = "1"
  /\ UNCHANGED <<phase, connection, worker, stopping, shuttingDown, handled, deadline, closed>>

Moves(c, from, to) ==
  /\ Running /\ connection[c] = from
  /\ connection' = [connection EXCEPT ![c] = to]
  /\ UNCHANGED <<phase, worker, stopping, shuttingDown, handled, deadline, closed, exited>>

Connect(c) == phase = "listening" /\ Moves(c, "none", "idle")

\* A connection that is kept alive brings requests while the server closes, too.
Receive(c) == Moves(c, "idle", "body")

\* The answer, of the application or of an error; the connection may be kept.
Answer(c) == \E to \in {"none", "idle"} : Moves(c, "body", to)

\* The peer goes, or has been idle for too long; a body that was awaited fails.
Disconnect(c) == \E from \in {"idle", "body"} : Moves(c, from, "none")

WorkerMoves(from, to) ==
  /\ Running /\ worker = from
  /\ worker' = to
  /\ UNCHANGED <<phase, connection, stopping, shuttingDown, handled, deadline, closed, exited>>

\* OutboxWorker.#run(): after each batch and each wait the worker looks whether
\* it has to stop.
BeginBatch == ~stopping /\ WorkerMoves("waiting", "batch")

EndBatch == WorkerMoves("batch", IF stopping THEN "off" ELSE "waiting")

Woken == stopping /\ WorkerMoves("waiting", "off")

-----------------------------------------------------------------------------
(* The end *)

\* Defect: the shutdown waits as long as it takes.
shutdownWithoutDeadline ==
  /\ shuttingDown' = TRUE /\ deadline' = FALSE
  /\ stopping' = (worker \in {"waiting", "batch"})
  /\ phase' = IF phase = "listening" THEN "closing" ELSE "failed"
  /\ connection' = [c \in Connection |-> IF connection[c] = "idle" THEN "none" ELSE connection[c]]

\* server.close() drops the connections between two requests, and fails if the
\* server does not listen yet; a worker that does not run has nothing to stop.
shutdown ==
  /\ shuttingDown' = TRUE /\ deadline' = TRUE
  /\ stopping' = (worker \in {"waiting", "batch"})
  /\ phase' = IF phase = "listening" THEN "closing" ELSE "failed"
  /\ connection' = [c \in Connection |-> IF connection[c] = "idle" THEN "none" ELSE connection[c]]

\* process.once(): the first of each kind is handled, and only one shuts down.
Signal(s) ==
  /\ Running /\ s \in handled
  /\ handled' = handled \ {s}
  /\ IF shuttingDown THEN UNCHANGED <<shuttingDown, deadline, stopping, phase, connection>>
                     ELSE shutdown
  /\ UNCHANGED <<worker, closed, exited>>

\* A signal without a handler, and so a second one of its kind, has its default
\* effect.
SignalUnhandled(s) ==
  /\ Running /\ s \in {"SIGINT", "SIGTERM"} \ handled
  /\ exited' = "signal"
  /\ UNCHANGED <<phase, connection, worker, stopping, shuttingDown, handled, deadline, closed>>

\* The last connection is gone.
Closed ==
  /\ Running /\ phase = "closing"
  /\ \A c \in Connection : connection[c] = "none"
  /\ phase' = "closed"
  /\ UNCHANGED <<connection, worker, stopping, shuttingDown, handled, deadline, closed, exited>>

\* Defect: the first of the two is enough.
SettledAny == phase = "closed" \/ worker = "off"

\* Promise.all(): the server is closed and the worker has stopped.
Settled == phase = "closed" /\ worker = "off"

Complete ==
  /\ Running /\ shuttingDown /\ Settled
  /\ deadline' = FALSE /\ closed' = {"application", "outbox"} /\ exited' = "0"
  /\ UNCHANGED <<phase, connection, worker, stopping, shuttingDown, handled>>

Abort ==
  /\ Running /\ phase = "failed"
  /\ deadline' = FALSE /\ exited' = "1"
  /\ UNCHANGED <<phase, connection, worker, stopping, shuttingDown, handled, closed>>

\* What is still going on is cut off.
DeadlineFires ==
  /\ Running /\ deadline
  /\ connection' = [c \in Connection |-> "none"]
  /\ exited' = "1"
  /\ UNCHANGED <<phase, worker, stopping, shuttingDown, handled, deadline, closed>>

Next ==
  \/ createOutboxRuntime \/ createOutboxRuntimeFails \/ Listen \/ ListenFails
  \/ \E c \in Connection : Connect(c) \/ Receive(c) \/ Answer(c) \/ Disconnect(c)
  \/ BeginBatch \/ EndBatch \/ Woken
  \/ \E s \in {"SIGINT", "SIGTERM"} : Signal(s) \/ SignalUnhandled(s)
  \/ Closed \/ Complete \/ Abort \/ DeadlineFires

-----------------------------------------------------------------------------
(* Properties *)

\* The databases are closed only when no request is being received and no batch
\* of the worker is out, so that nothing meets a closed database; the process
\* reports success only then, and whenever it had to leave a request or a batch
\* behind it says so.
DatabaseClosedLast ==
  /\ closed # {} => worker = "off" /\ \A c \in Connection : connection[c] = "none"
  /\ exited = "0" => closed = {"application", "outbox"}

\* Once a signal has asked for it the process ends, even if a peer keeps its
\* connection open or the receiver of a batch does not answer: all it takes is
\* that timers run.
ShutdownEnds == shuttingDown ~> ~Running
=============================================================================

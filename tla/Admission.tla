------------------------------ MODULE Admission ------------------------------
(***************************************************************************)
(* The HTTP server's handling of requests: a token bucket per client and a *)
(* concurrency gate (src/infrastructure/http/admission.ts) before the body *)
(* is read and the application called (src/mission/server.ts).             *)
(*                                                                         *)
(* Tokens are fractions in the code; here they are counted in units so     *)
(* small that the cost of a request and the refill of an instant are whole.*)
(***************************************************************************)
EXTENDS Integers, FiniteSets

CONSTANTS
  Client,         \* keys of clients
  Overflow,       \* OVERFLOW_KEY, the bucket that clients without their own share
  Request,        \* handlers that can be running
  Capacity,       \* of a bucket, in units
  Refill,         \* units per instant
  Cost,           \* units per request
  MaxClients,     \* clients with a bucket of their own
  IdleTtl,        \* instants after which an unused bucket may be forgotten
  SweepInterval,  \* instants between two looks for such buckets
  Maximum,        \* requests in flight that the gate admits
  MaxTime,        \* bound on the clock
  Horizon         \* bound on the length of an observation

Key == Client \cup {Overflow}

ASSUME AdmissionAssumption ==
  /\ Overflow \notin Client
  /\ IsFiniteSet(Client) /\ IsFiniteSet(Request)
  /\ Capacity \in Nat /\ Refill \in Nat /\ Cost \in Nat /\ IdleTtl \in Nat \ {0}
  /\ SweepInterval \in Nat /\ MaxClients \in Nat /\ Maximum \in Nat
  /\ MaxTime \in Nat /\ Horizon \in Nat

VARIABLES
  now,          \* the wall clock, which may be set back
  tracked,      \* the keys in #buckets
  tokens,       \* of each bucket
  updatedAt,    \* of each bucket; `seenAt` is always the same
  nextSweepAt,
  active,       \* requests that the gate believes are in flight
  inFlight,     \* the gauge of the metrics
  handler,      \* where each handler is, and whether it has to release the gate
  watched,      \* history: a key that is being observed ...
  granted,      \* ... the units it was granted since the observation began ...
  advanced      \* ... and the instants by which the clock went on since then

buckets == <<tracked, tokens, updatedAt, nextSweepAt>>
observation == <<watched, granted, advanced>>
admissionVars == <<now, buckets, active, inFlight, handler, observation>>

AdmissionTypeOK ==
  /\ now \in 0 .. MaxTime
  /\ tracked \subseteq Key
  /\ Cardinality(tracked \ {Overflow}) <= MaxClients
  /\ tokens \in [Key -> 0 .. Capacity]
  /\ updatedAt \in [Key -> 0 .. MaxTime]
  /\ nextSweepAt \in 0 .. MaxTime + SweepInterval
  /\ active \in Nat /\ inFlight \in Nat
  /\ handler \in [Request -> [at: {"idle", "body", "application"}, slot: BOOLEAN]]
  /\ \A r \in Request : handler[r].slot => handler[r].at # "idle"
  /\ watched \in Key /\ granted \in Nat /\ advanced \in 0 .. Horizon

Unused == [k \in Key |-> 0]
AllIdle == [r \in Request |-> [at |-> "idle", slot |-> FALSE]]

AdmissionInit ==
  /\ now \in 0 .. MaxTime
  /\ tracked = {} /\ tokens = Unused /\ updatedAt = Unused /\ nextSweepAt = 0
  /\ active = 0 /\ inFlight = 0 /\ handler = AllIdle
  /\ watched \in Key /\ granted = 0 /\ advanced = 0

-----------------------------------------------------------------------------
(* Token buckets *)

Smaller(a, b) == IF a <= b THEN a ELSE b

\* Defect: buckets are forgotten while they are in use.
ExpiredAtOnce == IF now < nextSweepAt THEN {} ELSE tracked \ {Overflow}

\* #removeExpired()
Expired ==
  IF now < nextSweepAt THEN {}
  ELSE {c \in tracked \ {Overflow} : now - updatedAt[c] >= IdleTtl}

Kept == tracked \ Expired

BucketOf(c) ==
  IF c \in Kept \/ Cardinality(Kept \ {Overflow}) < MaxClients THEN c ELSE Overflow

\* A bucket does not earn twice for the same time when the clock is set back.
EffectiveNow(k) == IF k \in Kept /\ updatedAt[k] > now THEN updatedAt[k] ELSE now

\* What is in the bucket of a key when a request comes.
Level(k) ==
  IF k \in Kept THEN Smaller(Capacity, tokens[k] + Refill * (EffectiveNow(k) - updatedAt[k]))
  ELSE Capacity

\* consume(), which takes `spent` from the bucket of client c.
consume(c, spent) ==
  LET k == BucketOf(c) IN
  /\ tracked' = Kept \cup {k}
  /\ tokens' = [j \in Key |-> IF j = k THEN Level(k) - spent ELSE IF j \in Kept THEN tokens[j] ELSE 0]
  /\ updatedAt' = [j \in Key |-> IF j = k THEN EffectiveNow(k) ELSE IF j \in Kept THEN updatedAt[j] ELSE 0]
  /\ nextSweepAt' = IF now < nextSweepAt THEN nextSweepAt ELSE now + SweepInterval
  /\ granted' = IF k = watched THEN granted + spent ELSE granted
  /\ UNCHANGED <<now, watched, advanced>>

-----------------------------------------------------------------------------
(* Requests *)

Starts(r, h) ==
  /\ handler[r].at = "idle"
  /\ handler' = [handler EXCEPT ![r] = h]
  /\ inFlight' = inFlight + 1

\* Probes: neither limited nor counted by the gate.
Exempt(r) ==
  /\ Starts(r, [at |-> "application", slot |-> FALSE])
  /\ UNCHANGED <<now, buckets, active, observation>>

\* admit(): the handler goes on, with a body to read or without.
Accept(r, c) ==
  /\ Level(BucketOf(c)) >= Cost
  /\ active < Maximum
  /\ consume(c, Cost)
  /\ active' = active + 1
  /\ \E at \in {"body", "application"} : Starts(r, [at |-> at, slot |-> TRUE])

\* 429: answered at once.
RateLimited(c) ==
  /\ Level(BucketOf(c)) < Cost
  /\ consume(c, 0)
  /\ UNCHANGED <<active, inFlight, handler>>

\* 503: answered at once, and paid for.
Overloaded(c) ==
  /\ Level(BucketOf(c)) >= Cost
  /\ active >= Maximum
  /\ consume(c, Cost)
  /\ UNCHANGED <<active, inFlight, handler>>

ReadBody(r) ==
  /\ handler[r].at = "body"
  /\ handler' = [handler EXCEPT ![r].at = "application"]
  /\ UNCHANGED <<now, buckets, active, inFlight, observation>>

\* Defect: a body that cannot be read ends the handler before `finally`.
FinishUnreleased(r) ==
  /\ handler[r].at # "idle"
  /\ active' = IF handler[r].slot /\ handler[r].at = "application" THEN active - 1 ELSE active
  /\ inFlight' = inFlight - 1
  /\ handler' = [handler EXCEPT ![r] = [at |-> "idle", slot |-> FALSE]]
  /\ UNCHANGED <<now, buckets, observation>>

\* The answer, or that of an error in reading the body or in the application;
\* `finally` releases the gate and finishes the measurement.
Finish(r) ==
  /\ handler[r].at # "idle"
  /\ active' = IF handler[r].slot THEN active - 1 ELSE active
  /\ inFlight' = inFlight - 1
  /\ handler' = [handler EXCEPT ![r] = [at |-> "idle", slot |-> FALSE]]
  /\ UNCHANGED <<now, buckets, observation>>

\* A target that is no URL: the handler throws before its `try` block, with the
\* gauge counted up.  Nobody handles the rejection, and so Node ends the process;
\* the next one begins with nothing in memory, and is observed anew.
BadTarget(r) ==
  /\ handler[r].at = "idle"
  /\ tracked' = {} /\ tokens' = Unused /\ updatedAt' = Unused /\ nextSweepAt' = 0
  /\ active' = 0 /\ inFlight' = 0 /\ handler' = AllIdle
  /\ watched' \in Key /\ granted' = 0 /\ advanced' = 0
  /\ UNCHANGED now

-----------------------------------------------------------------------------
(* The clock, and what observes the limiter *)

AdmissionTick ==
  /\ now < MaxTime /\ advanced < Horizon
  /\ now' = now + 1 /\ advanced' = advanced + 1
  /\ UNCHANGED <<buckets, active, inFlight, handler, watched, granted>>

SetBack ==
  /\ now' \in 0 .. now - 1
  /\ UNCHANGED <<buckets, active, inFlight, handler, observation>>

Observe ==
  /\ watched' \in Key /\ granted' = 0 /\ advanced' = 0
  /\ UNCHANGED <<now, buckets, active, inFlight, handler>>

AdmissionNext ==
  \/ \E r \in Request : \/ Exempt(r)
                        \/ \E c \in Client : Accept(r, c)
                        \/ ReadBody(r)
                        \/ Finish(r)
                        \/ BadTarget(r)
  \/ \E c \in Client : RateLimited(c) \/ Overloaded(c)
  \/ AdmissionTick
  \/ SetBack
  \/ Observe

AdmissionSpec == AdmissionInit /\ [][AdmissionNext]_admissionVars

-----------------------------------------------------------------------------
(* Properties *)

\* What a bucket gains by being forgotten: it is full again when its client
\* returns, although it need not have earned that much.  It is nothing with the
\* defaults (600 s at 20 a second, for 120), but the configuration takes any
\* capacity, rate and idle time.
Windfall == Capacity - Smaller(Capacity, Refill * IdleTtl)

\* In any stretch of time a bucket grants what it can hold, what it earns in that
\* time, and a windfall for each idle time that fits in it, and no more: although
\* it is refilled only when it is used, and the clock is set back now and then.
BudgetKept ==
  \E n \in 0 .. advanced :
    /\ n * IdleTtl <= advanced
    /\ granted <= Capacity + Refill * advanced + Windfall * n

\* The gate and the gauge count the handlers that are running, whichever way
\* a handler ends, and the gate admits no more than it should.
SlotsMatchHandlers ==
  /\ active = Cardinality({r \in Request : handler[r].slot})
  /\ active <= Maximum
  /\ inFlight = Cardinality({r \in Request : handler[r].at # "idle"})
=============================================================================

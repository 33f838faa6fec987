------------------------------- MODULE Gateway -------------------------------
(***************************************************************************)
(* From a request to the context that acts on it: the routes               *)
(* (src/api/routes.ts), the bearer's token (src/auth/), what binds a       *)
(* command or a read to that token (src/api/application.ts), and the check *)
(* of the command's own proof that every context makes when it is about to *)
(* act.                                                                    *)
(*                                                                         *)
(* A principal stands for an id and an actor type; the tokens presented    *)
(* are well-formed, and for this issuer and audience.  Instants are        *)
(* seconds.  Requests share nothing here but the configuration, so one at  *)
(* a time is followed.                                                     *)
(***************************************************************************)
EXTENDS Integers, Sequences

CONSTANTS
  Tenant, Principal, Scope,
  TokenId,    \* jti
  KeyId, Signer,
  NoKeyId,    \* the header has no kid
  Token,      \* the tokens that are presented
  NoToken,
  Call,       \* the requests that are made
  NoCall,
  Tolerance,  \* clockToleranceSeconds
  MaxEpoch, MaxTime  \* bounds

\* The proof in a command is what the client says.
Proof == [ref: TokenId, scope: SUBSET Scope, epoch: 0 .. MaxEpoch, expires: 0 .. MaxTime]

GatewayAssumption ==
  /\ Tolerance \in Nat /\ MaxEpoch \in Nat /\ MaxTime \in Nat
  /\ NoKeyId \notin KeyId /\ NoToken \notin Token /\ NoCall \notin Call
  /\ Token \subseteq
       [kid: KeyId \cup {NoKeyId}, signer: Signer, jti: TokenId, sub: Principal, org: Tenant,
        scope: SUBSET Scope, epoch: 0 .. MaxEpoch, nbf: 0 .. MaxTime, exp: 0 .. MaxTime]
  /\ Call \subseteq
       [route: {"COMMAND", "RESOURCE"}, method: {"GET", "HEAD", "POST", "PUT"}, org: Tenant,
        actor: Principal, required: Scope, proof: Proof]

\* A JWKS: an entry is sound if it is a public Ed25519 key meant for signatures.
Document == UNION {[1 .. n -> [kid: KeyId, signer: Signer, sound: BOOLEAN]] : n \in 0 .. 2}

VARIABLES
  now,
  auth,    \* whether a token is required, and whose key is trusted under which kid
  pending  \* the call in progress: its token, and how far it has come, and when

TypeOK ==
  /\ now \in 0 .. MaxTime
  /\ auth.required \in BOOLEAN
  /\ \A k \in DOMAIN auth.keys : auth.keys[k] \in Signer
  /\ pending # NoCall =>
       /\ pending.call \in Call /\ pending.token \in Token \cup {NoToken}
       /\ pending.stage \in {"ADMITTED", "ACTING"} /\ pending.since \in 0 .. now

-----------------------------------------------------------------------------

\* The whole document is refused for one bad entry, or for a kid that comes twice.
parseEd25519Jwks(document) ==
  /\ document # <<>>
  /\ \A i \in DOMAIN document : document[i].sound
  /\ \A i, j \in DOMAIN document : document[i].kid = document[j].kid => i = j

KeyRing(document) ==
  [k \in {document[i].kid : i \in DOMAIN document} |->
     document[CHOOSE i \in DOMAIN document : document[i].kid = k].signer]

\* loadAuthenticationOptions(): no token at all, a single key, or a JWKS.
Configurations ==
  {[required |-> FALSE, keys |-> <<>>]}
    \cup {[required |-> TRUE, keys |-> [k \in {NoKeyId} |-> s]] : s \in Signer}
    \cup {[required |-> TRUE, keys |-> KeyRing(d)] : d \in {d \in Document : parseEd25519Jwks(d)}}

\* Without a configuration no token is required.
Init ==
  /\ now = 0 /\ pending = NoCall
  /\ auth = [required |-> FALSE, keys |-> <<>>]

\* The process is started again, perhaps with other keys.
Restart ==
  /\ auth' \in Configurations
  /\ pending' = NoCall
  /\ UNCHANGED now

Tick ==
  /\ now < MaxTime
  /\ now' = now + 1
  /\ UNCHANGED <<auth, pending>>

-----------------------------------------------------------------------------

allowedMethodsForPath(route) == IF route = "COMMAND" THEN {"POST"} ELSE {"GET", "HEAD"}

\* With a single key no kid is allowed, with a ring one is needed.
selectKey(t) == t.kid \in DOMAIN auth.keys

authenticate(t) ==
  /\ selectKey(t) /\ auth.keys[t.kid] = t.signer
  /\ t.scope # {}
  /\ t.exp > now - Tolerance
  /\ t.nbf <= now + Tolerance

\* Defect: when the proof expires is left to the client.
authorizeCommandAnyTime(t, c) ==
  /\ c.org = t.org /\ c.actor = t.sub
  /\ c.proof.ref = t.jti /\ c.proof.epoch = t.epoch
  /\ c.proof.scope \subseteq t.scope

\* #authorizeCommand(): the command is the bearer's own, and its proof claims
\* no more than the token grants.
authorizeCommand(t, c) ==
  /\ c.org = t.org /\ c.actor = t.sub
  /\ c.proof.ref = t.jti /\ c.proof.epoch = t.epoch
  /\ c.proof.scope \subseteq t.scope
  /\ c.proof.expires <= t.exp

authorizeRead(t, c) == c.org = t.org /\ c.required \in t.scope

\* #dispatch(), up to the first await.
Admit(c, t) ==
  /\ pending = NoCall
  /\ c.method \in allowedMethodsForPath(c.route)
  /\ IF auth.required
     THEN /\ t \in Token /\ authenticate(t)
          /\ IF c.route = "COMMAND" THEN authorizeCommand(t, c) ELSE authorizeRead(t, c)
     ELSE t = NoToken
  /\ pending' = [call |-> c, token |-> t, stage |-> "ADMITTED", since |-> now]
  /\ UNCHANGED <<now, auth>>

\* What a context asks of the proof when it comes to act: identity, file and most
\* others before they look for an earlier answer, mission, work, timeline,
\* reporting and organization after it, so that a replay needs no proof there.
Authorized(c) == c.required \in c.proof.scope /\ c.proof.expires > now

Act ==
  /\ pending # NoCall /\ pending.stage = "ADMITTED"
  /\ pending.call.route = "COMMAND" => Authorized(pending.call)
  /\ pending' = [pending EXCEPT !.stage = "ACTING", !.since = now]
  /\ UNCHANGED <<now, auth>>

\* The response: what the context did or read, an earlier answer, or a refusal.
Respond ==
  /\ pending # NoCall
  /\ pending' = NoCall
  /\ UNCHANGED <<now, auth>>

Next ==
  \/ \E c \in Call, t \in Token \cup {NoToken} : Admit(c, t)
  \/ Act \/ Respond \/ Tick \/ Restart

-----------------------------------------------------------------------------
(* Properties *)

\* Where tokens are required, a context acts on a command only for the bearer
\* the token was issued to, in the token's organization and authority epoch,
\* with a scope the token grants, under a key that is trusted, and strictly
\* before the token expires, although the token itself is accepted for Tolerance
\* longer and the command may have waited since; a read is of that organization
\* and scope.
WithinItsToken ==
  pending # NoCall /\ pending.stage = "ACTING" /\ auth.required =>
    LET t == pending.token
        c == pending.call
    IN /\ t.kid \in DOMAIN auth.keys /\ auth.keys[t.kid] = t.signer
       /\ c.org = t.org /\ c.required \in t.scope
       /\ c.route = "COMMAND" =>
            c.actor = t.sub /\ c.proof.epoch = t.epoch /\ pending.since < t.exp
=============================================================================

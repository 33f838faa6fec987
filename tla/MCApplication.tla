---------------------------- MODULE MCApplication ----------------------------
(* A small instance of each part. *)
EXTENDS Application

CONSTANTS o1, o2, p1, p2, read, write, j1, j2, k1, k2, g1, g2, ac1, ac2, allow, deny

\* A token and its neighbours: as it should be, and each field otherwise once.
token ==
  [kid |-> k1, signer |-> g1, jti |-> j1, sub |-> p1, org |-> o1, scope |-> {read, write},
   epoch |-> 1, nbf |-> 0, exp |-> 2]

MCToken ==
  {token} \cup {[token EXCEPT !.kid = k] : k \in {k2, NoKeyId}}
    \cup {[token EXCEPT !.signer = g2], [token EXCEPT !.jti = j2], [token EXCEPT !.sub = p2],
          [token EXCEPT !.org = o2], [token EXCEPT !.epoch = 0], [token EXCEPT !.nbf = 3]}
    \cup {[token EXCEPT !.scope = s] : s \in {{}, {read}, {write}}}
    \cup {[token EXCEPT !.exp = e] : e \in {0, 1, 3}}

proof == [ref |-> j1, scope |-> {write}, epoch |-> 1, expires |-> 2]

Proofs ==
  {proof, [proof EXCEPT !.ref = j2], [proof EXCEPT !.epoch = 0]}
    \cup {[proof EXCEPT !.scope = s] : s \in {{}, {read}, {read, write}}}
    \cup {[proof EXCEPT !.expires = e] : e \in {1, 3}}

\* A read has no actor and no proof.
MCCall ==
  [route: {"COMMAND"}, method: {"POST", "PUT"}, org: {o1, o2}, actor: {p1, p2},
   required: {read, write}, proof: Proofs]
    \cup [route: {"RESOURCE"}, method: {"GET", "HEAD", "POST"}, org: {o1, o2}, actor: {p1},
          required: {read, write}, proof: {proof}]

\* Both rules match the one action, the other is only allowed.
MCMatching == [a \in {ac1, ac2} |-> IF a = ac1 THEN {allow, deny} ELSE {allow}]
==============================================================================

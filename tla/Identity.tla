------------------------------ MODULE Identity ------------------------------
(***************************************************************************)
(* Who a client is, and the key agreed with it (bedrock-crypto's jwt.rs,   *)
(* agreement.rs and handshake.rs). JSON and base64 are not spelled out: a  *)
(* token is a record, and one byte stands for its text on the wire. A      *)
(* signature names the key pair that made it, over exactly the header and  *)
(* claims of the record. An agreed key is the pair of what went into it.   *)
(***************************************************************************)
EXTENDS Integers, Sequences

TOKEN_ISSUER == "franchise"
TOKEN_AUDIENCE == "multiplayer"
Expected == [issuer |-> TOKEN_ISSUER, audience |-> TOKEN_AUDIENCE, leeway |-> 60]

-----------------------------------------------------------------------------
(* Jwks and verify. A key is [kid, kty, pair]; a token is                   *)
(* [alg, kid, pair, iss, aud, exp, iat, cpk].                               *)

\* Jwks::find: the first of that name, as a sequence of at most one.
Find(keys, kid) ==
  LET named == {k \in DOMAIN keys : keys[k].kid = kid}
  IN IF named = {} THEN <<>> ELSE <<keys[CHOOSE k \in named : \A j \in named : k <= j]>>

\* The signature holds under the published key the header selects.
IsSigned(token, keys) ==
  /\ token.alg = "RS256"
  /\ \E k \in DOMAIN Find(keys, token.kid) :
       /\ Find(keys, token.kid)[k].kty = "RSA"
       /\ Find(keys, token.kid)[k].pair = token.pair

ClaimsHold(token, expected, now) ==
  /\ token.iss = expected.issuer
  /\ token.aud = expected.audience
  /\ now <= token.exp + expected.leeway
  /\ token.iat <= now + expected.leeway

\* verify: the claims, or nothing.
Verify(token, keys, expected, now) ==
  IF IsSigned(token, keys) /\ ClaimsHold(token, expected, now) THEN <<token>> ELSE <<>>

-----------------------------------------------------------------------------
(* Public keys as they travel, and the key both sides derive.               *)

PUBLIC_KEY_DER_LEN == 120
POINT_LEN == 97

SPKI_PREFIX ==
  <<48, 118, 48, 16, 6, 7, 42, 134, 72, 206, 61, 2, 1, 6, 5, 43, 129, 4, 0, 34, 3, 98, 0>>

\* point_from_der: the point, or nothing.
PointFromDer(der) ==
  IF /\ Len(der) = PUBLIC_KEY_DER_LEN
     /\ SubSeq(der, 1, Len(SPKI_PREFIX)) = SPKI_PREFIX
     /\ der[Len(SPKI_PREFIX) + 1] = 4
    THEN SubSeq(der, Len(SPKI_PREFIX) + 1, Len(der))
    ELSE <<>>

PointToDer(point) ==
  IF Len(point) = POINT_LEN /\ point[1] = 4 THEN SPKI_PREFIX \o point ELSE <<>>

\* Whether from_sec1_bytes takes a point: here, when its coordinates are not
\* all zero.
OnCurve(point) == \E k \in 2 .. Len(point) : point[k] # 0

\* ServerKey::agree: what both ends derive, or nothing. The salt is the
\* server's, and numbered with its key.
Agree(server, der) ==
  LET point == PointFromDer(der)
  IN IF point # <<>> /\ OnCurve(point) THEN <<server, point>> ELSE <<>>
=============================================================================

------------------------------ MODULE MCServer ------------------------------
(***************************************************************************)
(* Clients, tokens and worlds for Server.tla.                              *)
(***************************************************************************)
EXTENDS Server

AllStages == {"StartGame", "World", "Radius", "Chunks", "Spawn"}

\* Two public keys, and one whose point is compressed.
KeyOf(byte) == PointToDer(<<4>> \o [k \in 1 .. 96 |-> byte])
Compressed == SPKI_PREFIX \o <<2>> \o [k \in 1 .. 96 |-> 9]

Token(kid, pair, aud, cpk) ==
  [alg |-> "RS256", kid |-> kid, pair |-> pair, iss |-> "franchise", aud |-> aud,
   iat |-> 1000, exp |-> 2000, cpk |-> cpk]

\* A good token; one whose client key is no key; one edited after signing; one for
\* another audience; one signed with the key the issuer rotates to; one that
\* names its own algorithm.
SomeTokens ==
  <<Token("k1", "issuer1", "multiplayer", KeyOf(7)),
    Token("k1", "issuer1", "multiplayer", Compressed),
    Token("k1", "none", "multiplayer", KeyOf(7)),
    Token("k1", "issuer1", "realms", KeyOf(7)),
    Token("k2", "issuer2", "multiplayer", KeyOf(7)),
    [Token("k1", "none", "multiplayer", KeyOf(7)) EXCEPT !.alg = "none"]>>

Jwk(kid, pair) == [kid |-> kid, kty |-> "RSA", pair |-> pair]
TwoKeySets == {<<Jwk("k1", "issuer1")>>, <<Jwk("k2", "issuer2"), Jwk("k1", "issuer1")>>}

\* In time, and one second past the leeway.
TwoClocks == {1500, 2061}

LoginWith(protocol, token, key) == [protocol |-> protocol, token |-> token, holds |-> KeyOf(key)]

\* Every token, byte 0 for an identity that is not JSON, another version, and a
\* key pair other than the one the token names.
AllLogins == {LoginWith(1001, token, 7) : token \in 0 .. 6} \cup
             {LoginWith(1000, 1, 7), LoginWith(1001, 1, 5)}

\* Either side of zero, and far.
FewPlaces == {50, -50, 4850}

Stone == <<2706, 2706>>
=============================================================================

------------------------------- MODULE MCLink -------------------------------
(***************************************************************************)
(* Scripts for Link.tla. The client is the end that opens the session.     *)
(***************************************************************************)
EXTENDS Link

CONSTANTS client, server

User(id, parts) == [kind |-> "user", id |-> id, parts |-> parts]
Internal(kind) == [kind |-> kind, id |-> 0, parts |-> 1]

\* Two payloads in fragments, one way: they share a datagram and meet in the
\* reassembler, which has no room for both. NACKs arrive.
OneWay == (client :> <<User(1, 3), User(2, 2)>> @@ server :> <<>>)
OneWayAllows == (client :> {"nack"} @@ server :> {"expiry"})

\* The client asks to connect and pings, and may fall silent; the server answers
\* both with a window of one datagram, and may close. Little is sent, so that
\* every behaviour can be followed to its end.
Handshake == (client :> <<Internal("request")>> @@ server :> <<>>)
HandshakeAllows == (client :> {"ping", "silence"} @@ server :> {"close"})

\* The client sends a payload and pings while the server fills its window.
Replies == (client :> <<User(1, 1)>> @@ server :> <<User(2, 1), User(3, 1)>>)
RepliesAllows == (client :> {"ping"} @@ server :> {})

\* More fragments than Dedup remembers, though fewer are ever in flight.
Stream == (client :> <<User(1, 1), User(2, 4), User(3, 4)>> @@ server :> <<>>)
StreamAllows == (client :> {} @@ server :> {})
=============================================================================

----------------------------- MODULE RakPackets -----------------------------
(***************************************************************************)
(* The packets of RakNet as layouts: those exchanged before a connection   *)
(* exists (offline.rs, connect.rs, listener.rs) and those carried in       *)
(* frames (online.rs, session.rs). Where the reader of the repository      *)
(* looks at less than the writer writes, it has a layout of its own.       *)
(***************************************************************************)
EXTENDS Bytes

MAGIC == <<0, 255, 255, 0, 254, 254, 254, 254, 253, 253, 253, 253, 18, 52, 86, 120>>
PROTOCOL_VERSION == 11

Id(n) == Fixed(<<n>>)
FirstByte(buf) == IF buf = <<>> THEN -1 ELSE buf[1]

-----------------------------------------------------------------------------
(* Before a connection.                                                     *)

UnconnectedPing == <<Id(1), <<"time", Big(8)>>, Fixed(MAGIC), <<"guid", Big(8)>>>>
PingAsRead == <<Id(1), <<"time", Big(8)>>>>

UnconnectedPong ==
  <<Id(28), <<"time", Big(8)>>, <<"guid", Big(8)>>, Fixed(MAGIC), <<"advertisement", Counted(2)>>>>

Request1 == <<Id(5), Fixed(MAGIC), <<"version", U8>>, <<"padding", Rest>>>>
Request1AsRead == <<Id(5), <<"magic", Raw(16)>>, <<"version", U8>>>>

\* encode_request_1: the whole datagram is mtu bytes, or there is none.
EncodeRequest1(version, mtu) ==
  IF mtu < 18 THEN <<>>
  ELSE Write(Request1, [version |-> version, padding |-> [k \in 1 .. mtu - 18 |-> 0]])

Reply1 == <<Id(6), Fixed(MAGIC), <<"guid", Big(8)>>, <<"cookie", Option(4)>>, <<"mtu", Big(2)>>>>

Incompatible == <<Id(25), <<"version", U8>>, Fixed(MAGIC), <<"guid", Big(8)>>>>

\* A cookie is echoed with no flag of its own before it.
Request2(cookie) ==
  <<Id(7), Fixed(MAGIC)>>
    \o (IF cookie = <<>> THEN <<>> ELSE <<<<"cookie", Big(4)>>, Fixed(<<0>>)>>)
    \o <<<<"server", Address>>, <<"mtu", Big(2)>>, <<"guid", Big(8)>>>>
Request2AsRead ==
  <<Id(7), <<"magic", Raw(16)>>, <<"server", Address>>, <<"mtu", Big(2)>>>>

EncodeRequest2(server, mtu, guid, cookie) ==
  Write(Request2(cookie),
        [server |-> server, mtu |-> mtu, guid |-> guid,
         cookie |-> IF cookie = <<>> THEN 0 ELSE cookie[1]])

Reply2 ==
  <<Id(8), Fixed(MAGIC), <<"guid", Big(8)>>, <<"client", Address>>, <<"mtu", Big(2)>>,
    <<"encryption", U8>>>>

-----------------------------------------------------------------------------
(* In frames. How many address slots there are is not on the wire: what is  *)
(* not the two timestamps at the end is slots.                              *)

TRAILING_TIMESTAMPS == 16

ConnectionRequest == <<Id(9), <<"guid", Big(8)>>, <<"time", Big(8)>>, Fixed(<<0>>)>>
ConnectionRequestAsRead == <<Id(9), <<"guid", Big(8)>>, <<"time", Big(8)>>>>

Accepted ==
  <<Id(16), <<"client", Address>>, <<"index", Big(2)>>, <<"slots", Slots(TRAILING_TIMESTAMPS)>>,
    <<"request", Big(8)>>, <<"accepted", Big(8)>>>>

NewIncoming ==
  <<Id(19), <<"server", Address>>, <<"slots", Slots(TRAILING_TIMESTAMPS)>>,
    <<"request", Big(8)>>, <<"accepted", Big(8)>>>>

\* As many unassigned slots as the server sent.
EncodeNewIncoming(server, slots, request, accepted) ==
  Write(NewIncoming, [server |-> server, slots |-> [k \in 1 .. slots |-> UnassignedAddress],
                      request |-> request, accepted |-> accepted])

ConnectedPing == <<Id(0), <<"time", Big(8)>>>>
ConnectedPong == <<Id(3), <<"ping", Big(8)>>, <<"pong", Big(8)>>>>
Disconnect == <<21>>

USER_PACKET_START == 134
=============================================================================

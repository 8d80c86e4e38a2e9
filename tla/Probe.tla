-------------------------------- MODULE Probe --------------------------------
(***************************************************************************)
(* A connection from its first datagram to its last, as bytes: the probe   *)
(* of examples/connect.rs (or examples/ping.rs) at one end, and at the     *)
(* other the listener with one session for it, driven as examples/serve.rs *)
(* drives it. Each end encodes what it sends and decodes what it gets; the *)
(* path drops what is too large for it, and may lose, duplicate, delay and *)
(* reorder the rest. The server's session is a value of Session.tla.       *)
(*                                                                         *)
(* The probe gives up on time alone: how long it waits is not modelled,    *)
(* and its clock counts what it has sent. Sizes are small.                 *)
(***************************************************************************)
EXTENDS Session, Datagram, RakPackets

CONSTANTS
  Ladder,        \* MTU_LADDER, largest first
  LeastPayload,  \* the smallest payload limit of a session (576)
  SlotCount,     \* SYSTEM_ADDRESS_COUNT
  Receives,      \* datagrams the probe reads once connected (12)
  Setups,        \* what a run may meet: the largest datagram the path carries,
                 \* the address the server is bound to, the RakNet version the
                 \* probe was built with and which program it is
  Greeting,      \* the payload the server's caller sends a peer that joins
  MaxTicks,      \* ticks of the server
  MaxRepeats,    \* datagrams the path delivers a second time
  MaxSessions    \* sessions opened for the probe's address

ASSUME ProbeAssumption ==
  /\ {LeastPayload, SlotCount, Receives, MaxTicks, MaxRepeats, MaxSessions} \subseteq Nat
  /\ \A s \in Setups : s.path \in Nat /\ s.version \in Byte /\ s.program \in {"ping", "connect"}
  /\ \A k \in DOMAIN Ladder : Ladder[k] \in Nat

VARIABLES
  setup,     \* which of the Setups this is
  probe,     \* the probe: how far it is, the rung, its next index, what is left to read
  server,    \* the session for the probe, as a sequence of at most one
  limit,     \* its Config::payload_limit
  up, down,  \* the datagrams sent to the server and to the probe
  read,      \* history: what was decoded, at either end
  joined,    \* history: Listener has told of a connection
  ticks, opened, repeats

vars == <<setup, probe, server, limit, up, down, read, joined, ticks, opened, repeats>>

ServerGuid == 66051          \* three bytes, all different
ClientGuid == 263430
ServerTime == 770            \* now_millis at the server
ClientAddress == [ip |-> <<10, 1, 2, 3>>, port |-> 50001]
ServerAddress == [ip |-> <<10, 9, 8, 7>>, port |-> 19132]
Advertised == <<77, 67>>

\* The probe's clock.
Now(p) == 300 + p.sent

NewProbe(program) == [phase |-> program, rung |-> 0, sent |-> 0, left |-> Receives]

Init ==
  /\ setup \in Setups
  /\ probe = NewProbe(setup.program)
  /\ server = <<>> /\ limit = 0
  /\ up = {} /\ down = {}
  /\ read = {} /\ joined = FALSE /\ ticks = 0 /\ opened = 0 /\ repeats = 0

\* What of these datagrams the path carries.
Carried(datagrams) == {d \in datagrams : Len(d) <= setup.path}

\* One of them arrives; the path may keep a copy.
FromUp(bytes) ==
  \/ up' = up \ {bytes} /\ UNCHANGED repeats
  \/ UNCHANGED up /\ repeats < MaxRepeats /\ repeats' = repeats + 1

Arrived(bytes) ==
  \/ down' = down \ {bytes} /\ UNCHANGED repeats
  \/ UNCHANGED down /\ repeats < MaxRepeats /\ repeats' = repeats + 1

Reads(what, fields) == read' = read \cup {[what |-> what, fields |-> fields]}

-----------------------------------------------------------------------------
(* The session's payloads and datagrams, as bytes.                          *)

PayloadBytes(p, local) ==
  CASE p.kind = "accepted" -> Write(Accepted, [client |-> ClientAddress, index |-> 0,
                                 slots |-> [k \in 1 .. SlotCount |-> local],
                                 request |-> p.id, accepted |-> ServerTime])
    [] p.kind = "pong"     -> Write(ConnectedPong, [ping |-> p.id, pong |-> ServerTime])
    [] p.kind = "ping"     -> Write(ConnectedPing, [time |-> ServerTime])
    [] p.kind = "user"     -> Greeting

\* The id handle_internal echoes; 0 when the payload is too short to hold one.
EchoedTime(got) == IF got.ok THEN got.value.time ELSE 0

\* What handle_internal makes of a payload.
PayloadMeans(bytes) ==
  LET is(kind, id) == [kind |-> kind, id |-> id, parts |-> 1]
  IN CASE FirstByte(bytes) = 9  -> is("request", EchoedTime(Read(ConnectionRequestAsRead, bytes, 1)))
       [] FirstByte(bytes) = 19 -> is("incoming", 0)
       [] FirstByte(bytes) = 0  -> is("ping", EchoedTime(Read(ConnectedPing, bytes, 1)))
       [] FirstByte(bytes) = 21 -> is("disconnect", 0)
       [] FirstByte(bytes) >= USER_PACKET_START -> is("user", 0)
       [] OTHER -> is("none", 0)

\* The session's datagram, encoded.
EncodedFrame(f, bytes) ==
  EncodeFrame([NewFrame(ReliableOrdered, bytes) EXCEPT
    !.reliable = f.rel, !.order = f.ord, !.split = IF f.split = NoSplit THEN <<>> ELSE <<f.split>>])

Encoded(d, local, most) ==
  IF d.type = "ack" THEN EncodeAcks("ack", Ranges(d.seqs))
  ELSE FrameSet(d.seq, [k \in DOMAIN d.frames |->
         EncodedFrame(d.frames[k],
           Chunk(PayloadBytes(d.frames[k].payload, local), d.frames[k].split.index, most))])

\* The datagram the session is handed. The probe splits nothing.
Decoded(d, s) ==
  IF d.type = "ack"
    THEN [type |-> "ack", seqs |-> {q \in DOMAIN s.inFlight : InRanges(d.ranges, q)}]
  ELSE IF d.type = "nack"
    THEN [type |-> "nack", ranges |-> [k \in DOMAIN d.ranges |->
            {q \in DOMAIN s.inFlight : InRanges(<<d.ranges[k]>>, q)}]]
  ELSE [type |-> "frames", seq |-> d.sequence,
        frames |-> [k \in DOMAIN d.frames |->
          [rel |-> d.frames[k].reliable, ord |-> d.frames[k].order, split |-> NoSplit,
           payload |-> PayloadMeans(d.frames[k].payload)]]]

-----------------------------------------------------------------------------
(* The server: Listener::receive and offline, tick, and its caller.         *)

\* What follows a call into the session: the outbox is drained, and a session
\* that ended is dropped.
Settle(s) ==
  /\ down' = down \cup Carried({Encoded(d, setup.local, limit) : d \in Range(s.outbox)})
  /\ server' = IF IsClosed(s) THEN <<>> ELSE <<[s EXCEPT !.outbox = <<>>]>>
  /\ joined' = (joined \/ s.state = "Connected")

Respond(bytes) == down' = down \cup Carried({bytes})

OnUnconnectedPing(got) ==
  /\ got.ok
  /\ Respond(Write(UnconnectedPong, [time |-> got.value.time, guid |-> ServerGuid,
                                     advertisement |-> Advertised]))
  /\ UNCHANGED <<server, limit, read, joined, opened>>

\* The size that arrived, with the headers back.
AdvertisedMtu(length) == UDP_IP_OVERHEAD + IF length < Ladder[1] THEN length ELSE Ladder[1]

OnRequest1(got, length) ==
  /\ got.ok
  /\ Respond(IF got.value.version # PROTOCOL_VERSION
             THEN Write(Incompatible, [version |-> PROTOCOL_VERSION, guid |-> ServerGuid])
             ELSE Write(Reply1, [guid |-> ServerGuid, cookie |-> <<>>, mtu |-> AdvertisedMtu(length)]))
  /\ UNCHANGED <<server, limit, read, joined, opened>>

\* Mutant: the MTU is taken for what a datagram may hold.
SessionLimitWide(mtu) == IF mtu < LeastPayload THEN LeastPayload ELSE mtu
SessionLimit(mtu) ==
  IF PayloadLimit(mtu) < LeastPayload THEN LeastPayload ELSE PayloadLimit(mtu)

OnRequest2(got) ==
  /\ got.ok /\ opened < MaxSessions
  /\ Respond(Write(Reply2, [guid |-> ServerGuid, client |-> ClientAddress,
                            mtu |-> got.value.mtu, encryption |-> 0]))
  /\ server' = <<NewSession>> /\ opened' = opened + 1
  /\ limit' = SessionLimit(got.value.mtu)
  /\ Reads("request 2", [server |-> got.value.server, mtu |-> got.value.mtu])
  /\ UNCHANGED joined

ServerReceivesOffline ==
  /\ server = <<>>
  /\ \E bytes \in up :
       /\ FromUp(bytes)
       /\ \/ FirstByte(bytes) = 1 /\ OnUnconnectedPing(Read(PingAsRead, bytes, 1))
          \/ FirstByte(bytes) = 5 /\ OnRequest1(Read(Request1AsRead, bytes, 1), Len(bytes))
          \/ FirstByte(bytes) = 7 /\ OnRequest2(Read(Request2AsRead, bytes, 1))
  /\ UNCHANGED <<setup, probe, ticks>>

\* What the session of that address was told, for the record.
Told(d) ==
  IF d.type # "frames" THEN {}
  ELSE {[what |-> "frame",
         fields |-> [kind |-> f.payload.kind, id |-> f.payload.id, order |-> f.ord]] :
        f \in Range(d.frames)}

OnDatagram(d) ==
  /\ Settle(Receive(server[1], d).s)
  /\ read' = read \cup Told(d)

ServerReceives ==
  /\ server # <<>>
  /\ \E bytes \in up :
       /\ FromUp(bytes)
       /\ \E d \in Range(DecodeDatagram(bytes)) : OnDatagram(Decoded(d, server[1]))
  /\ UNCHANGED <<setup, probe, limit, ticks, opened>>

\* No datagram is due: one sent again is one that the path repeats.
ServerTicks(ping) ==
  /\ server # <<>> /\ ticks < MaxTicks
  /\ Settle(Tick(server[1], {}, {}, FALSE, ping))
  /\ ticks' = ticks + 1
  /\ UNCHANGED <<setup, probe, limit, up, read, opened, repeats>>

\* The caller sends a payload to a peer that has joined.
ServerGreets ==
  /\ server # <<>> /\ server[1].state = "Connected"
  /\ \A k \in DOMAIN server[1].log : server[1].log[k].kind # "user"
  /\ Settle(Send(server[1], [kind |-> "user", id |-> 0, parts |-> Parts(Len(Greeting), limit)]).s)
  /\ UNCHANGED <<setup, probe, limit, up, read, ticks, opened, repeats>>

-----------------------------------------------------------------------------
(* The probe.                                                               *)

\* send_reliable: every payload in a datagram of its own.
Framed(sent, payloads) ==
  {FrameSet(sent + k - 1,
     <<EncodeFrame([NewFrame(ReliableOrdered, payloads[k]) EXCEPT
                      !.reliable = sent + k - 1, !.order = sent + k - 1])>>) : k \in DOMAIN payloads}

AckOf(sequence) == EncodeAcks("ack", <<<<sequence, sequence>>>>)

Ends(phase) == probe' = [probe EXCEPT !.phase = phase] /\ UNCHANGED up

\* examples/ping.rs.
SendPing ==
  /\ probe.phase = "ping"
  /\ probe' = [probe EXCEPT !.phase = "pinging"]
  /\ up' = up \cup Carried({Write(UnconnectedPing, [time |-> Now(probe), guid |-> ClientGuid])})
  /\ UNCHANGED <<setup, server, limit, down, read, joined, ticks, opened, repeats>>

OnPong(got) == IF got.ok THEN Reads("unconnected pong", got.value) ELSE UNCHANGED read

TakePong ==
  /\ probe.phase = "pinging"
  /\ \E bytes \in down : Arrived(bytes) /\ OnPong(Read(UnconnectedPong, bytes, 1))
  /\ Ends("done")
  /\ UNCHANGED <<setup, server, limit, joined, ticks, opened>>

\* open: the next rung, when the one before it got no answer in time.
SendRequest1 ==
  /\ probe.phase \in {"connect", "asking"} /\ probe.rung < Len(Ladder)
  /\ probe' = [probe EXCEPT !.phase = "asking", !.rung = @ + 1]
  /\ up' = up \cup Carried({EncodeRequest1(setup.version, Ladder[probe.rung + 1])})
  /\ UNCHANGED <<setup, server, limit, down, read, joined, ticks, opened, repeats>>

\* The first datagram to arrive decides, whichever rung it answers.
OnReply1(got) ==
  IF got.ok
    THEN /\ probe' = [probe EXCEPT !.phase = "opening"]
         /\ Reads("reply 1", got.value)
         /\ up' = up \cup Carried({EncodeRequest2(ServerAddress, got.value.mtu, ClientGuid,
                                                  got.value.cookie)})
    ELSE Ends("done") /\ UNCHANGED read

OnIncompatible(got) ==
  Ends("done") /\ IF got.ok THEN Reads("incompatible", got.value) ELSE UNCHANGED read

TakeReply1 ==
  /\ probe.phase = "asking"
  /\ \E bytes \in down :
       /\ Arrived(bytes)
       /\ \/ FirstByte(bytes) = 6 /\ OnReply1(Read(Reply1, bytes, 1))
          \/ FirstByte(bytes) = 25 /\ OnIncompatible(Read(Incompatible, bytes, 1))
          \/ FirstByte(bytes) \notin {6, 25} /\ Ends("done") /\ UNCHANGED read
  /\ UNCHANGED <<setup, server, limit, joined, ticks, opened>>

\* The next datagram must be reply 2: a late answer to another rung ends the
\* probe. The session the server has made for it is left to time out.
OnReply2(got) ==
  IF got.ok
    THEN /\ probe' = [probe EXCEPT !.phase = "connected", !.sent = 1]
         /\ Reads("reply 2", got.value)
         /\ up' = up \cup Carried(Framed(0,
              <<Write(ConnectionRequest, [guid |-> ClientGuid, time |-> Now(probe)])>>))
    ELSE Ends("done") /\ UNCHANGED read

TakeReply2 ==
  /\ probe.phase = "opening"
  /\ \E bytes \in down : Arrived(bytes) /\ OnReply2(Read(Reply2, bytes, 1))
  /\ UNCHANGED <<setup, server, limit, joined, ticks, opened>>

\* The body of connected's inner loop, on the probe, what it has sent and what it
\* has read so far. A packet that does not decode ends the probe where it is.
Heard(acc, what, fields) == acc.read \cup {[what |-> what, fields |-> fields]}

OnAccepted(acc, got) ==
  IF ~ got.ok THEN [acc EXCEPT !.over = TRUE]
  ELSE [acc EXCEPT !.read = Heard(acc, "accepted", got.value),
          !.out = @ \o <<EncodeNewIncoming(ServerAddress, Len(got.value.slots), got.value.request,
                                           got.value.accepted),
                         Write(ConnectedPing, [time |-> 300 + acc.sent + Len(acc.out) + 1])>>]

OnConnectedPong(acc, got) ==
  IF ~ got.ok THEN [acc EXCEPT !.over = TRUE]
  ELSE [acc EXCEPT !.read = Heard(acc, "pong", got.value), !.over = TRUE,
          !.out = Append(@, Disconnect)]

TakeProbeFrame(acc, f) ==
  CASE acc.over -> acc
    [] FirstByte(f.payload) = 16 -> OnAccepted(acc, Read(Accepted, f.payload, 1))
    [] FirstByte(f.payload) = 3 -> OnConnectedPong(acc, Read(ConnectedPong, f.payload, 1))
    [] OTHER -> [acc EXCEPT !.read = Heard(acc, "other", [split |-> f.split, bytes |-> f.payload])]

AfterFrames(sequence, end) ==
  /\ probe' = [probe EXCEPT !.left = @ - 1, !.sent = @ + Len(end.out),
                 !.phase = IF end.over THEN "done" ELSE @]
  /\ read' = end.read
  /\ up' = up \cup Carried({AckOf(sequence)} \cup Framed(probe.sent, end.out))

OnFrames(d) ==
  AfterFrames(d.sequence,
    FoldLeft(TakeProbeFrame, [read |-> read, out |-> <<>>, over |-> FALSE, sent |-> probe.sent],
             d.frames))

Unread == probe' = [probe EXCEPT !.left = @ - 1] /\ UNCHANGED <<up, read>>

\* One datagram of the loop: every frame set is acknowledged by itself, and
\* nothing is deduplicated or put in order.
TakeDatagram ==
  /\ probe.phase = "connected" /\ probe.left > 0
  /\ \E bytes \in down :
       /\ Arrived(bytes)
       /\ \E d \in {DecodeDatagram(bytes)} :
            IF d # <<>> /\ d[1].type = "frames" THEN OnFrames(d[1]) ELSE Unread
  /\ UNCHANGED <<setup, server, limit, joined, ticks, opened>>

\* No answer in time, or all reads are used up.
GiveUp ==
  /\ \/ probe.phase \in {"pinging", "opening"} /\ Ends("done")
     \/ probe.phase = "asking" /\ probe.rung = Len(Ladder) /\ Ends("done")
     \/ /\ probe.phase = "connected"
        /\ probe' = [probe EXCEPT !.phase = "done", !.sent = @ + 1]
        /\ up' = up \cup Carried(Framed(probe.sent, <<Disconnect>>))
  /\ UNCHANGED <<setup, server, limit, down, read, joined, ticks, opened, repeats>>

Next ==
  \/ SendPing \/ TakePong \/ SendRequest1 \/ TakeReply1 \/ TakeReply2 \/ TakeDatagram \/ GiveUp
  \/ ServerReceivesOffline \/ ServerReceives \/ ServerGreets
  \/ \E ping \in BOOLEAN : ServerTicks(ping)

Spec == Init /\ [][Next]_vars

-----------------------------------------------------------------------------
OnWire(a) == IF Len(a.ip) = 4 THEN a ELSE UnassignedAddress
PingTimes == {302 + 2 * n : n \in 0 .. Receives}
Mtus == {m + UDP_IP_OVERHEAD : m \in {x \in Range(Ladder) : x <= setup.path}}

\* What each end may have meant by what the other reads.
MeantBy(r) ==
  LET f == r.fields
  IN CASE r.what = "unconnected pong" ->
            f = [time |-> 300, guid |-> ServerGuid, advertisement |-> Advertised]
       [] r.what = "reply 1" -> f.guid = ServerGuid /\ f.cookie = <<>> /\ f.mtu \in Mtus
       [] r.what = "incompatible" -> f = [version |-> PROTOCOL_VERSION, guid |-> ServerGuid]
       [] r.what = "request 2" -> f.server = ServerAddress /\ f.mtu \in Mtus
       [] r.what = "reply 2" ->
            /\ f.guid = ServerGuid /\ f.client = ClientAddress
            /\ f.mtu \in Mtus /\ f.encryption = 0
       [] r.what = "accepted" ->
            f = [client |-> ClientAddress, index |-> 0, request |-> 300, accepted |-> ServerTime,
                 slots |-> [k \in 1 .. SlotCount |-> OnWire(setup.local)]]
       [] r.what = "pong" -> f.ping \in PingTimes /\ f.pong = ServerTime
       [] r.what = "frame" ->
            \/ f = [kind |-> "request", id |-> 300, order |-> 0]
            \/ f.kind = "incoming" /\ f.order + 301 \in PingTimes
            \/ f.kind = "ping" /\ f.id \in PingTimes /\ f.order = f.id - 300
            \/ f.kind = "disconnect" /\ f.order <= 2 * Receives + 1
       [] r.what = "other" /\ f.split = <<>> ->
            f.bytes \in {Greeting, Write(ConnectedPing, [time |-> ServerTime])}
       [] r.what = "other" ->
            \E mtu \in Mtus :
              /\ f.split[1].count = Parts(Len(Greeting), SessionLimit(mtu))
              /\ f.bytes = Chunk(Greeting, f.split[1].index, SessionLimit(mtu))

(* Two writers and two readers, one protocol: whatever is lost, repeated or *)
(* overtaken on the way, what either end decodes is what the other encoded, *)
(* addresses, times, sizes, indices and fragments alike.                    *)
ReadAsMeant == \A r \in read : MeantBy(r)

(* encode_request_1, offline, payload_limit and fragment_capacity: three    *)
(* files add and subtract headers, and what comes out is that no datagram   *)
(* with frames is larger than the path let through in the opening.          *)
FitsPath ==
  \A s \in Range(server) : \A q \in DOMAIN s.inFlight :
    Len(Encoded(s.inFlight[q].datagram, setup.local, limit)) <= setup.path

(* connected prints that the connection is established when a pong comes.   *)
(* It is one: the listener has told its caller that the peer joined, though *)
(* NewIncomingConnection itself is answered by nothing.                     *)
PongAfterJoin == (\E r \in read : r.what = "pong") => joined
=============================================================================

------------------------------- MODULE Server -------------------------------
(***************************************************************************)
(* The game server above the transport (bedrock-server's Server): what it  *)
(* keeps for each peer, and the login and world sequence it runs with it,  *)
(* in batches as they stand on the wire. Below it lie two channels per     *)
(* session, in order and without loss, as Link.tla shows them to be while  *)
(* nothing is refused. A session has room for Window unread payloads;      *)
(* Listener::send refuses the next one, and every call of it here ignores  *)
(* that (let _ =). The Minecraft client is external: it answers what it    *)
(* receives, in the order the tests and the comments of server.rs          *)
(* describe. Columns have one axis here, and z is 0; the code treats the   *)
(* other one alike.                                                        *)
(***************************************************************************)
EXTENDS GamePackets, Identity, FiniteSets, SequencesExt

CONSTANTS
  Peers,         \* addresses
  Window,        \* payloads a session takes before it refuses
  MaxRadius,     \* SERVER_CHUNK_RADIUS
  Margin,        \* FORGET_MARGIN
  Surface,       \* SURFACE_HEIGHT
  Ground,        \* the blocks of a column's subchunks, from the bottom
  Stages,        \* the stages the server may be started with
  KeySets,       \* the key sets the issuer has published
  Clocks,        \* what the wall clock may say when a login arrives
  Tokens,        \* the identity tokens there are; byte k names the k-th
  Logins,        \* the logins clients present: [protocol, token, holds], holds
                 \* being the public key the client has the other half of
  Radii,         \* radii clients ask for
  Places,        \* positions clients walk to, in hundredths of a block
  MaxOpens,      \* sessions opened per address
  MaxTrips       \* moves and further radius requests per session

ASSUME ServerAssumption ==
  /\ {Window, MaxRadius, Margin, Surface, MaxOpens, MaxTrips} \subseteq Nat
  /\ Radii \cup Places \cup Clocks \subseteq Int
  /\ Len(Tokens) < 256 /\ MaxOpens < 256

\* What stands on the wire is bytes, and its numbers are below what Bytes reads as
\* Huge; there are no more subchunks than the dimension has.
ASSUME WireAssumption ==
  /\ \A x \in Places : ZigZag(x) <= MostFixed
  /\ \A r \in Radii : ZigZag(r) <= MostVaried
  /\ MaxRadius <= 1000000 /\ Surface <= 1000000
  /\ Ground \in Seq(Nat) /\ Len(Ground) <= OVERWORLD_SUBCHUNKS
  /\ \A k \in DOMAIN Ground : ZigZag(Ground[k]) <= MostVaried
  /\ \A l \in Logins :
       /\ l \in [protocol : Nat, token : Byte, holds : Seq(Byte)]
       /\ l.protocol <= MostFixed /\ Len(l.holds) <= Limits.max_client_data
  /\ \A k \in DOMAIN Tokens : Tokens[k].cpk \in Seq(Byte)
  /\ \A keys \in KeySets : keys \in Seq(Range(keys))

\* Stage, in its derived order.
StageNames == <<"StartGame", "World", "Radius", "Chunks", "Spawn">>

ASSUME StagesAssumption == Stages \subseteq Range(StageNames)

VARIABLES
  stage,         \* Server.stage
  identityKeys,  \* the issuer's keys, once the caller has supplied them
  peer,          \* what settled, keys, ciphers, protocols and players hold of each
                 \* peer, and the payloads a call is about to send it
  sessions,      \* addresses with a session in the listener
  toClient,      \* payloads on their way to the client of each address
  toServer,      \* payloads on their way to the server
  client,        \* the client at each address (external)
  opens,         \* sessions opened so far at each address; numbers the key too
  dropped,       \* history: peers a payload of this session was refused for
  carried        \* history: peers whose session began with an earlier one's state

wires == <<toClient, toServer>>
vars == <<stage, identityKeys, peer, sessions, wires, client, opens, dropped, carried>>

TARGET_PROTOCOL == 1001
MINECRAFT_VERSION == <<49>>
WorldName == <<98>>
Build == <<48>>

AtLeast(name) ==
  \E i, j \in DOMAIN StageNames : i >= j /\ StageNames[i] = stage /\ StageNames[j] = name

Nothing == [settled |-> FALSE, key |-> FALSE, cipher |-> <<>>, protocol |-> <<>>,
            player |-> <<>>, out |-> <<>>]

Away == [phase |-> "away", key |-> <<>>, login |-> <<>>, taken |-> 0, sent |-> 0,
         at |-> 0, area |-> <<>>, columns |-> {}, trips |-> 0]

\* A batch on the wire. Its marker is always in the clear; the rest is encrypted
\* under a key and a packet counter, or under none.
InClear(bytes) == [key |-> <<>>, n |-> 0, bytes |-> bytes]
Sealed(cipher, bytes) == [key |-> cipher.key, n |-> cipher.sent, bytes |-> bytes]

Request == Encode(<<NewPacket(ID_REQUEST_NETWORK_SETTINGS,
                              Write(RequestNetworkSettings, [protocol |-> TARGET_PROTOCOL]))>>)

Init ==
  /\ stage \in Stages
  /\ identityKeys \in {<<>>} \cup {<<keys>> : keys \in KeySets}
  /\ peer = [p \in Peers |-> Nothing]
  /\ sessions = {}
  /\ toClient = [p \in Peers |-> <<>>]
  /\ toServer = [p \in Peers |-> <<>>]
  /\ client = [p \in Peers |-> Away]
  /\ opens = [p \in Peers |-> 0]
  /\ dropped = {} /\ carried = {}

-----------------------------------------------------------------------------
(* The handlers work on v, what is kept for the peer at hand.               *)

Tell(v, bytes) == [v EXCEPT !.out = Append(@, InClear(bytes))]

\* Mutant: the counter does not move with every packet.
SendEncryptedOnce(v, packet) ==
  IF v.cipher = <<>> THEN v
  ELSE [v EXCEPT !.out = Append(@, Sealed(v.cipher[1], EncodeWithMethod(<<packet>>))),
                 !.cipher[1].sent = IF v.out = <<>> THEN @ + 1 ELSE @]

\* send_encrypted: the counter moves whether or not the session takes the payload.
SendEncrypted(v, packet) ==
  IF v.cipher = <<>> THEN v
  ELSE [v EXCEPT !.out = Append(@, Sealed(v.cipher[1], EncodeWithMethod(<<packet>>))),
                 !.cipher[1].sent = @ + 1]

-----------------------------------------------------------------------------
(* The login, in the clear.                                                 *)

\* verify_identity: the claims, or nothing.
VerifyIdentity(identity, now) ==
  IF identityKeys = <<>> \/ Len(identity) # 1 \/ identity[1] \notin DOMAIN Tokens THEN <<>>
  ELSE Verify(Tokens[identity[1]], identityKeys[1], Expected, now)

\* Mutant: the key to agree with is the one the login also carries.
StartCipherClaimed(v, key, claims, clientData) ==
  IF Agree(key, clientData) = <<>> THEN v
  ELSE [v EXCEPT !.cipher = <<[key |-> Agree(key, clientData), sent |-> 0, received |-> 0,
                              aligned |-> TRUE]>>]

\* A client key that is no key leaves no cipher.
StartCipher(v, key, claims, clientData) ==
  IF Agree(key, claims.cpk) = <<>> THEN v
  ELSE [v EXCEPT !.cipher = <<[key |-> Agree(key, claims.cpk), sent |-> 0, received |-> 0,
                              aligned |-> TRUE]>>]

\* The rest of on_login: the key is the one generated now, and the token that
\* carries it to the client is one byte.
Admit(v, key, login, claims) ==
  IF claims = <<>> THEN Tell(v, EncodeWithMethod(<<StatusPacket("InvalidTenant")>>))
  ELSE [StartCipher(Tell(v, EncodeWithMethod(<<ServerToClientHandshake(<<key>>)>>)),
                    key, claims[1], login.client_data)
          EXCEPT !.key = TRUE, !.protocol = <<login.protocol>>]

OnLogin(v, key, now, login) ==
  IF login.ok THEN Admit(v, key, login.value, VerifyIdentity(login.value.identity, now)) ELSE v

OnNetworkSettings(v) == [Tell(v, Encode(<<Uncompressed>>)) EXCEPT !.settled = TRUE]

\* One packet of a batch in the clear; most are only reported.
OnClear(v, key, now, packet) ==
  CASE packet.id = ID_REQUEST_NETWORK_SETTINGS -> OnNetworkSettings(v)
    [] packet.id = ID_LOGIN -> OnLogin(v, key, now, DecodeLogin(packet.body))
    [] OTHER -> v

-----------------------------------------------------------------------------
(* The world: stream_around, stream_world, on_player_moved.                 *)

ColumnsAround(center, radius) == [k \in 1 .. 2 * radius + 1 |-> center - radius + k - 1]

\* What stream_around leaves remembered.
Remembered(player, center) ==
  {x \in player.sent : x - center \in -(player.radius + Margin) .. player.radius + Margin}

ColumnBytes == ColumnPayload(Ground)
ColumnPacket(x) == LevelChunkPacket(x, 0, Len(Ground), ColumnBytes)

SendColumn(v, x) ==
  IF x \in v.player[1].sent THEN v
  ELSE SendEncrypted([v EXCEPT !.player[1].sent = @ \cup {x}], ColumnPacket(x))

\* As i32, towards zero.
WholeBlocks(hundredths) ==
  IF hundredths >= 0 THEN hundredths \div 100 ELSE -((-hundredths) \div 100)

\* Mutant: the radius is given in columns.
PublisherInColumns(player, center) ==
  PublisherPacket(center * CHUNK_WIDTH, WholeBlocks(player.y - POSITION_OFFSET), 0, player.radius)

Publisher(player, center) ==
  PublisherPacket(center * CHUNK_WIDTH, WholeBlocks(player.y - POSITION_OFFSET), 0,
                  player.radius * CHUNK_WIDTH)

StreamAround(v, center) ==
  FoldLeft(SendColumn,
           SendEncrypted([v EXCEPT !.player[1].center = center,
                                   !.player[1].sent = Remembered(v.player[1], center)],
                         Publisher(v.player[1], center)),
           ColumnsAround(center, v.player[1].radius))

NewPlayer(radius) == [radius |-> radius, center |-> 0, sent |-> {}, x |-> 0, y |-> 100 * Surface]

\* Mutant: the client is told to spawn before the columns.
StreamWorldSpawnFirst(v, radius) ==
  LET told == IF AtLeast("Spawn") THEN SendEncrypted(v, StatusPacket("PlayerSpawn")) ELSE v
  IN StreamAround([told EXCEPT !.player = <<NewPlayer(radius)>>], 0)

StreamWorld(v, radius) ==
  LET streamed == StreamAround([v EXCEPT !.player = <<NewPlayer(radius)>>], 0)
  IN IF AtLeast("Spawn") THEN SendEncrypted(streamed, StatusPacket("PlayerSpawn")) ELSE streamed

GrantRadius(v, radius) ==
  LET told == SendEncrypted(v, RadiusGranted(radius))
  IN IF AtLeast("Chunks") THEN StreamWorld(told, radius) ELSE told

OnRadius(v, request) ==
  IF request.ok /\ AtLeast("Radius") THEN GrantRadius(v, Grant(request.value, MaxRadius)) ELSE v

\* Mutant: towards zero, so that the columns on both sides of 0 are one.
ColumnOfTruncated(x) == LET a == IF x < 0 THEN -x ELSE x IN IF x < 0 THEN -(a \div 1600) ELSE a \div 1600

\* floor, then div_euclid.
ColumnOf(x) == (x \div 100) \div CHUNK_WIDTH

Walked(v, center) == IF center = v.player[1].center THEN v ELSE StreamAround(v, center)

OnPlayerMoved(v, input) ==
  IF ~ input.ok \/ v.player = <<>> THEN v
  ELSE Walked([v EXCEPT !.player[1].x = input.value.x, !.player[1].y = input.value.y],
              ColumnOf(input.value.x))

-----------------------------------------------------------------------------
(* on_plaintext and on_payload.                                             *)

\* An account of an outdated client ends there.
OnHandshake(v) ==
  LET verdict == ForVersionMismatch(IF v.protocol = <<>> THEN TARGET_PROTOCOL ELSE v.protocol[1],
                                    TARGET_PROTOCOL)
      told    == SendEncrypted(v, StatusPacket(verdict))
  IN IF verdict = "LoginSuccess" THEN SendEncrypted(told, PacksInfoEmpty) ELSE told

World == StartGamePacket(FlatWorld(WorldName, MINECRAFT_VERSION, Build, Surface))

OnPacksDone(v) ==
  IF stage = "World" THEN FoldLeft(SendEncrypted, SendEncrypted(v, World), AllEmpty)
  ELSE SendEncrypted(v, World)

\* Mutant: only the client that has downloaded nothing is answered.
OnPacksAnsweredOnePath(v, got) ==
  IF got.ok /\ got.value.response = Responses.Completed THEN OnPacksDone(v) ELSE v

OnPacksAnswered(v, got) ==
  CASE got.ok /\ got.value.response = Responses.HaveAllPacks ->
         SendEncrypted(v, PackStackEmpty(MINECRAFT_VERSION))
    [] got.ok /\ got.value.response = Responses.Completed -> OnPacksDone(v)
    [] OTHER -> v

\* One packet of a batch that came out of the cipher.
OnPlaintext(v, packet) ==
  CASE packet.id = ID_CLIENT_TO_SERVER_HANDSHAKE -> OnHandshake(v)
    [] packet.id = ID_RESOURCE_PACK_CLIENT_RESPONSE ->
         OnPacksAnswered(v, Read(ClientResponse, packet.body, 1))
    [] packet.id = ID_REQUEST_CHUNK_RADIUS -> OnRadius(v, Read(RadiusRequest, packet.body, 1))
    [] packet.id = ID_PLAYER_AUTH_INPUT -> OnPlayerMoved(v, Read(AuthInput, packet.body, 1))
    [] OTHER -> v

CHECKSUM_LEN == 8
BodyLen(m) == Len(m.bytes) - 1 + IF m.key = <<>> THEN 0 ELSE CHECKSUM_LEN

\* Cipher::decrypt: the keystream moves unless the packet is too short for a
\* checksum, the counter only if the checksum holds.
Decrypts(cipher, m) == cipher.aligned /\ m.key = cipher.key /\ m.n = cipher.received
AfterDecrypt(v, m) ==
  IF BodyLen(m) < CHECKSUM_LEN THEN v
  ELSE IF Decrypts(v.cipher[1], m) THEN [v EXCEPT !.cipher[1].received = @ + 1]
  ELSE [v EXCEPT !.cipher[1].aligned = FALSE]

OnPackets(v, packets) == IF packets.ok THEN FoldLeft(OnPlaintext, v, packets.value) ELSE v

OnClearPackets(v, key, now, packets) ==
  IF packets.ok THEN FoldLeft(LAMBDA w, packet : OnClear(w, key, now, packet), v, packets.value)
  ELSE v

\* on_payload: the plaintext's first byte is the method, which is not looked at.
\* What was sealed reads as nothing in the clear.
OnPayload(v, key, now, m) ==
  CASE v.cipher # <<>> /\ Decrypts(v.cipher[1], m) ->
         OnPackets(AfterDecrypt(v, m), DecodePackets(m.bytes, 3))
    [] v.cipher # <<>> /\ ~ Decrypts(v.cipher[1], m) -> AfterDecrypt(v, m)
    [] v.cipher = <<>> /\ m.key # <<>> -> v
    [] OTHER -> OnClearPackets(v, key, now,
                  IF v.settled THEN DecodeWithMethod(m.bytes) ELSE Decode(m.bytes))

\* Listener::send of each payload in turn, refusals ignored.
Commit(p, v) ==
  LET room == Window - Len(toClient[p])
  IN /\ peer' = [peer EXCEPT ![p] = [v EXCEPT !.out = <<>>]]
     /\ toClient' = [toClient EXCEPT ![p] = @ \o SubSeq(v.out, 1,
                       IF room < Len(v.out) THEN room ELSE Len(v.out))]
     /\ dropped' = IF room < Len(v.out) THEN dropped \cup {p} ELSE dropped

\* The next payload of a channel is taken, in a session that stays.
FromClient(p) ==
  toServer[p] # <<>> /\ toServer' = [toServer EXCEPT ![p] = Tail(@)] /\ sessions' = sessions
FromServer(p) ==
  toClient[p] # <<>> /\ toClient' = [toClient EXCEPT ![p] = Tail(@)] /\ sessions' = sessions

\* The caller has told the server the time (set_clock) on the same pass of its
\* loop; only a login looks at it.
Receive(p) ==
  /\ FromClient(p)
  /\ \E now \in Clocks : Commit(p, OnPayload(peer[p], opens[p], now, Head(toServer[p])))
  /\ UNCHANGED <<stage, identityKeys, client, opens, carried>>

-----------------------------------------------------------------------------
(* The client (external).                                                   *)

Told(id, layout, rec) == NewPacket(id, Write(layout, rec))

RadiusWanted(r) == Told(ID_REQUEST_CHUNK_RADIUS, RadiusRequest, [radius |-> r, max_radius |-> 16])
Answered(name) == Told(ID_RESOURCE_PACK_CLIENT_RESPONSE, ClientResponse, [response |-> Responses[name]])
Moved(x) == Told(ID_PLAYER_AUTH_INPUT, AuthInput,
                 [pitch |-> 0, yaw |-> 0, x |-> x, y |-> 100 * Surface + POSITION_OFFSET, z |-> 0])
Initialized == NewPacket(ID_SET_LOCAL_PLAYER_AS_INITIALIZED, <<1>>)

\* A column outside the area last published is discarded, and so is one whose
\* payload is not the subchunks it announces, the biomes and nothing more.
Keeps(c, column) ==
  /\ c.area # <<>>
  /\ 16 * column.x - c.area[1].x \in -c.area[1].radius .. c.area[1].radius
  /\ column.payload = ColumnPayload(SubSeq(Ground, 1, column.subchunks))

Just(c, packets) == {[next |-> c, packets |-> packets]}
As(c, phase) == [c EXCEPT !.phase = phase]

OnStatus(c, status) ==
  CASE status = Status.PlayerSpawn ->
         Just(As(c, "spawned"), <<Initialized>>) \cup Just(As(c, "spawned"), <<Initialized, Moved(c.at)>>)
    [] status = Status.LoginSuccess -> Just(c, <<>>)
    [] OTHER -> Just(As(c, "refused"), <<>>)

\* What it may do about one packet: its next state and the batch it sends.
Reactions(c, packet) ==
  LET got(layout) == Read(layout, packet.body, 1).value
  IN CASE packet.id = ID_NETWORK_SETTINGS ->
            {[next    |-> [c EXCEPT !.phase = "login", !.login = <<l>>],
              packets |-> <<EncodeLogin(l.protocol, <<l.token>>, l.holds)>>] : l \in Logins}
       [] packet.id = ID_SERVER_TO_CLIENT_HANDSHAKE ->
            Just([c EXCEPT !.phase = "keyed", !.key = Agree(got(HandshakeToken).token[1], c.login[1].holds)],
                 <<NewPacket(ID_CLIENT_TO_SERVER_HANDSHAKE, <<>>)>>)
       [] packet.id = ID_PLAY_STATUS -> OnStatus(c, got(PlayStatus).status)
       [] packet.id = ID_RESOURCE_PACKS_INFO ->
            Just(As(c, "packs"), <<Answered("HaveAllPacks")>>) \cup
            Just(As(c, "packs"), <<Answered("Completed")>>)
       [] packet.id = ID_RESOURCE_PACK_STACK -> Just(c, <<Answered("Completed")>>)
       [] packet.id = ID_START_GAME ->
            {[next    |-> [c EXCEPT !.phase = "world", !.at = got(StartGame).x],
              packets |-> <<RadiusWanted(r)>>] : r \in Radii}
       [] packet.id = ID_NETWORK_CHUNK_PUBLISHER_UPDATE ->
            Just([c EXCEPT !.area = <<[x |-> got(PublisherUpdate).x, radius |-> got(PublisherUpdate).radius]>>],
                 <<>>)
       [] packet.id = ID_LEVEL_CHUNK ->
            Just(IF Keeps(c, got(LevelChunk)) THEN [c EXCEPT !.columns = @ \cup {got(LevelChunk).x}] ELSE c,
                 <<>>)
       [] OTHER -> Just(c, <<>>)

Batched(c, packets) ==
  IF packets = <<>> THEN <<>>
  ELSE <<[key |-> c.key, n |-> IF c.key = <<>> THEN 0 ELSE c.sent, bytes |-> EncodeWithMethod(packets)]>>

Readable(c, m) == m.key = c.key /\ (m.key # <<>> => m.n = c.taken)

\* It has been told of the method byte once it has sent its login.
Opened(c, m) ==
  IF c.phase = "stuck" \/ ~ Readable(c, m) THEN Failed
  ELSE IF c.phase = "asked" THEN Decode(m.bytes) ELSE DecodeWithMethod(m.bytes)

Answers(p, r, out) ==
  /\ toServer' = [toServer EXCEPT ![p] = @ \o out]
  /\ client' = [client EXCEPT ![p] = [r EXCEPT !.sent = IF r.key = <<>> THEN @ ELSE @ + Len(out)]]

\* A client that cannot read a payload can read nothing after it. The server
\* puts one packet in a batch.
Takes(p, got) ==
  IF got.ok /\ Len(got.value) = 1
    THEN \E r \in Reactions([client[p] EXCEPT !.taken = IF @ = 0 /\ client[p].key = <<>> THEN 0 ELSE @ + 1],
                            got.value[1]) :
           Answers(p, r.next, Batched(r.next, r.packets))
    ELSE client' = [client EXCEPT ![p].phase = "stuck"] /\ UNCHANGED toServer

ClientTakes(p) ==
  /\ FromServer(p)
  /\ Takes(p, Opened(client[p], Head(toClient[p])))
  /\ UNCHANGED <<stage, identityKeys, peer, opens, dropped, carried>>

\* In the world the player walks, or changes the view distance.
ClientActs(p) ==
  /\ client[p].phase = "spawned" /\ client[p].trips < MaxTrips
  /\ \/ \E x \in Places :
          Answers(p, [client[p] EXCEPT !.trips = @ + 1, !.at = x], Batched(client[p], <<Moved(x)>>))
     \/ \E r \in Radii :
          Answers(p, [client[p] EXCEPT !.trips = @ + 1], Batched(client[p], <<RadiusWanted(r)>>))
  /\ UNCHANGED <<stage, identityKeys, peer, sessions, toClient, opens, dropped, carried>>

-----------------------------------------------------------------------------
(* Sessions begin and end; the caller supplies keys.                        *)

\* A session opens and the client sends its first packet. Server keeps nothing
\* of this: its maps are filled by payloads.
Connect(p) ==
  /\ p \notin sessions /\ opens[p] < MaxOpens
  /\ sessions' = sessions \cup {p}
  /\ opens' = [opens EXCEPT ![p] = @ + 1]
  /\ client' = [client EXCEPT ![p] = [Away EXCEPT !.phase = "asked"]]
  /\ toServer' = [toServer EXCEPT ![p] = <<InClear(Request)>>]
  /\ toClient' = [toClient EXCEPT ![p] = <<>>]
  /\ dropped' = dropped \ {p}
  /\ carried' = IF peer[p] # Nothing THEN carried \cup {p} ELSE carried \ {p}
  /\ UNCHANGED <<stage, identityKeys, peer>>

SessionEnds(p) ==
  /\ p \in sessions
  /\ sessions' = sessions \ {p}
  /\ client' = [client EXCEPT ![p] = Away]
  /\ toServer' = [toServer EXCEPT ![p] = <<>>]
  /\ toClient' = [toClient EXCEPT ![p] = <<>>]
  /\ UNCHANGED <<stage, identityKeys, opens, dropped, carried>>

\* Mutant: one of the maps is not cleared.
ForgottenButPlayer(v) == [Nothing EXCEPT !.player = v.player]

\* receive's Disconnected arm removes the peer from all five maps.
Forgotten(v) == Nothing

\* The client's disconnect comes after everything else it sent.
Disconnected(p) ==
  /\ toServer[p] = <<>>
  /\ SessionEnds(p)
  /\ peer' = [peer EXCEPT ![p] = Forgotten(@)]

\* The session times out or proves unreachable: tick reports it, and that is
\* all tick does.
TimedOut(p) ==
  /\ SessionEnds(p)
  /\ UNCHANGED peer

\* The caller fetches the keys before it listens and once an hour; a fetch that
\* fails leaves the keys there are. It matters to a login on its way.
SetIdentityKeys ==
  /\ \E p \in Peers : client[p].phase \in {"asked", "login"} /\ client[p].key = <<>>
  /\ \E keys \in KeySets : identityKeys' = <<keys>>
  /\ UNCHANGED <<stage, peer, sessions, wires, client, opens, dropped, carried>>

Next ==
  \/ SetIdentityKeys
  \/ \E p \in Peers :
       \/ Receive(p) \/ Disconnected(p) \/ TimedOut(p) \/ Connect(p)
       \/ ClientTakes(p) \/ ClientActs(p)

Spec == Init /\ [][Next]_vars

\* The loop of bedrock-cli reads its socket for ever, and so does a client. Of the
\* steps of Next only Receive is one of FromClient, and only ClientTakes one of
\* FromServer; either may be taken whenever there is a payload.
FairSpec ==
  Spec /\ \A p \in Peers : WF_toServer(FromClient(p)) /\ WF_toClient(FromServer(p))

-----------------------------------------------------------------------------
OnItsWay(q) == Cardinality({i \in DOMAIN q : q[i].key # <<>>})
Clean(p) == p \in sessions /\ p \notin dropped \cup carried
Agreed(p) == \E k \in DOMAIN peer[p].cipher : peer[p].cipher[k].key = client[p].key
Around(center, distance) == center - distance .. center + distance

(* Every variable has its type.                                             *)
TypeOK ==
  /\ sessions \subseteq Peers
  /\ \A p \in Peers :
       /\ peer[p].out = <<>> /\ Len(toClient[p]) <= Window
       /\ peer[p].player # <<>> => peer[p].cipher # <<>>
       /\ peer[p].cipher # <<>> => peer[p].key
       /\ peer[p].key = (peer[p].protocol # <<>>)
       /\ \A m \in Range(toClient[p]) \cup Range(toServer[p]) : Range(m.bytes) \subseteq Byte

(* Cipher, at both ends: in a session nothing was refused in, with a       *)
(* client that holds the key its token names, each side's counter is ahead *)
(* of the other's by exactly the packets on their way, so neither end ever *)
(* fails to decrypt.                                                       *)
CountersInStep ==
  \A p \in Peers : \A k \in DOMAIN peer[p].cipher :
    LET cipher == peer[p].cipher[k]
    IN Clean(p) /\ (client[p].phase = "keyed" => Agreed(p)) =>
         /\ cipher.aligned
         /\ cipher.sent = client[p].taken + OnItsWay(toClient[p])
         /\ cipher.received + OnItsWay(toServer[p]) = client[p].sent
         /\ client[p].phase # "stuck"

(* on_login, jwt.rs, agreement.rs: a stream is encrypted under a key that  *)
(* only the holder of the key pair can derive that the issuer vouched for, *)
(* in a token of the login this client presented, for this audience.       *)
VouchedFor ==
  \A p \in Peers : \A k \in DOMAIN peer[p].cipher :
    Clean(p) =>
      LET token == Tokens[client[p].login[1].token]
      IN /\ peer[p].cipher[k].key = <<opens[p], PointFromDer(token.cpk)>>
         /\ token.iss = TOKEN_ISSUER /\ token.aud = TOKEN_AUDIENCE
         /\ \E keys \in KeySets : \E j \in DOMAIN keys : keys[j].pair = token.pair

(* stream_around, publisher_update, level_chunk: in a session nothing was  *)
(* refused in, a client that has read everything holds every column        *)
(* remembered as sent. A column remembered and never sent, or sent outside *)
(* the area published, would be a hole in the player's world.              *)
ColumnsArrive ==
  \A p \in Peers : \A k \in DOMAIN peer[p].player :
    Clean(p) /\ toClient[p] = <<>> => peer[p].player[k].sent \subseteq client[p].columns

(* on_player_moved, stream_around: the columns streamed are those around   *)
(* the one the player stands in, on either side of zero, the whole view    *)
(* has been sent, and nothing is remembered past the margin, so the memory *)
(* of one player is bounded.                                               *)
ViewCovered ==
  \A p \in Peers : \A k \in DOMAIN peer[p].player :
    LET player == peer[p].player[k]
    IN /\ player.x - 1600 * player.center \in 0 .. 1599
       /\ Around(player.center, player.radius) \subseteq player.sent
       /\ player.sent \subseteq Around(player.center, player.radius + Margin)

(* stream_world sends PlayStatus last: a client told to spawn has received *)
(* the world around where StartGame put it.                                *)
SpawnsIntoWorld ==
  \A p \in Peers :
    client[p].phase = "spawned" /\ client[p].trips = 0 =>
      Around(ColumnOf(client[p].at), 1) \subseteq client[p].columns

(* A client whose session nothing is refused in gets into the world, or is *)
(* told why not, or leaves: no step of the sequence waits for ever. The    *)
(* exceptions are a login accepted with no usable client key, which        *)
(* on_login answers with no cipher, and a client without the key the       *)
(* issuer vouched for.                                                     *)
GetsIn ==
  \A p \in Peers :
    client[p].phase = "asked" /\ stage = "Spawn" ~>
      client[p].phase \in {"spawned", "refused", "away"}
        \/ ~ Clean(p)
        \/ (client[p].phase = "keyed" /\ ~ Agreed(p))

(* As a test of server.rs says: a player who leaves takes the columns kept *)
(* for them along.                                                         *)
PlayersTakenAlong == \A p \in Peers : peer[p].player # <<>> => p \in sessions

(* As cipher.rs relies on: the transport loses nothing, so a client that   *)
(* started afresh can decrypt whatever it receives.                        *)
NeverDesynchronised == \A p \in Peers : p \notin carried => client[p].phase # "stuck"
=============================================================================

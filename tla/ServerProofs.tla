---------------------------- MODULE ServerProofs ----------------------------
(***************************************************************************)
(* The server and its clients agree, whatever the tokens, logins, places   *)
(* and radii: theorems of Server's Spec. ServerInvariant says of every     *)
(* session at which stage it stands: the client has asked, is answered,    *)
(* logs in, is refused or greeted, is apart (it holds another key than the *)
(* one its token names), is lost (nothing is on its way any more), or the  *)
(* session is open. Of an open one it says how the two counters of the     *)
(* cipher, the payloads on their way, the columns remembered, those drawn  *)
(* and the areas published fit together.                                   *)
(*                                                                         *)
(* What a call of the server does is followed from packet to packet: each  *)
(* handler Works, that is, leaves what is kept and what is to be sent such *)
(* that the session stays open; so does a batch (Folding); so does what    *)
(* the listener takes of it. The client is followed the same way. A step   *)
(* at one peer then leaves the others as they stand.                       *)
(***************************************************************************)
EXTENDS CodecProofs, FiniteSetTheorems

-----------------------------------------------------------------------------
(* What a payload of the server says to the client.                         *)

Heard(m) == DecodeWithMethod(m.bytes).value[1]
Field(layout, m) == Read(layout, Heard(m).body, 1).value

Draws(m) == Heard(m).id = ID_LEVEL_CHUNK
Where(m) == Field(LevelChunk, m).x
Publishes(m) == Heard(m).id = ID_NETWORK_CHUNK_PUBLISHER_UPDATE
AreaOf(m) == [x |-> Field(PublisherUpdate, m).x, radius |-> Field(PublisherUpdate, m).radius]
Spawns(m) == Heard(m).id = ID_PLAY_STATUS /\ Field(PlayStatus, m).status = Status.PlayerSpawn

\* One packet, whole, that a client past its login may receive.
Spoken(m) ==
  /\ m.bytes \in Seq(Byte)
  /\ DecodeWithMethod(m.bytes).ok /\ DecodeWithMethod(m.bytes).value = << Heard(m) >>
  /\ Heard(m).id \notin {ID_NETWORK_SETTINGS, ID_SERVER_TO_CLIENT_HANDSHAKE}
  /\ Heard(m).id = ID_START_GAME => Field(StartGame, m).x = 50
  /\ Draws(m) => IsColumn(Heard(m), Where(m))

Covers(area, x) == 16 * x - area.x \in -area.radius .. area.radius

\* The last area published before the i-th payload of q, or the one before q, covers
\* every column drawn.
Follows(q, j, i) == Publishes(q[j]) /\ j < i /\ \A k \in DOMAIN q : j < k /\ k < i => ~ Publishes(q[k])
First(q, i) == \A k \in DOMAIN q : k < i => ~ Publishes(q[k])

InArea(area, q) ==
  \A i \in DOMAIN q : Draws(q[i]) =>
    \/ \E j \in DOMAIN q : Follows(q, j, i) /\ Covers(AreaOf(q[j]), Where(q[i]))
    \/ First(q, i) /\ area # <<>> /\ Covers(area[1], Where(q[i]))

Drawn(q) == {Where(q[i]) : i \in {j \in DOMAIN q : Draws(q[j])}}

\* Nobody is told to spawn before the columns around the spawn are there.
Led(columns, q) ==
  \A i \in DOMAIN q : Spawns(q[i]) =>
    \A x \in {-1, 0, 1} :
      x \in columns \/ \E j \in DOMAIN q : j < i /\ Draws(q[j]) /\ Where(q[j]) = x

Numbered(q, key, first) == \A i \in DOMAIN q : q[i].key = key /\ q[i].n = first + i - 1

-----------------------------------------------------------------------------
(* What a payload of the client asks of the server.                         *)

Reach == 1100000000

Asks(packet) ==
  /\ packet.id = ID_REQUEST_CHUNK_RADIUS =>
       LET got == Read(RadiusRequest, packet.body, 1) IN got.ok => got.value.radius \in Int
  /\ packet.id = ID_PLAYER_AUTH_INPUT =>
       LET got == Read(AuthInput, packet.body, 1)
       IN got.ok => /\ got.value.x \in Int /\ -Reach <= got.value.x /\ got.value.x <= Reach
                    /\ got.value.y \in Int /\ -Far <= got.value.y /\ got.value.y <= Far

Wanted(m) ==
  /\ m.bytes \in Seq(Byte) /\ Len(m.bytes) >= 1
  /\ LET got == DecodePackets(m.bytes, 3)
     IN got.ok => got.value \in Seq(Packet) /\ \A k \in DOMAIN got.value : Asks(got.value[k])

-----------------------------------------------------------------------------
(* What the server keeps of a peer.                                         *)

IsOne(s) == s = << s[1] >>

IsSeq(q) == q \in Seq({q[i] : i \in DOMAIN q})

IsPeer(v) ==
  v = [settled |-> v.settled, key |-> v.key, cipher |-> v.cipher, protocol |-> v.protocol,
       player |-> v.player, out |-> v.out]

IsCipher(ci) ==
  /\ ci = [key |-> ci.key, sent |-> ci.sent, received |-> ci.received, aligned |-> ci.aligned]
  /\ ci.key # <<>>

IsPlayer(pl) ==
  /\ pl \in [radius : Nat, center : Int, sent : SUBSET Int, x : Int, y : Int]
  /\ 1 <= pl.radius /\ pl.radius <= 1000000
  /\ -Reach <= pl.x /\ pl.x <= Reach /\ -Far <= pl.y /\ pl.y <= Far

\* ViewCovered, of one player.
Viewed(pl) ==
  /\ pl.center = ColumnOf(pl.x)
  /\ Around(pl.center, pl.radius) \subseteq pl.sent
  /\ pl.sent \subseteq Around(pl.center, pl.radius + Margin)

Kept(v) ==
  /\ IsPeer(v) /\ v.out = <<>>
  /\ v.settled \in BOOLEAN /\ v.key \in BOOLEAN
  /\ v.settled \/ v = Nothing
  /\ v.key <=> v.protocol # <<>>
  /\ v.cipher # <<>> => v.key /\ IsOne(v.cipher) /\ IsCipher(v.cipher[1])
  /\ v.player # <<>> => v.cipher # <<>> /\ IsOne(v.player) /\ IsPlayer(v.player[1]) /\ Viewed(v.player[1])

-----------------------------------------------------------------------------
(* Where a session stands: v and c are what the server and the client keep, *)
(* up and down the payloads on their way, d and r whether it dropped one    *)
(* and whether it began with an earlier session's state, o its number.      *)

AskedClient == [Away EXCEPT !.phase = "asked"]
LoginClient(l) == [Away EXCEPT !.phase = "login", !.login = << l >>]
Settled == [Nothing EXCEPT !.settled = TRUE]
Hello == NewPacket(ID_CLIENT_TO_SERVER_HANDSHAKE, <<>>)

Shared(l, o) == Agree(o, Tokens[l.token].cpk)

Greeted(l, o) ==
  IF Shared(l, o) = <<>> THEN <<>>
  ELSE << [key |-> Shared(l, o), sent |-> 0, received |-> 0, aligned |-> TRUE] >>

Vouched(l) ==
  LET token == Tokens[l.token]
  IN /\ l.token \in DOMAIN Tokens
     /\ token.iss = TOKEN_ISSUER /\ token.aud = TOKEN_AUDIENCE
     /\ \E keys \in KeySets : \E j \in DOMAIN keys : keys[j].pair = token.pair

IsClient(c) ==
  /\ c = [phase |-> c.phase, key |-> c.key, login |-> c.login, taken |-> c.taken, sent |-> c.sent,
          at |-> c.at, area |-> c.area, columns |-> c.columns, trips |-> c.trips]
  /\ c.taken \in Nat /\ c.sent \in Nat
  /\ c.at \in {0, 50} \cup Places /\ (c.trips = 0 => c.at \in {0, 50})
  /\ c.trips \in Nat

Asked(v, c, up, down, d, r) ==
  /\ c = AskedClient /\ up = << InClear(Request) >> /\ down = <<>>
  /\ ~ d /\ (r <=> v # Nothing)

Answering(v, c, up, down) ==
  c = AskedClient /\ up = <<>> /\ down = << InClear(Encode(<< Uncompressed >>)) >> /\ v = Settled

LoggingIn(l, v, c, up, down) ==
  /\ c = LoginClient(l) /\ up = << InClear(EncodeWithMethod(<< LoginPacket(l) >>)) >> /\ down = <<>>
  /\ v = Settled

Refusing(l, v, c, up, down) ==
  /\ c = LoginClient(l) /\ up = <<>>
  /\ down = << InClear(EncodeWithMethod(<< StatusPacket("InvalidTenant") >>)) >>
  /\ v = Settled

Greeting(l, v, c, up, down, o) ==
  /\ c = LoginClient(l) /\ up = <<>>
  /\ down = << InClear(EncodeWithMethod(<< ServerToClientHandshake(<< o >>) >>)) >>
  /\ v.settled /\ v.player = <<>> /\ Vouched(l) /\ v.cipher = Greeted(l, o)

Lost(v, c, up, down, d, r) ==
  /\ c.phase \in {"asked", "login", "refused"} /\ up = <<>> /\ down = <<>>
  /\ d \/ r \/ v.cipher = <<>>

Apart(l, v, c, up, down, o) ==
  /\ c.phase = "keyed" /\ c.login = << l >> /\ Vouched(l)
  /\ v.settled /\ v.player = <<>> /\ down = <<>>
  /\ v.cipher # <<>> => v.cipher[1].key = Shared(l, o) /\ c.key # Shared(l, o)
  /\ up = <<>> \/ up = << [key |-> c.key, n |-> 0, bytes |-> EncodeWithMethod(<< Hello >>)] >>

UpOpen(l, v, c, up, o) ==
  /\ c.login = << l >> /\ Vouched(l) /\ Shared(l, o) # <<>> /\ c.key = Shared(l, o)
  /\ IsClient(c) /\ c.phase \in {"keyed", "packs", "world", "spawned", "refused", "stuck"}
  /\ v.settled /\ v.cipher # <<>> /\ v.cipher[1].key = Shared(l, o) /\ v.cipher[1].aligned = TRUE
  /\ v.cipher[1].received \in Nat /\ v.cipher[1].sent \in Nat
  /\ IsSeq(up) /\ v.cipher[1].received + Len(up) = c.sent
  /\ Numbered(up, c.key, v.cipher[1].received) /\ \A i \in DOMAIN up : Wanted(up[i])

Heeded(c, down) ==
  /\ InArea(c.area, down) /\ Led(c.columns, down)
  /\ c.area # <<>> => IsOne(c.area)
  /\ c.phase = "spawned" => {-1, 0, 1} \subseteq c.columns

InStep(v, c, down) ==
  /\ c.phase # "stuck"
  /\ v.cipher[1].sent = c.taken + Len(down) /\ Numbered(down, c.key, c.taken)
  /\ v.player # <<>> => v.player[1].sent \subseteq c.columns \cup Drawn(down)

DownOpen(v, c, down, d) ==
  /\ IsSeq(down)
  /\ \A i \in DOMAIN down : down[i].key = c.key /\ Spoken(down[i])
  /\ c.phase # "stuck" => Heeded(c, down)
  /\ ~ d => InStep(v, c, down)

Open(l, v, c, up, down, d, o) == UpOpen(l, v, c, up, o) /\ DownOpen(v, c, down, d)

InStage(v, c, up, down, d, r, o) ==
  \/ Asked(v, c, up, down, d, r)
  \/ Answering(v, c, up, down)
  \/ Lost(v, c, up, down, d, r)
  \/ \E l \in Logins :
       \/ LoggingIn(l, v, c, up, down)
       \/ Refusing(l, v, c, up, down)
       \/ Greeting(l, v, c, up, down, o)
       \/ Apart(l, v, c, up, down, o)
       \/ Open(l, v, c, up, down, d, o)

OfSession(v, c, up, down, s, d, r, o) ==
  /\ Kept(v) /\ Len(down) <= Window /\ o \in Nat /\ o <= MaxOpens
  /\ IF s THEN InStage(v, c, up, down, d, r, o) ELSE c = Away /\ up = <<>> /\ down = <<>>

Maps ==
  /\ sessions \subseteq Peers
  /\ DOMAIN peer = Peers /\ DOMAIN toClient = Peers /\ DOMAIN toServer = Peers
  /\ DOMAIN client = Peers /\ DOMAIN opens = Peers
  /\ identityKeys \in {<<>>} \cup {<< keys >> : keys \in KeySets}

ServerInvariant ==
  /\ Maps
  /\ \A p \in Peers : OfSession(peer[p], client[p], toServer[p], toClient[p],
                              p \in sessions, p \in dropped, p \in carried, opens[p])

-----------------------------------------------------------------------------
(* What a payload of the server is heard as.                                *)

Speakable(q) ==
  /\ q \in Packet
  /\ q.id \notin {ID_NETWORK_SETTINGS, ID_SERVER_TO_CLIENT_HANDSHAKE}
  /\ q.id = ID_START_GAME => Read(StartGame, q.body, 1).value.x = 50
  /\ q.id = ID_LEVEL_CHUNK => IsColumn(q, Read(LevelChunk, q.body, 1).value.x)

Quiet(q) == q.id \notin {ID_LEVEL_CHUNK, ID_NETWORK_CHUNK_PUBLISHER_UPDATE, ID_PLAY_STATUS}

Telling(q) == EncodeWithMethod(<< q >>)

\* What is sent in a batch by itself is heard.
LEMMA HeardIs ==
  ASSUME NEW q \in Packet, NEW m, m.bytes = Telling(q)
  PROVE  /\ m.bytes \in Seq(Byte) /\ Len(m.bytes) >= 1
         /\ DecodeWithMethod(m.bytes).ok /\ DecodeWithMethod(m.bytes).value = << q >>
         /\ DecodePackets(m.bytes, 3).ok /\ DecodePackets(m.bytes, 3).value = << q >>
         /\ Heard(m) = q
<1>1. << q >> \in Seq(Packet)
  BY OneIs
<1> DEFINE w == Telling(q)
<1>2. w \in Seq(Byte) /\ Len(w) >= 2
      /\ DecodePackets(w, 3) = Got(<< q >>, Len(w) + 1)
      /\ DecodeWithMethod(w) = Got(<< q >>, Len(w) + 1)
  BY <1>1, BatchIs DEF Telling
<1> HIDE DEF w
<1>3. w \in Seq(Byte) /\ Len(w) >= 1
  BY <1>2
<1>4. /\ DecodeWithMethod(w).ok /\ DecodeWithMethod(w).value = << q >>
      /\ DecodePackets(w, 3).ok /\ DecodePackets(w, 3).value = << q >>
  BY <1>2 DEF Got
<1>5. m.bytes = w
  BY DEF w
<1>6. Heard(m) = q
  BY <1>4, <1>5 DEF Heard
<1> QED
  BY <1>3, <1>4, <1>5, <1>6

\* A payload with one packet a client may receive is Spoken.
LEMMA SpokenIs ==
  ASSUME NEW q, Speakable(q), NEW m, m.bytes = Telling(q)
  PROVE  Spoken(m) /\ Heard(m) = q
<1>1. q \in Packet
  BY DEF Speakable
<1>2. /\ m.bytes \in Seq(Byte) /\ DecodeWithMethod(m.bytes).ok /\ DecodeWithMethod(m.bytes).value = << q >>
      /\ Heard(m) = q
  BY <1>1, HeardIs
<1> QED
  BY <1>2 DEF Speakable, Spoken, Draws, Where, Field

LEMMA QuietIs ==
  ASSUME NEW q, Quiet(q), NEW m, Heard(m) = q
  PROVE  ~ Draws(m) /\ ~ Publishes(m) /\ ~ Spawns(m)
BY DEF Quiet, Draws, Publishes, Spawns

LEMMA FieldSaid ==
  ASSUME NEW q, NEW id, NEW layout, NEW rec, Says(q, id, layout, rec),
         NEW j \in 1 .. Len(layout), ~ IsLiteral(layout[j])
  PROVE  Read(layout, q.body, 1).value[layout[j][1]] = rec[layout[j][1]]
BY DEF Says

\* Every status may be told,
LEMMA StatusTold ==
  ASSUME NEW name \in DOMAIN Status
  PROVE  /\ Speakable(StatusPacket(name))
         /\ StatusPacket(name).id = ID_PLAY_STATUS
         /\ Read(PlayStatus, StatusPacket(name).body, 1).value.status = Status[name]
<1>1. Says(StatusPacket(name), ID_PLAY_STATUS, PlayStatus, [status |-> Status[name]])
  BY StatusSays
<1>2. StatusPacket(name) \in Packet /\ StatusPacket(name).id = ID_PLAY_STATUS
  BY <1>1 DEF Says
<1>3. 1 \in 1 .. Len(PlayStatus) /\ PlayStatus[1][1] = "status" /\ ~ IsLiteral(PlayStatus[1])
  BY DEF PlayStatus, IsLiteral, Big
<1>4. Read(PlayStatus, StatusPacket(name).body, 1).value["status"] = [status |-> Status[name]]["status"]
  BY <1>1, <1>3, FieldSaid
<1>5. Speakable(StatusPacket(name))
  BY <1>2 DEF Speakable, ID_PLAY_STATUS, ID_NETWORK_SETTINGS, ID_SERVER_TO_CLIENT_HANDSHAKE,
              ID_START_GAME, ID_LEVEL_CHUNK
<1> QED
  BY <1>2, <1>4, <1>5

\* and every area,
LEMMA PublisherTold ==
  ASSUME NEW x, FitsSigned(x), NEW y, FitsSigned(y), NEW r, FitsVaried(r),
         NEW q, q = PublisherPacket(x, y, 0, r)
  PROVE  /\ Speakable(q) /\ q.id = ID_NETWORK_CHUNK_PUBLISHER_UPDATE
         /\ Read(PublisherUpdate, q.body, 1).value.x = x
         /\ Read(PublisherUpdate, q.body, 1).value.radius = r
<1> DEFINE rec == [x |-> x, y |-> y, z |-> 0, radius |-> r]
<1>1. Says(q, ID_NETWORK_CHUNK_PUBLISHER_UPDATE, PublisherUpdate, rec)
  BY PublisherSays
<1>2. q \in Packet /\ q.id = ID_NETWORK_CHUNK_PUBLISHER_UPDATE
  BY <1>1 DEF Says
<1>3. /\ 1 \in 1 .. Len(PublisherUpdate) /\ PublisherUpdate[1][1] = "x" /\ ~ IsLiteral(PublisherUpdate[1])
      /\ 4 \in 1 .. Len(PublisherUpdate) /\ PublisherUpdate[4][1] = "radius" /\ ~ IsLiteral(PublisherUpdate[4])
  BY DEF PublisherUpdate, IsLiteral, Zig, Var
<1>4. rec["x"] = x /\ rec["radius"] = r
  OBVIOUS
<1> HIDE DEF rec
<1>5. Read(PublisherUpdate, q.body, 1).value["x"] = rec["x"]
  BY <1>1, <1>3, FieldSaid
<1>6. Read(PublisherUpdate, q.body, 1).value["radius"] = rec["radius"]
  BY <1>1, <1>3, FieldSaid
<1>7. Speakable(q)
  BY <1>2 DEF Speakable, ID_NETWORK_CHUNK_PUBLISHER_UPDATE, ID_NETWORK_SETTINGS,
              ID_SERVER_TO_CLIENT_HANDSHAKE, ID_START_GAME, ID_LEVEL_CHUNK
<1> QED
  BY <1>2, <1>4, <1>5, <1>6, <1>7

\* and every column,
LEMMA ColumnTold ==
  ASSUME NEW x, FitsSigned(x)
  PROVE  /\ Speakable(ColumnPacket(x)) /\ ColumnPacket(x).id = ID_LEVEL_CHUNK
         /\ Read(LevelChunk, ColumnPacket(x).body, 1).value.x = x
<1>1. ColumnPacket(x) \in Packet /\ IsColumn(ColumnPacket(x), x)
  BY ColumnSays
<1>2. ColumnPacket(x).id = ID_LEVEL_CHUNK /\ Read(LevelChunk, ColumnPacket(x).body, 1).value.x = x
  BY <1>1 DEF IsColumn
<1> QED
  BY <1>1, <1>2 DEF Speakable, ID_NETWORK_SETTINGS, ID_SERVER_TO_CLIENT_HANDSHAKE, ID_START_GAME,
                    ID_LEVEL_CHUNK

\* and the rest.
LEMMA OthersTold ==
  /\ \A r \in Int : -Far <= r /\ r <= Far => Speakable(RadiusGranted(r)) /\ Quiet(RadiusGranted(r))
  /\ Speakable(PacksInfoEmpty) /\ Quiet(PacksInfoEmpty)
  /\ Speakable(PackStackEmpty(MINECRAFT_VERSION)) /\ Quiet(PackStackEmpty(MINECRAFT_VERSION))
  /\ Speakable(World) /\ Quiet(World)
  /\ AllEmpty \in Seq(Packet) /\ Len(AllEmpty) = 3
  /\ \A i \in 1 .. 3 : Speakable(AllEmpty[i]) /\ Quiet(AllEmpty[i])
<1> USE DEF Speakable, Quiet, ID_NETWORK_SETTINGS, ID_SERVER_TO_CLIENT_HANDSHAKE, ID_START_GAME,
            ID_LEVEL_CHUNK, ID_NETWORK_CHUNK_PUBLISHER_UPDATE, ID_PLAY_STATUS
<1>1. ASSUME NEW r \in Int, -Far <= r, r <= Far
      PROVE  Speakable(RadiusGranted(r)) /\ Quiet(RadiusGranted(r))
  <2>1. RadiusGranted(r) \in Packet /\ RadiusGranted(r).id = ID_CHUNK_RADIUS_UPDATED
    BY <1>1, GrantedSays DEF Says
  <2> QED
    BY <2>1 DEF ID_CHUNK_RADIUS_UPDATED
<1>2. Speakable(PacksInfoEmpty) /\ Quiet(PacksInfoEmpty)
  BY PacksInfoIs DEF ID_RESOURCE_PACKS_INFO
<1>3. Speakable(PackStackEmpty(MINECRAFT_VERSION)) /\ Quiet(PackStackEmpty(MINECRAFT_VERSION))
  BY PackStackIs DEF ID_RESOURCE_PACK_STACK
<1>4. Speakable(World) /\ Quiet(World)
  BY WorldSays
<1>5. ASSUME NEW i \in 1 .. 3 PROVE Speakable(AllEmpty[i]) /\ Quiet(AllEmpty[i])
  <2>1. AllEmpty[i] \in Packet
    <3>1. Len(AllEmpty) = 3 /\ AllEmpty \in Seq(Packet)
      BY AllEmptyIs
    <3> HIDE DEF Packet
    <3> QED
      BY <3>1
  <2>2. AllEmpty[i].id \in {ID_ITEM_REGISTRY, ID_AVAILABLE_ACTOR_IDENTIFIERS, ID_BIOME_DEFINITION_LIST}
    BY AllEmptyIs
  <2> QED
    BY <2>1, <2>2 DEF ID_ITEM_REGISTRY, ID_AVAILABLE_ACTOR_IDENTIFIERS, ID_BIOME_DEFINITION_LIST
<1>6. AllEmpty \in Seq(Packet) /\ Len(AllEmpty) = 3
  BY AllEmptyIs
<1> QED
  BY <1>1, <1>2, <1>3, <1>4, <1>5, <1>6

-----------------------------------------------------------------------------
(* What a payload of the client is taken for.                               *)

LEMMA WantedIs ==
  ASSUME NEW packets \in Seq(Packet), \A k \in DOMAIN packets : Asks(packets[k]),
         NEW m, m.bytes = EncodeWithMethod(packets)
  PROVE  Wanted(m)
<1> DEFINE w == EncodeWithMethod(packets)
<1>1. w \in Seq(Byte) /\ Len(w) >= 2 /\ DecodePackets(w, 3) = Got(packets, Len(w) + 1)
  BY BatchIs
<1> HIDE DEF w
<1>2. Len(w) >= 1 /\ DecodePackets(w, 3).value = packets
  BY <1>1 DEF Got
<1>3. m.bytes = w
  BY DEF w
<1> HIDE DEF Packet
<1> QED
  BY <1>1, <1>2, <1>3 DEF Wanted

LEMMA WantedOne ==
  ASSUME NEW q \in Packet, Asks(q), NEW m, m.bytes = Telling(q)
  PROVE  Wanted(m)
<1> DEFINE packets == << q >>
<1>1. packets \in Seq(Packet)
  BY OneIs
<1>2. \A k \in DOMAIN packets : Asks(packets[k])
  OBVIOUS
<1>3. m.bytes = EncodeWithMethod(packets)
  BY DEF Telling
<1> HIDE DEF packets, Packet
<1> QED
  BY <1>1, <1>2, <1>3, WantedIs

LEMMA WantedTwo ==
  ASSUME NEW p \in Packet, Asks(p), NEW q \in Packet, Asks(q), NEW m, m.bytes = EncodeWithMethod(<< p, q >>)
  PROVE  Wanted(m)
<1> DEFINE packets == << p, q >>
<1>1. packets \in Seq(Packet)
  BY TwoAre
<1>2. \A k \in DOMAIN packets : Asks(packets[k])
  <2>1. DOMAIN packets = 1 .. 2 /\ packets[1] = p /\ packets[2] = q
    OBVIOUS
  <2> HIDE DEF packets
  <2>2. \A k \in DOMAIN packets : k = 1 \/ k = 2
    BY <2>1
  <2> QED
    BY <2>1, <2>2
<1>3. m.bytes = EncodeWithMethod(packets)
  OBVIOUS
<1> HIDE DEF packets, Packet
<1> QED
  BY <1>1, <1>2, <1>3, WantedIs

\* A packet that is no request asks nothing.
LEMMA AsksOther ==
  ASSUME NEW q, q.id \notin {ID_REQUEST_CHUNK_RADIUS, ID_PLAYER_AUTH_INPUT}
  PROVE  Asks(q)
BY DEF Asks

\* The packets of the client.
LEMMA OthersAsked ==
  /\ Hello \in Packet /\ Asks(Hello) /\ Hello.id = ID_CLIENT_TO_SERVER_HANDSHAKE
  /\ Initialized \in Packet /\ Asks(Initialized)
  /\ \A name \in DOMAIN Responses : Answered(name) \in Packet /\ Asks(Answered(name))
<1>1. Hello \in Packet /\ Hello.id = ID_CLIENT_TO_SERVER_HANDSHAKE
  BY ClientPacketsAre DEF Hello
<1>2. Initialized \in Packet /\ Initialized.id = ID_SET_LOCAL_PLAYER_AS_INITIALIZED
  BY ClientPacketsAre
<1>3. Asks(Hello)
  BY <1>1, AsksOther DEF ID_CLIENT_TO_SERVER_HANDSHAKE, ID_REQUEST_CHUNK_RADIUS, ID_PLAYER_AUTH_INPUT
<1>4. Asks(Initialized)
  BY <1>2, AsksOther DEF ID_SET_LOCAL_PLAYER_AS_INITIALIZED, ID_REQUEST_CHUNK_RADIUS, ID_PLAYER_AUTH_INPUT
<1>5. ASSUME NEW name \in DOMAIN Responses PROVE Answered(name) \in Packet /\ Asks(Answered(name))
  <2>1. Answered(name) \in Packet /\ Answered(name).id = ID_RESOURCE_PACK_CLIENT_RESPONSE
    BY AnsweredSays DEF Says
  <2> QED
    BY <2>1, AsksOther DEF ID_RESOURCE_PACK_CLIENT_RESPONSE, ID_REQUEST_CHUNK_RADIUS, ID_PLAYER_AUTH_INPUT
<1> QED
  BY <1>1, <1>2, <1>3, <1>4, <1>5

LEMMA RadiusAsked ==
  ASSUME NEW r \in Radii
  PROVE  RadiusWanted(r) \in Packet /\ Asks(RadiusWanted(r))
<1> DEFINE q == RadiusWanted(r)
           rec == [radius |-> r, max_radius |-> 16]
<1>1. Says(q, ID_REQUEST_CHUNK_RADIUS, RadiusRequest, rec)
  BY RadiusWantedSays
<1>2. q \in Packet /\ q.id = ID_REQUEST_CHUNK_RADIUS
  BY <1>1 DEF Says
<1>3. 1 \in 1 .. Len(RadiusRequest) /\ RadiusRequest[1][1] = "radius" /\ ~ IsLiteral(RadiusRequest[1])
  BY DEF RadiusRequest, IsLiteral, Zig
<1>4. rec["radius"] = r
  OBVIOUS
<1> HIDE DEF rec, q
<1>5. Read(RadiusRequest, q.body, 1).value["radius"] = rec["radius"]
  BY <1>1, <1>3, FieldSaid
<1>6. r \in Int
  BY ServerAssumption
<1>7. Asks(q)
  BY <1>2, <1>4, <1>5, <1>6 DEF Asks, ID_REQUEST_CHUNK_RADIUS, ID_PLAYER_AUTH_INPUT
<1> QED
  BY <1>2, <1>7 DEF q

LEMMA PlaceNear ==
  ASSUME NEW x \in {0, 50} \cup Places
  PROVE  x \in Int /\ ZigZag(x) <= MostFixed /\ -Reach <= x /\ x <= Reach
<1>1. CASE x \in {0, 50}
  BY <1>1 DEF ZigZag, MostFixed, Reach
<1>2. CASE x \in Places
  <2>1. x \in Int /\ ZigZag(x) <= MostFixed
    BY <1>2, ServerAssumption, WireAssumption
  <2> QED
    BY <2>1 DEF ZigZag, MostFixed, Reach
<1> QED
  BY <1>1, <1>2

LEMMA MovedAsked ==
  ASSUME NEW x \in {0, 50} \cup Places
  PROVE  Moved(x) \in Packet /\ Asks(Moved(x))
<1> DEFINE q == Moved(x)
           y == 100 * Surface + POSITION_OFFSET
           rec == [pitch |-> 0, yaw |-> 0, x |-> x, y |-> y, z |-> 0]
<1>1. x \in Int /\ ZigZag(x) <= MostFixed /\ -Reach <= x /\ x <= Reach
  BY PlaceNear
<1>2. Says(q, ID_PLAYER_AUTH_INPUT, AuthInput, rec)
  BY <1>1, MovedSays
<1>3. q \in Packet /\ q.id = ID_PLAYER_AUTH_INPUT
  BY <1>2 DEF Says
<1>4. /\ 3 \in 1 .. Len(AuthInput) /\ AuthInput[3][1] = "x" /\ ~ IsLiteral(AuthInput[3])
      /\ 4 \in 1 .. Len(AuthInput) /\ AuthInput[4][1] = "y" /\ ~ IsLiteral(AuthInput[4])
  BY DEF AuthInput, IsLiteral, Float
<1>5. rec["x"] = x /\ rec["y"] = y
  OBVIOUS
<1>6. y \in Int /\ -Far <= y /\ y <= Far
  <2>1. Surface \in Nat /\ Surface <= 1000000
    BY ServerAssumption, WireAssumption
  <2> QED
    BY <2>1 DEF POSITION_OFFSET, Far
<1> HIDE DEF rec, q, y
<1>7. Read(AuthInput, q.body, 1).value["x"] = rec["x"]
  BY <1>2, <1>4, FieldSaid
<1>8. Read(AuthInput, q.body, 1).value["y"] = rec["y"]
  BY <1>2, <1>4, FieldSaid
<1>9. Asks(q)
  BY <1>1, <1>3, <1>5, <1>6, <1>7, <1>8 DEF Asks, ID_REQUEST_CHUNK_RADIUS, ID_PLAYER_AUTH_INPUT
<1> QED
  BY <1>3, <1>9 DEF q

-----------------------------------------------------------------------------
(* Sequences.                                                               *)

LEMMA SeqAgain ==
  ASSUME NEW S, NEW q \in Seq(S)
  PROVE  IsSeq(q) /\ DOMAIN q = 1 .. Len(q) /\ Len(q) \in Nat
<1>1. Len(q) \in Nat /\ DOMAIN q = 1 .. Len(q) /\ q = [i \in 1 .. Len(q) |-> q[i]]
  OBVIOUS
<1> DEFINE T == {q[i] : i \in DOMAIN q}
           n == Len(q)
<1>2. \A i \in 1 .. n : q[i] \in T
  BY <1>1
<1> HIDE DEF T, n
<1>3. [i \in 1 .. n |-> q[i]] \in Seq(T)
  BY <1>1, <1>2 DEF n
<1>4. q \in Seq(T)
  BY <1>1, <1>3 DEF n
<1> QED
  BY <1>1, <1>4 DEF IsSeq, T, n

LEMMA SeqIs ==
  ASSUME NEW q, IsSeq(q)
  PROVE  DOMAIN q = 1 .. Len(q) /\ Len(q) \in Nat
BY DEF IsSeq

LEMMA NothingQueued == IsSeq(<<>>) /\ Len(<<>>) = 0
<1>1. <<>> \in Seq({})
  OBVIOUS
<1> QED
  BY <1>1, SeqAgain

LEMMA OneSeq ==
  ASSUME NEW m
  PROVE  IsSeq(<< m >>) /\ Len(<< m >>) = 1 /\ << m >>[1] = m
<1>1. << m >> \in Seq({m})
  OBVIOUS
<1> QED
  BY <1>1, SeqAgain

\* A payload more.
LEMMA Appended ==
  ASSUME NEW q, IsSeq(q), NEW m, NEW w, w = Append(q, m)
  PROVE  /\ IsSeq(w) /\ Len(w) = Len(q) + 1 /\ DOMAIN w = 1 .. (Len(q) + 1)
         /\ w[Len(q) + 1] = m /\ \A i \in 1 .. Len(q) : w[i] = q[i]
         /\ DOMAIN q = 1 .. Len(q) /\ Len(q) \in Nat
<1> DEFINE S == {q[i] : i \in DOMAIN q} \cup {m}
<1>1. q \in Seq(S) /\ m \in S
  BY DEF IsSeq
<1> HIDE DEF S
<1>2. w \in Seq(S)
  BY <1>1
<1>3. IsSeq(w)
  BY <1>2, SeqAgain
<1>4. Len(w) = Len(q) + 1 /\ Len(q) \in Nat /\ DOMAIN q = 1 .. Len(q)
  BY <1>1
<1>5. DOMAIN w = 1 .. (Len(q) + 1)
  BY <1>2, <1>4
<1>6. w[Len(q) + 1] = m /\ \A i \in 1 .. Len(q) : w[i] = q[i]
  BY <1>1
<1> QED
  BY <1>3, <1>4, <1>5, <1>6

\* The first is taken.
LEMMA Untailed ==
  ASSUME NEW q, IsSeq(q), q # <<>>, NEW w, w = Tail(q)
  PROVE  /\ IsSeq(w) /\ Len(q) \in Nat /\ Len(q) >= 1 /\ Len(w) = Len(q) - 1
         /\ DOMAIN w = 1 .. (Len(q) - 1) /\ DOMAIN q = 1 .. Len(q)
         /\ \A i \in 1 .. (Len(q) - 1) : w[i] = q[i + 1]
         /\ Head(q) = q[1]
<1> DEFINE S == {q[i] : i \in DOMAIN q}
<1>1. q \in Seq(S)
  BY DEF IsSeq
<1> HIDE DEF S
<1>2. w \in Seq(S) /\ Len(q) \in Nat /\ Len(q) >= 1 /\ Len(w) = Len(q) - 1
  BY <1>1
<1>3. IsSeq(w) /\ DOMAIN w = 1 .. (Len(q) - 1) /\ DOMAIN q = 1 .. Len(q)
  BY <1>1, <1>2, SeqAgain
<1>4. \A i \in 1 .. (Len(q) - 1) : w[i] = q[i + 1]
  BY <1>1, <1>2
<1> QED
  BY <1>1, <1>2, <1>3, <1>4

\* A beginning of a sequence is one.
LEMMA Beginnings ==
  ASSUME NEW q, IsSeq(q), NEW n \in Nat, n <= Len(q), NEW w, w = SubSeq(q, 1, n)
  PROVE  /\ IsSeq(w) /\ Len(w) = n /\ DOMAIN w = 1 .. n /\ \A i \in 1 .. n : w[i] = q[i]
         /\ DOMAIN q = 1 .. Len(q) /\ Len(q) \in Nat
<1> DEFINE S == {q[i] : i \in DOMAIN q}
<1>1. q \in Seq(S)
  BY DEF IsSeq
<1> HIDE DEF S
<1>2. w \in Seq(S) /\ Len(w) = n /\ \A i \in 1 .. n : w[i] = q[i]
  BY <1>1
<1>3. IsSeq(w) /\ DOMAIN w = 1 .. n /\ DOMAIN q = 1 .. Len(q) /\ Len(q) \in Nat
  BY <1>1, <1>2, SeqAgain
<1> QED
  BY <1>2, <1>3

\* What the session takes of a call's payloads is the beginning of them.
LEMMA JoinedPrefix ==
  ASSUME NEW a, IsSeq(a), NEW b, IsSeq(b), NEW n \in Nat, n <= Len(b)
  PROVE  /\ IsSeq(a \o b) /\ Len(a \o b) = Len(a) + Len(b)
         /\ a \o SubSeq(b, 1, n) = SubSeq(a \o b, 1, Len(a) + n)
<1> DEFINE S == {a[i] : i \in DOMAIN a} \cup {b[i] : i \in DOMAIN b}
<1>1. a \in Seq(S) /\ b \in Seq(S)
  BY DEF IsSeq
<1> HIDE DEF S
<1>2. a \o b \in Seq(S) /\ Len(a \o b) = Len(a) + Len(b) /\ Len(a) \in Nat /\ Len(b) \in Nat
  BY <1>1
<1>3. IsSeq(a \o b)
  BY <1>2, SeqAgain
<1> DEFINE l == a \o SubSeq(b, 1, n)
           r == SubSeq(a \o b, 1, Len(a) + n)
           m == Len(a)
           c == a \o b
           s == SubSeq(b, 1, n)
<1>4. s \in Seq(S) /\ Len(s) = n /\ \A i \in 1 .. n : s[i] = b[i]
  BY <1>1
<1>5. c \in Seq(S) /\ Len(c) = m + Len(b) /\ (\A i \in 1 .. m : c[i] = a[i])
      /\ \A i \in 1 .. Len(b) : c[m + i] = b[i]
  BY <1>1
<1>6. l \in Seq(S) /\ Len(l) = m + n /\ (\A i \in 1 .. m : l[i] = a[i]) /\ \A i \in 1 .. n : l[m + i] = s[i]
  <2> HIDE DEF s
  <2> QED
    BY <1>1, <1>4
<1>7. m \in Nat /\ m + n \in Nat /\ m + n <= Len(c)
  BY <1>2, <1>5
<1> HIDE DEF c, s, l, m
<1>8. r \in Seq(S) /\ Len(r) = m + n /\ \A i \in 1 .. (m + n) : r[i] = c[i]
  <2> DEFINE t == m + n
  <2>1. t \in Nat /\ t <= Len(c)
    BY <1>7
  <2> HIDE DEF t
  <2>2. SubSeq(c, 1, t) \in Seq(S) /\ Len(SubSeq(c, 1, t)) = t
        /\ \A i \in 1 .. t : SubSeq(c, 1, t)[i] = c[i]
    BY <1>5, <2>1
  <2> QED
    BY <2>2 DEF t, c, m
<1> HIDE DEF r
<1>9. ASSUME NEW i \in 1 .. (m + n) PROVE l[i] = r[i]
  <2>1. CASE i <= m
    <3>1. i \in 1 .. m
      BY <1>7, <2>1
    <3> QED
      BY <1>5, <1>6, <1>8, <3>1
  <2>2. CASE i > m
    <3> DEFINE k == i - m
    <3>1. k \in 1 .. n /\ i = m + k
      BY <1>7, <2>2
    <3> HIDE DEF k
    <3>2. k \in 1 .. Len(b)
      BY <1>2, <3>1
    <3> QED
      BY <1>4, <1>5, <1>6, <1>8, <3>1, <3>2
  <2> QED
    BY <1>7, <2>1, <2>2
<1>10. l = r
  <2>1. l = [i \in 1 .. (m + n) |-> l[i]] /\ r = [i \in 1 .. (m + n) |-> r[i]]
    BY <1>6, <1>8
  <2> QED
    BY <1>9, <2>1
<1> QED
  BY <1>2, <1>3, <1>10 DEF l, r, m

LEMMA JoinedAppend ==
  ASSUME NEW a, IsSeq(a), NEW b, IsSeq(b), NEW m
  PROVE  a \o Append(b, m) = Append(a \o b, m)
<1> DEFINE S == {a[i] : i \in DOMAIN a} \cup {b[i] : i \in DOMAIN b} \cup {m}
<1>1. a \in Seq(S) /\ b \in Seq(S) /\ m \in S
  BY DEF IsSeq
<1> HIDE DEF S
<1> QED
  BY <1>1

LEMMA JoinedNothing == ASSUME NEW a, IsSeq(a) PROVE a \o <<>> = a
BY DEF IsSeq

LEMMA SameSeq ==
  ASSUME NEW q, IsSeq(q)
  PROVE  SubSeq(q, 1, Len(q)) = q
BY DEF IsSeq

-----------------------------------------------------------------------------
(* Channels: a payload is added, or what does not fit is cut off.           *)

\* The last area published in q, or the one before q, covers the column.
Covered(area, q, x) ==
  \/ \E j \in DOMAIN q : /\ Publishes(q[j]) /\ Covers(AreaOf(q[j]), x)
                         /\ \A k \in DOMAIN q : j < k => ~ Publishes(q[k])
  \/ (\A k \in DOMAIN q : ~ Publishes(q[k])) /\ area # <<>> /\ Covers(area[1], x)

LEMMA CoveredOn ==
  ASSUME NEW q, IsSeq(q), NEW m, ~ Publishes(m), NEW area, NEW x, Covered(area, q, x)
  PROVE  Covered(area, Append(q, m), x)
<1> DEFINE w == Append(q, m)
           n == Len(q)
<1>1. /\ DOMAIN w = 1 .. (n + 1) /\ w[n + 1] = m /\ DOMAIN q = 1 .. n /\ n \in Nat
      /\ \A i \in 1 .. n : w[i] = q[i]
  BY Appended
<1> HIDE DEF w, n
<1>2. CASE \E j \in DOMAIN q : /\ Publishes(q[j]) /\ Covers(AreaOf(q[j]), x)
                               /\ \A k \in DOMAIN q : j < k => ~ Publishes(q[k])
  <2>1. PICK j \in DOMAIN q : /\ Publishes(q[j]) /\ Covers(AreaOf(q[j]), x)
                              /\ \A k \in DOMAIN q : j < k => ~ Publishes(q[k])
    BY <1>2
  <2>2. j \in DOMAIN w /\ w[j] = q[j]
    BY <1>1
  <2>3. \A k \in DOMAIN w : j < k => ~ Publishes(w[k])
    BY <1>1, <2>1
  <2> QED
    BY <2>1, <2>2, <2>3 DEF Covered, w
<1>3. CASE (\A k \in DOMAIN q : ~ Publishes(q[k])) /\ area # <<>> /\ Covers(area[1], x)
  <2>1. \A k \in DOMAIN w : ~ Publishes(w[k])
    BY <1>1, <1>3
  <2> QED
    BY <1>3, <2>1 DEF Covered, w
<1> QED
  BY <1>2, <1>3 DEF Covered

LEMMA CoveredAnew ==
  ASSUME NEW q, IsSeq(q), NEW m, Publishes(m), NEW area, NEW x, Covers(AreaOf(m), x)
  PROVE  Covered(area, Append(q, m), x)
<1> DEFINE w == Append(q, m)
           n == Len(q)
<1>1. /\ DOMAIN w = 1 .. (n + 1) /\ w[n + 1] = m /\ n \in Nat
  BY Appended
<1> HIDE DEF w, n
<1>2. n + 1 \in DOMAIN w /\ \A k \in DOMAIN w : ~ (n + 1 < k)
  BY <1>1
<1> QED
  BY <1>1, <1>2 DEF Covered, w

\* The areas published still hold the columns drawn, when one more payload says so.
LEMMA InAreaOn ==
  ASSUME NEW q, IsSeq(q), NEW m, NEW area, InArea(area, q), Draws(m) => Covered(area, q, Where(m))
  PROVE  InArea(area, Append(q, m))
<1> DEFINE w == Append(q, m)
           n == Len(q)
<1>1. /\ DOMAIN w = 1 .. (n + 1) /\ w[n + 1] = m /\ DOMAIN q = 1 .. n /\ n \in Nat
      /\ \A i \in 1 .. n : w[i] = q[i]
  BY Appended
<1> HIDE DEF w, n
<1> DEFINE Good(i) == \/ \E j \in DOMAIN w : Follows(w, j, i) /\ Covers(AreaOf(w[j]), Where(w[i]))
                      \/ First(w, i) /\ area # <<>> /\ Covers(area[1], Where(w[i]))
<1>2. ASSUME NEW i \in 1 .. n, Draws(w[i]) PROVE Good(i)
  <2>1. w[i] = q[i] /\ i \in DOMAIN q /\ Draws(q[i])
    BY <1>1, <1>2
  <2>2. CASE \E j \in DOMAIN q : Follows(q, j, i) /\ Covers(AreaOf(q[j]), Where(q[i]))
    <3>1. PICK j \in DOMAIN q : Follows(q, j, i) /\ Covers(AreaOf(q[j]), Where(q[i]))
      BY <2>2
    <3>2. j \in DOMAIN w /\ w[j] = q[j]
      BY <1>1
    <3>3. Follows(w, j, i)
      BY <1>1, <3>1, <3>2 DEF Follows
    <3> QED
      BY <2>1, <3>1, <3>2, <3>3
  <2>3. CASE First(q, i) /\ area # <<>> /\ Covers(area[1], Where(q[i]))
    <3>1. First(w, i)
      BY <1>1, <2>3 DEF First
    <3> QED
      BY <2>1, <2>3, <3>1
  <2> QED
    BY <2>1, <2>2, <2>3 DEF InArea
<1>3. ASSUME Draws(m) PROVE Good(n + 1)
  <2>1. Covered(area, q, Where(m))
    BY <1>3
  <2>2. CASE \E j \in DOMAIN q : /\ Publishes(q[j]) /\ Covers(AreaOf(q[j]), Where(m))
                                 /\ \A k \in DOMAIN q : j < k => ~ Publishes(q[k])
    <3>1. PICK j \in DOMAIN q : /\ Publishes(q[j]) /\ Covers(AreaOf(q[j]), Where(m))
                                /\ \A k \in DOMAIN q : j < k => ~ Publishes(q[k])
      BY <2>2
    <3>2. j \in DOMAIN w /\ w[j] = q[j] /\ j < n + 1
      BY <1>1
    <3>3. Follows(w, j, n + 1)
      BY <1>1, <3>1, <3>2 DEF Follows
    <3> QED
      BY <1>1, <3>1, <3>2, <3>3
  <2>3. CASE (\A k \in DOMAIN q : ~ Publishes(q[k])) /\ area # <<>> /\ Covers(area[1], Where(m))
    <3>1. First(w, n + 1)
      BY <1>1, <2>3 DEF First
    <3> QED
      BY <1>1, <2>3, <3>1
  <2> QED
    BY <2>1, <2>2, <2>3 DEF Covered
<1>4. \A i \in DOMAIN w : i \in 1 .. n \/ i = n + 1
  BY <1>1
<1>5. \A i \in DOMAIN w : Draws(w[i]) => Good(i)
  <2> SUFFICES ASSUME NEW i \in DOMAIN w, Draws(w[i]) PROVE Good(i)
    OBVIOUS
  <2> HIDE DEF Good
  <2> QED
    BY <1>1, <1>2, <1>3, <1>4
<1> QED
  BY <1>5 DEF InArea, w

\* What is drawn grows by what the payload draws.
LEMMA DrawnOn ==
  ASSUME NEW q, IsSeq(q), NEW m
  PROVE  Drawn(q) \subseteq Drawn(Append(q, m)) /\ (Draws(m) => Where(m) \in Drawn(Append(q, m)))
<1> DEFINE w == Append(q, m)
           n == Len(q)
<1>1. /\ DOMAIN w = 1 .. (n + 1) /\ w[n + 1] = m /\ DOMAIN q = 1 .. n /\ n \in Nat
      /\ \A i \in 1 .. n : w[i] = q[i]
  BY Appended
<1> HIDE DEF w, n
<1>2. \A i \in DOMAIN q : i \in DOMAIN w /\ w[i] = q[i]
  BY <1>1
<1>3. n + 1 \in DOMAIN w
  BY <1>1
<1> QED
  BY <1>1, <1>2, <1>3 DEF Drawn, w

\* Nobody is told to spawn early by one more payload that does not.
LEMMA LedOn ==
  ASSUME NEW q, IsSeq(q), NEW m, NEW columns, Led(columns, q),
         Spawns(m) => {-1, 0, 1} \subseteq columns \cup Drawn(q)
  PROVE  Led(columns, Append(q, m))
<1> DEFINE w == Append(q, m)
           n == Len(q)
<1>1. /\ DOMAIN w = 1 .. (n + 1) /\ w[n + 1] = m /\ DOMAIN q = 1 .. n /\ n \in Nat
      /\ \A i \in 1 .. n : w[i] = q[i]
  BY Appended
<1> HIDE DEF w, n
<1> SUFFICES ASSUME NEW i \in DOMAIN w, Spawns(w[i]), NEW x \in {-1, 0, 1}
             PROVE  x \in columns \/ \E j \in DOMAIN w : j < i /\ Draws(w[j]) /\ Where(w[j]) = x
  BY DEF Led, w
<1>2. CASE i \in DOMAIN q
  <2>1. w[i] = q[i]
    BY <1>1, <1>2
  <2>2. x \in columns \/ \E j \in DOMAIN q : j < i /\ Draws(q[j]) /\ Where(q[j]) = x
    BY <1>2, <2>1 DEF Led
  <2> QED
    BY <1>1, <2>2
<1>3. CASE i = n + 1
  <2>1. x \in columns \/ x \in Drawn(q)
    BY <1>1, <1>3
  <2>2. x \in Drawn(q) => \E j \in DOMAIN q : Draws(q[j]) /\ Where(q[j]) = x
    BY DEF Drawn
  <2> QED
    BY <1>1, <1>3, <2>1, <2>2
<1> QED
  BY <1>1, <1>2, <1>3

\* The next number.
LEMMA NumberedOn ==
  ASSUME NEW q, IsSeq(q), NEW m, NEW key, NEW first \in Nat, Numbered(q, key, first),
         m.key = key, m.n = first + Len(q)
  PROVE  Numbered(Append(q, m), key, first)
<1> DEFINE w == Append(q, m)
           n == Len(q)
<1>1. /\ DOMAIN w = 1 .. (n + 1) /\ w[n + 1] = m /\ DOMAIN q = 1 .. n /\ n \in Nat
      /\ \A i \in 1 .. n : w[i] = q[i]
  BY Appended
<1>2. m.n = first + n
  OBVIOUS
<1> HIDE DEF w, n
<1> SUFFICES ASSUME NEW i \in DOMAIN w PROVE w[i].key = key /\ w[i].n = first + i - 1
  BY DEF Numbered, w
<1>3. CASE i \in DOMAIN q
  BY <1>1, <1>3 DEF Numbered
<1>4. CASE i = n + 1
  BY <1>1, <1>2, <1>4
<1> QED
  BY <1>1, <1>3, <1>4

-----------------------------------------------------------------------------
\* What the listener refuses takes no area away from what it takes,
LEMMA InAreaCut ==
  ASSUME NEW q, IsSeq(q), NEW n \in Nat, n <= Len(q), NEW area, InArea(area, q)
  PROVE  InArea(area, SubSeq(q, 1, n))
<1> DEFINE w == SubSeq(q, 1, n)
           l == Len(q)
<1>1. DOMAIN w = 1 .. n /\ DOMAIN q = 1 .. l /\ l \in Nat /\ \A i \in 1 .. n : w[i] = q[i]
  BY Beginnings
<1>2. n <= l
  OBVIOUS
<1> HIDE DEF w, l
<1> SUFFICES ASSUME NEW i \in DOMAIN w, Draws(w[i])
             PROVE  \/ \E j \in DOMAIN w : Follows(w, j, i) /\ Covers(AreaOf(w[j]), Where(w[i]))
                    \/ First(w, i) /\ area # <<>> /\ Covers(area[1], Where(w[i]))
  BY DEF InArea, w
<1>3. w[i] = q[i] /\ i \in DOMAIN q /\ Draws(q[i]) /\ i \in 1 .. n
  BY <1>1, <1>2
<1>4. CASE \E j \in DOMAIN q : Follows(q, j, i) /\ Covers(AreaOf(q[j]), Where(q[i]))
  <2>1. PICK j \in DOMAIN q : Follows(q, j, i) /\ Covers(AreaOf(q[j]), Where(q[i]))
    BY <1>4
  <2>2. j < i /\ Publishes(q[j]) /\ \A k \in DOMAIN q : j < k /\ k < i => ~ Publishes(q[k])
    BY <2>1 DEF Follows
  <2>3. j \in DOMAIN w /\ w[j] = q[j]
    BY <1>1, <1>3, <2>2
  <2>4. \A k \in DOMAIN w : j < k /\ k < i => ~ Publishes(w[k])
    BY <1>1, <1>2, <2>2
  <2>5. Follows(w, j, i)
    BY <2>2, <2>3, <2>4 DEF Follows
  <2> QED
    BY <1>3, <2>1, <2>3, <2>5
<1>5. CASE First(q, i) /\ area # <<>> /\ Covers(area[1], Where(q[i]))
  <2>1. First(w, i)
    BY <1>1, <1>2, <1>5 DEF First
  <2> QED
    BY <1>3, <1>5, <2>1
<1> QED
  BY <1>3, <1>4, <1>5 DEF InArea

\* nor a column from who spawns.
LEMMA LedCut ==
  ASSUME NEW q, IsSeq(q), NEW n \in Nat, n <= Len(q), NEW columns, Led(columns, q)
  PROVE  Led(columns, SubSeq(q, 1, n))
<1> DEFINE w == SubSeq(q, 1, n)
           l == Len(q)
<1>1. DOMAIN w = 1 .. n /\ DOMAIN q = 1 .. l /\ l \in Nat /\ \A i \in 1 .. n : w[i] = q[i]
  BY Beginnings
<1>2. n <= l
  OBVIOUS
<1> HIDE DEF w, l
<1> SUFFICES ASSUME NEW i \in DOMAIN w, Spawns(w[i]), NEW x \in {-1, 0, 1}
             PROVE  x \in columns \/ \E j \in DOMAIN w : j < i /\ Draws(w[j]) /\ Where(w[j]) = x
  BY DEF Led, w
<1>3. w[i] = q[i] /\ i \in DOMAIN q /\ Spawns(q[i]) /\ i \in 1 .. n
  BY <1>1, <1>2
<1>4. x \in columns \/ \E j \in DOMAIN q : j < i /\ Draws(q[j]) /\ Where(q[j]) = x
  BY <1>3 DEF Led
<1>5. \A j \in DOMAIN q : j < i => j \in DOMAIN w /\ w[j] = q[j]
  BY <1>1, <1>3
<1> QED
  BY <1>4, <1>5

-----------------------------------------------------------------------------
\* The client has read the first payload.

LEMMA InAreaRead ==
  ASSUME NEW q, IsSeq(q), q # <<>>, NEW area, InArea(area, q),
         NEW after, after = IF Publishes(q[1]) THEN << AreaOf(q[1]) >> ELSE area
  PROVE  InArea(after, Tail(q))
<1> DEFINE w == Tail(q)
           n == Len(q)
<1>1. /\ n \in Nat /\ n >= 1 /\ DOMAIN w = 1 .. (n - 1) /\ DOMAIN q = 1 .. n
      /\ \A i \in 1 .. (n - 1) : w[i] = q[i + 1]
  BY Untailed
<1> HIDE DEF w, n
<1> SUFFICES ASSUME NEW i \in DOMAIN w, Draws(w[i])
             PROVE  \/ \E j \in DOMAIN w : Follows(w, j, i) /\ Covers(AreaOf(w[j]), Where(w[i]))
                    \/ First(w, i) /\ after # <<>> /\ Covers(after[1], Where(w[i]))
  BY DEF InArea, w
<1>2. i \in 1 .. (n - 1) /\ i + 1 \in DOMAIN q /\ w[i] = q[i + 1] /\ Draws(q[i + 1])
  BY <1>1
<1>3. CASE \E j \in DOMAIN q : Follows(q, j, i + 1) /\ Covers(AreaOf(q[j]), Where(q[i + 1]))
  <2>1. PICK j \in DOMAIN q : Follows(q, j, i + 1) /\ Covers(AreaOf(q[j]), Where(q[i + 1]))
    BY <1>3
  <2>2. /\ Publishes(q[j]) /\ j < i + 1
        /\ \A k \in DOMAIN q : j < k /\ k < i + 1 => ~ Publishes(q[k])
    BY <2>1 DEF Follows
  <2>3. CASE j = 1
    <3>1. \A k \in DOMAIN w : k < i => k + 1 \in DOMAIN q /\ w[k] = q[k + 1] /\ 1 < k + 1 /\ k + 1 < i + 1
      BY <1>1, <1>2
    <3>2. First(w, i)
      BY <2>2, <2>3, <3>1 DEF First
    <3>3. after = << AreaOf(q[1]) >>
      BY <2>2, <2>3
    <3>4. after # <<>> /\ after[1] = AreaOf(q[1])
      BY <3>3
    <3> QED
      BY <1>2, <2>1, <2>3, <3>2, <3>4
  <2>4. CASE j # 1
    <3>1. j - 1 \in DOMAIN w /\ w[j - 1] = q[j] /\ j - 1 < i
      BY <1>1, <1>2, <2>2, <2>4
    <3>2. \A k \in DOMAIN w : j - 1 < k /\ k < i
             => k + 1 \in DOMAIN q /\ w[k] = q[k + 1] /\ j < k + 1 /\ k + 1 < i + 1
      BY <1>1, <1>2
    <3>3. Follows(w, j - 1, i)
      BY <2>2, <3>1, <3>2 DEF Follows
    <3> QED
      BY <1>2, <2>1, <3>1, <3>3
  <2> QED
    BY <2>3, <2>4
<1>4. CASE First(q, i + 1) /\ area # <<>> /\ Covers(area[1], Where(q[i + 1]))
  <2>1. 1 \in DOMAIN q /\ 1 < i + 1
    BY <1>1, <1>2
  <2>2. ~ Publishes(q[1]) /\ after = area
    BY <1>4, <2>1 DEF First
  <2>3. \A k \in DOMAIN w : k < i => k + 1 \in DOMAIN q /\ w[k] = q[k + 1] /\ k + 1 < i + 1
    BY <1>1, <1>2
  <2>4. First(w, i)
    BY <1>4, <2>3 DEF First
  <2> QED
    BY <1>2, <1>4, <2>2, <2>4
<1> QED
  BY <1>2, <1>3, <1>4 DEF InArea

\* A column at the head of the queue is in the area the client knows.
LEMMA HeadInArea ==
  ASSUME NEW q, IsSeq(q), q # <<>>, NEW area, InArea(area, q), Draws(q[1])
  PROVE  area # <<>> /\ Covers(area[1], Where(q[1]))
<1>1. DOMAIN q = 1 .. Len(q) /\ Len(q) \in Nat /\ Len(q) >= 1
  BY Untailed
<1>2. 1 \in DOMAIN q
  BY <1>1
<1>3. \A j \in DOMAIN q : ~ (j < 1)
  BY <1>1
<1> QED
  BY <1>2, <1>3 DEF InArea, Follows

\* A payload read is a column drawn.
LEMMA LedRead ==
  ASSUME NEW q, IsSeq(q), q # <<>>, NEW columns, Led(columns, q),
         NEW after, columns \subseteq after, Draws(q[1]) => Where(q[1]) \in after
  PROVE  Led(after, Tail(q))
<1> DEFINE w == Tail(q)
           n == Len(q)
<1>1. /\ n \in Nat /\ n >= 1 /\ DOMAIN w = 1 .. (n - 1) /\ DOMAIN q = 1 .. n
      /\ \A i \in 1 .. (n - 1) : w[i] = q[i + 1]
  BY Untailed
<1> HIDE DEF w, n
<1> SUFFICES ASSUME NEW i \in DOMAIN w, Spawns(w[i]), NEW x \in {-1, 0, 1}
             PROVE  x \in after \/ \E j \in DOMAIN w : j < i /\ Draws(w[j]) /\ Where(w[j]) = x
  BY DEF Led, w
<1>2. i \in 1 .. (n - 1) /\ i + 1 \in DOMAIN q /\ w[i] = q[i + 1] /\ Spawns(q[i + 1])
  BY <1>1
<1>3. x \in columns \/ \E j \in DOMAIN q : j < i + 1 /\ Draws(q[j]) /\ Where(q[j]) = x
  BY <1>2 DEF Led
<1>4. ASSUME NEW j \in DOMAIN q, j < i + 1, Draws(q[j]), Where(q[j]) = x
      PROVE  x \in after \/ \E k \in DOMAIN w : k < i /\ Draws(w[k]) /\ Where(w[k]) = x
  <2>1. CASE j = 1
    BY <1>4, <2>1
  <2>2. CASE j # 1
    <3>1. j - 1 \in DOMAIN w /\ w[j - 1] = q[j] /\ j - 1 < i
      BY <1>1, <1>2, <1>4, <2>2
    <3> QED
      BY <1>4, <3>1
  <2> QED
    BY <2>1, <2>2
<1> QED
  BY <1>3, <1>4

\* A client told to spawn has the columns.
LEMMA HeadLed ==
  ASSUME NEW q, IsSeq(q), q # <<>>, NEW columns, Led(columns, q), Spawns(q[1])
  PROVE  {-1, 0, 1} \subseteq columns
<1>1. DOMAIN q = 1 .. Len(q) /\ Len(q) \in Nat /\ Len(q) >= 1
  BY Untailed
<1>2. 1 \in DOMAIN q
  BY <1>1
<1>3. \A j \in DOMAIN q : ~ (j < 1)
  BY <1>1
<1> QED
  BY <1>2, <1>3 DEF Led

LEMMA DrawnRead ==
  ASSUME NEW q, IsSeq(q), q # <<>>, NEW after, Draws(q[1]) => Where(q[1]) \in after
  PROVE  Drawn(q) \subseteq after \cup Drawn(Tail(q))
<1> DEFINE w == Tail(q)
           n == Len(q)
<1>1. /\ n \in Nat /\ n >= 1 /\ DOMAIN w = 1 .. (n - 1) /\ DOMAIN q = 1 .. n
      /\ \A i \in 1 .. (n - 1) : w[i] = q[i + 1]
  BY Untailed
<1> HIDE DEF w, n
<1> SUFFICES ASSUME NEW i \in DOMAIN q, Draws(q[i]) PROVE Where(q[i]) \in after \cup Drawn(w)
  BY DEF Drawn, w
<1>2. CASE i = 1
  BY <1>2
<1>3. CASE i # 1
  <2>1. i - 1 \in DOMAIN w /\ w[i - 1] = q[i]
    BY <1>1, <1>3
  <2> QED
    BY <2>1 DEF Drawn
<1> QED
  BY <1>2, <1>3

\* The numbers go on.
LEMMA NumberedRead ==
  ASSUME NEW q, IsSeq(q), q # <<>>, NEW key, NEW first \in Nat, Numbered(q, key, first)
  PROVE  Numbered(Tail(q), key, first + 1) /\ q[1].key = key /\ q[1].n = first
<1> DEFINE w == Tail(q)
           n == Len(q)
<1>1. /\ n \in Nat /\ n >= 1 /\ DOMAIN w = 1 .. (n - 1) /\ DOMAIN q = 1 .. n
      /\ \A i \in 1 .. (n - 1) : w[i] = q[i + 1]
  BY Untailed
<1> HIDE DEF w, n
<1>2. ASSUME NEW i \in DOMAIN w PROVE w[i].key = key /\ w[i].n = (first + 1) + i - 1
  <2>1. i + 1 \in DOMAIN q /\ w[i] = q[i + 1]
    BY <1>1
  <2>2. q[i + 1].key = key /\ q[i + 1].n = first + (i + 1) - 1
    BY <2>1 DEF Numbered
  <2>3. i \in Nat
    BY <1>1
  <2> QED
    BY <2>1, <2>2, <2>3
<1>3. 1 \in DOMAIN q
  BY <1>1
<1>4. q[1].key = key /\ q[1].n = first
  BY <1>3 DEF Numbered
<1> QED
  BY <1>2, <1>4 DEF Numbered, w

\* Every payload of a queue is on its way under a key, or none is.
LEMMA SealedCount ==
  ASSUME NEW q, IsSeq(q), \A i \in DOMAIN q : q[i].key # <<>>
  PROVE  OnItsWay(q) = Len(q)
<1>1. DOMAIN q = 1 .. Len(q) /\ Len(q) \in Nat
  BY SeqIs
<1>2. {i \in DOMAIN q : q[i].key # <<>>} = 1 .. Len(q)
  BY <1>1
<1>3. Cardinality(1 .. Len(q)) = Len(q)
  BY <1>1, FS_Interval
<1> QED
  BY <1>2, <1>3 DEF OnItsWay

\* Nothing in the clear counts.
LEMMA ClearCount ==
  ASSUME NEW q, \A i \in DOMAIN q : q[i].key = <<>>
  PROVE  OnItsWay(q) = 0
<1>1. {i \in DOMAIN q : q[i].key # <<>>} = {}
  OBVIOUS
<1> QED
  BY <1>1, FS_EmptySet DEF OnItsWay

-----------------------------------------------------------------------------
(* The handlers. f is what a call finds: the peer at its beginning, the     *)
(* payloads still on their way to the client and what the client holds,     *)
(* and which of two facts are claimed of them: that the client still reads  *)
(* ("live"), and that nothing was refused ("clean").                        *)

Flow(f, v) == f.down \o v.out

Working(f, v) ==
  /\ IsPeer(v) /\ IsSeq(f.down) /\ IsSeq(v.out) /\ f.taken \in Nat
  /\ v.settled = f.peer.settled /\ v.key = f.peer.key /\ v.protocol = f.peer.protocol
  /\ v.cipher = << [key |-> f.peer.cipher[1].key, sent |-> v.cipher[1].sent,
                    received |-> f.peer.cipher[1].received, aligned |-> f.peer.cipher[1].aligned] >>
  /\ v.cipher[1].sent \in Nat
  /\ v.player = <<>> \/ IsOne(v.player)
  /\ \A i \in DOMAIN v.out : v.out[i].key = f.peer.cipher[1].key /\ Spoken(v.out[i])
  /\ "live" \in f.claims => InArea(f.area, Flow(f, v)) /\ Led(f.columns, Flow(f, v))
  /\ "clean" \in f.claims => /\ v.cipher[1].sent = f.taken + Len(Flow(f, v))
                             /\ Numbered(Flow(f, v), f.peer.cipher[1].key, f.taken)

\* Every column remembered as sent is drawn, or on its way.
Delivered(f, v) == v.player # <<>> => v.player[1].sent \subseteq f.columns \cup Drawn(Flow(f, v))

LEMMA OneChanged == ASSUME NEW a, NEW b PROVE [<< a >> EXCEPT ![1] = b] = << b >>
<1> DEFINE s == << a >>
           w == [s EXCEPT ![1] = b]
<1>1. s \in Seq({a}) /\ Len(s) = 1
  OBVIOUS
<1>2. DOMAIN s = 1 .. 1
  BY <1>1
<1>3. w = [i \in 1 .. 1 |-> b]
  BY <1>2
<1>4. [i \in 1 .. 1 |-> b] = << b >>
  OBVIOUS
<1> QED
  BY <1>3, <1>4

\* A payload more is about to be sent.
LEMMA PeerSaid ==
  ASSUME NEW v, IsPeer(v), NEW out, NEW cipher
  PROVE  [v EXCEPT !.out = out, !.cipher = cipher]
           = [settled |-> v.settled, key |-> v.key, cipher |-> cipher,
              protocol |-> v.protocol, player |-> v.player, out |-> out]
<1> DEFINE w == [settled |-> v.settled, key |-> v.key, cipher |-> v.cipher,
                 protocol |-> v.protocol, player |-> v.player, out |-> v.out]
<1>1. v = w
  BY DEF IsPeer
<1>2. [w EXCEPT !.out = out]
        = [settled |-> v.settled, key |-> v.key, cipher |-> v.cipher,
           protocol |-> v.protocol, player |-> v.player, out |-> out]
  OBVIOUS
<1>3. [[settled |-> v.settled, key |-> v.key, cipher |-> v.cipher,
        protocol |-> v.protocol, player |-> v.player, out |-> out] EXCEPT !.cipher = cipher]
        = [settled |-> v.settled, key |-> v.key, cipher |-> cipher,
           protocol |-> v.protocol, player |-> v.player, out |-> out]
  OBVIOUS
<1> HIDE DEF w
<1>5. [v EXCEPT !.out = out, !.cipher = cipher] = [[w EXCEPT !.out = out] EXCEPT !.cipher = cipher]
  BY <1>1, Zenon
<1> QED
  BY <1>2, <1>3, <1>5, Zenon

LEMMA PeerPlayer ==
  ASSUME NEW v, IsPeer(v), NEW player
  PROVE  [v EXCEPT !.player = player]
           = [settled |-> v.settled, key |-> v.key, cipher |-> v.cipher,
              protocol |-> v.protocol, player |-> player, out |-> v.out]
<1> DEFINE w == [settled |-> v.settled, key |-> v.key, cipher |-> v.cipher,
                 protocol |-> v.protocol, player |-> v.player, out |-> v.out]
<1>1. v = w
  BY DEF IsPeer
<1>2. [w EXCEPT !.player = player]
        = [settled |-> v.settled, key |-> v.key, cipher |-> v.cipher,
           protocol |-> v.protocol, player |-> player, out |-> v.out]
  OBVIOUS
<1> HIDE DEF w
<1>3. [v EXCEPT !.player = player] = [w EXCEPT !.player = player]
  BY <1>1, Zenon
<1> QED
  BY <1>2, <1>3, Zenon

\* What send_encrypted changes, and what it leaves.
LEMMA SendShape ==
  ASSUME NEW v, IsPeer(v), NEW ci, v.cipher = << ci >>,
         ci = [key |-> ci.key, sent |-> ci.sent, received |-> ci.received, aligned |-> ci.aligned],
         NEW q
  PROVE  SendEncrypted(v, q)
           = [settled |-> v.settled, key |-> v.key,
              cipher |-> << [key |-> ci.key, sent |-> ci.sent + 1, received |-> ci.received,
                             aligned |-> ci.aligned] >>,
              protocol |-> v.protocol, player |-> v.player,
              out |-> Append(v.out, [key |-> ci.key, n |-> ci.sent, bytes |-> Telling(q)])]
<1> DEFINE m == [key |-> ci.key, n |-> ci.sent, bytes |-> Telling(q)]
           more == [ci EXCEPT !.sent = @ + 1]
           cipher == [v.cipher EXCEPT ![1] = more]
<1>1. v.cipher # <<>> /\ v.cipher[1] = ci
  OBVIOUS
<1>2. Sealed(v.cipher[1], EncodeWithMethod(<< q >>)) = m
  BY <1>1 DEF Sealed, Telling
<1>3. SendEncrypted(v, q) = [v EXCEPT !.out = Append(@, m), !.cipher = cipher]
  BY <1>1, <1>2 DEF SendEncrypted
<1>4. cipher = << more >>
  BY OneChanged
<1>5. more = [key |-> ci.key, sent |-> ci.sent + 1, received |-> ci.received, aligned |-> ci.aligned]
  OBVIOUS
<1> HIDE DEF m, more, cipher
<1>6. [v EXCEPT !.out = Append(@, m), !.cipher = cipher]
        = [settled |-> v.settled, key |-> v.key, cipher |-> cipher, protocol |-> v.protocol,
           player |-> v.player, out |-> Append(v.out, m)]
  BY PeerSaid
<1> QED
  BY <1>3, <1>4, <1>5, <1>6 DEF m

\* One packet sent.
LEMMA SendKeeps ==
  ASSUME NEW f, NEW v, Working(f, v), NEW q, Speakable(q),
         "live" \in f.claims /\ q.id = ID_LEVEL_CHUNK
           => Covered(f.area, Flow(f, v), Read(LevelChunk, q.body, 1).value.x),
         "live" \in f.claims /\ q.id = ID_PLAY_STATUS
             /\ Read(PlayStatus, q.body, 1).value.status = Status.PlayerSpawn
           => {-1, 0, 1} \subseteq f.columns \cup Drawn(Flow(f, v)),
         NEW w, w = SendEncrypted(v, q)
  PROVE  /\ Working(f, w) /\ w.player = v.player /\ IsSeq(Flow(f, v))
         /\ \E m : Heard(m) = q /\ Flow(f, w) = Append(Flow(f, v), m)
<1> DEFINE ci == v.cipher[1]
           K == f.peer.cipher[1].key
           m == [key |-> ci.key, n |-> ci.sent, bytes |-> Telling(q)]
           queue == Flow(f, v)
           after == << [key |-> ci.key, sent |-> ci.sent + 1, received |-> ci.received,
                        aligned |-> ci.aligned] >>
<1>1. v.cipher = << ci >>
      /\ ci = [key |-> ci.key, sent |-> ci.sent, received |-> ci.received, aligned |-> ci.aligned]
      /\ ci.key = K /\ ci.received = f.peer.cipher[1].received /\ ci.aligned = f.peer.cipher[1].aligned
      /\ ci.sent \in Nat
  BY DEF Working
<1>2. IsPeer(v)
  BY DEF Working
<1>3. w = [settled |-> v.settled, key |-> v.key, cipher |-> after, protocol |-> v.protocol,
           player |-> v.player, out |-> Append(v.out, m)]
  <2> HIDE DEF ci
  <2> QED
    BY <1>1, <1>2, SendShape
<1>4. m.bytes = Telling(q) /\ m.key = K /\ m.n = ci.sent
  BY <1>1
<1> HIDE DEF m, K
<1>5. Spoken(m) /\ Heard(m) = q
  BY <1>4, SpokenIs
<1>6. IsPeer(w) /\ w.settled = v.settled /\ w.key = v.key /\ w.protocol = v.protocol
      /\ w.player = v.player /\ w.cipher = after /\ w.out = Append(v.out, m)
  BY <1>3 DEF IsPeer
<1>7. after[1].sent = ci.sent + 1
      /\ after = << [key |-> f.peer.cipher[1].key, sent |-> after[1].sent,
                     received |-> f.peer.cipher[1].received, aligned |-> f.peer.cipher[1].aligned] >>
  BY <1>1 DEF K
<1> HIDE DEF after
<1>8. IsSeq(f.down) /\ IsSeq(v.out)
  BY DEF Working
<1> DEFINE past == f.down
           said == v.out
           now == w.out
<1> HIDE DEF past, said, now
<1>20. IsSeq(past) /\ IsSeq(said) /\ now = Append(said, m)
  BY <1>6, <1>8 DEF past, said, now
<1>9. /\ IsSeq(w.out) /\ Len(w.out) = Len(v.out) + 1 /\ DOMAIN w.out = 1 .. (Len(v.out) + 1)
      /\ w.out[Len(v.out) + 1] = m /\ \A i \in 1 .. Len(v.out) : w.out[i] = v.out[i]
      /\ DOMAIN v.out = 1 .. Len(v.out) /\ Len(v.out) \in Nat
  <2>1. /\ IsSeq(now) /\ Len(now) = Len(said) + 1 /\ DOMAIN now = 1 .. (Len(said) + 1)
        /\ now[Len(said) + 1] = m /\ \A i \in 1 .. Len(said) : now[i] = said[i]
        /\ DOMAIN said = 1 .. Len(said) /\ Len(said) \in Nat
    <3>1. IsSeq(now)
      BY <1>20, Appended
    <3>2. Len(now) = Len(said) + 1 /\ DOMAIN now = 1 .. (Len(said) + 1)
      BY <1>20, Appended
    <3>3. now[Len(said) + 1] = m
      BY <1>20, Appended
    <3>4. \A i \in 1 .. Len(said) : now[i] = said[i]
      BY <1>20, Appended
    <3>5. DOMAIN said = 1 .. Len(said) /\ Len(said) \in Nat
      BY <1>20, Appended
    <3> QED
      BY <3>1, <3>2, <3>3, <3>4, <3>5
  <2> QED
    BY <2>1 DEF now, said
<1>10. \A i \in DOMAIN w.out : w.out[i].key = K /\ Spoken(w.out[i])
  <2>1. \A i \in DOMAIN v.out : v.out[i].key = K /\ Spoken(v.out[i])
    BY DEF Working, K
  <2> QED
    BY <1>4, <1>5, <1>9, <2>1
<1>11. Flow(f, w) = Append(queue, m) /\ IsSeq(queue)
  <2>1. past \o now = Append(past \o said, m)
    BY <1>20, JoinedAppend
  <2>2. IsSeq(past \o said)
    BY <1>20, JoinedPrefix
  <2>3. Flow(f, w) = past \o now /\ queue = past \o said
    BY DEF Flow, queue, past, now, said
  <2> QED
    BY <2>1, <2>2, <2>3
<1>12. Len(Flow(f, w)) = Len(queue) + 1 /\ Len(queue) \in Nat
  BY <1>11, Appended
<1> HIDE DEF queue, ci
<1>13. ASSUME "live" \in f.claims PROVE InArea(f.area, Flow(f, w)) /\ Led(f.columns, Flow(f, w))
  <2>1. InArea(f.area, queue) /\ Led(f.columns, queue)
    BY <1>13 DEF Working, queue
  <2>2. Draws(m) => Covered(f.area, queue, Where(m))
    BY <1>5, <1>13 DEF Draws, Where, Field, queue
  <2>3. Spawns(m) => {-1, 0, 1} \subseteq f.columns \cup Drawn(queue)
    BY <1>5, <1>13 DEF Spawns, Field, queue
  <2> QED
    BY <1>11, <2>1, <2>2, <2>3, InAreaOn, LedOn
<1>14. ASSUME "clean" \in f.claims
       PROVE  /\ w.cipher[1].sent = f.taken + Len(Flow(f, w))
              /\ Numbered(Flow(f, w), K, f.taken)
  <2>1. ci.sent = f.taken + Len(queue) /\ Numbered(queue, K, f.taken) /\ f.taken \in Nat
    BY <1>14 DEF Working, queue, ci, K
  <2>2. Numbered(Append(queue, m), K, f.taken)
    BY <1>4, <1>11, <2>1, NumberedOn
  <2>3. ci.sent + 1 = f.taken + (Len(queue) + 1)
    BY <1>12, <2>1
  <2> QED
    BY <1>6, <1>7, <1>11, <1>12, <2>2, <2>3
<1>15. w.cipher[1].sent \in Nat
  BY <1>1, <1>6, <1>7
<1>16. Working(f, w)
  <2>1. /\ f.taken \in Nat
        /\ v.settled = f.peer.settled /\ v.key = f.peer.key /\ v.protocol = f.peer.protocol
        /\ v.player = <<>> \/ IsOne(v.player)
    BY DEF Working
  <2> QED
    BY <1>6, <1>7, <1>8, <1>9, <1>10, <1>13, <1>14, <1>15, <2>1 DEF Working, K
<1> QED
  BY <1>5, <1>6, <1>11, <1>16 DEF queue

-----------------------------------------------------------------------------
(* Changes of the player.                                                   *)

LEMMA PlayerChanges ==
  ASSUME NEW f, NEW v, Working(f, v), NEW player, player = <<>> \/ IsOne(player),
         NEW w, w = [v EXCEPT !.player = player]
  PROVE  Working(f, w) /\ w.player = player /\ Flow(f, w) = Flow(f, v)
<1>1. IsPeer(v)
  BY DEF Working
<1>2. w = [settled |-> v.settled, key |-> v.key, cipher |-> v.cipher,
           protocol |-> v.protocol, player |-> player, out |-> v.out]
  BY <1>1, PeerPlayer
<1>3. IsPeer(w) /\ w.settled = v.settled /\ w.key = v.key /\ w.protocol = v.protocol
      /\ w.player = player /\ w.cipher = v.cipher /\ w.out = v.out
  BY <1>2 DEF IsPeer
<1>4. Flow(f, w) = Flow(f, v)
  BY <1>3 DEF Flow
<1>5. Working(f, w)
  BY <1>3, <1>4 DEF Working
<1> QED
  BY <1>3, <1>4, <1>5

LEMMA PlayerAgain ==
  ASSUME NEW v, IsPeer(v), NEW a, NEW b
  PROVE  /\ IsPeer([v EXCEPT !.player = a]) /\ [v EXCEPT !.player = a].player = a
         /\ [[v EXCEPT !.player = a] EXCEPT !.player = b] = [v EXCEPT !.player = b]
<1> DEFINE w == [v EXCEPT !.player = a]
<1>1. w = [settled |-> v.settled, key |-> v.key, cipher |-> v.cipher,
           protocol |-> v.protocol, player |-> a, out |-> v.out]
  BY PeerPlayer
<1> HIDE DEF w
<1>2. IsPeer(w) /\ w.settled = v.settled /\ w.key = v.key /\ w.protocol = v.protocol
      /\ w.player = a /\ w.cipher = v.cipher /\ w.out = v.out
  BY <1>1 DEF IsPeer
<1>3. [w EXCEPT !.player = b]
        = [settled |-> w.settled, key |-> w.key, cipher |-> w.cipher,
           protocol |-> w.protocol, player |-> b, out |-> w.out]
  BY <1>2, PeerPlayer
<1>4. [v EXCEPT !.player = b]
        = [settled |-> v.settled, key |-> v.key, cipher |-> v.cipher,
           protocol |-> v.protocol, player |-> b, out |-> v.out]
  BY PeerPlayer
<1>5. [w EXCEPT !.player = b] = [v EXCEPT !.player = b]
  BY <1>2, <1>3, <1>4
<1> QED
  BY <1>2, <1>5 DEF w

\* One field of the player, as each handler writes it.
LEMMA PlayerSent ==
  ASSUME NEW v, NEW pl, v.player = << pl >>, NEW S
  PROVE  [v EXCEPT !.player[1].sent = S] = [v EXCEPT !.player = << [pl EXCEPT !.sent = S] >>]
<1> DEFINE b == [pl EXCEPT !.sent = S]
<1>1. v.player[1] = pl
  OBVIOUS
<1>2. [v EXCEPT !.player[1].sent = S] = [v EXCEPT !.player = [v.player EXCEPT ![1] = b]]
  BY <1>1
<1>3. [<< pl >> EXCEPT ![1] = b] = << b >>
  <2> HIDE DEF b
  <2> QED
    BY OneChanged
<1> HIDE DEF b
<1>4. [v EXCEPT !.player[1].sent = S] = [v EXCEPT !.player = << b >>]
  BY <1>2, <1>3
<1> QED
  BY <1>4 DEF b

LEMMA PlayerCenter ==
  ASSUME NEW v, NEW pl, v.player = << pl >>, NEW c
  PROVE  [v EXCEPT !.player[1].center = c] = [v EXCEPT !.player = << [pl EXCEPT !.center = c] >>]
<1> DEFINE b == [pl EXCEPT !.center = c]
<1>1. v.player[1] = pl
  OBVIOUS
<1>2. [v EXCEPT !.player[1].center = c] = [v EXCEPT !.player = [v.player EXCEPT ![1] = b]]
  BY <1>1
<1>3. [<< pl >> EXCEPT ![1] = b] = << b >>
  <2> HIDE DEF b
  <2> QED
    BY OneChanged
<1> HIDE DEF b
<1>4. [v EXCEPT !.player[1].center = c] = [v EXCEPT !.player = << b >>]
  BY <1>2, <1>3
<1> QED
  BY <1>4 DEF b

LEMMA PlayerPlace ==
  ASSUME NEW v, NEW pl, v.player = << pl >>, NEW x
  PROVE  /\ [v EXCEPT !.player[1].x = x] = [v EXCEPT !.player = << [pl EXCEPT !.x = x] >>]
         /\ [v EXCEPT !.player[1].y = x] = [v EXCEPT !.player = << [pl EXCEPT !.y = x] >>]
<1> DEFINE b == [pl EXCEPT !.x = x]
           d == [pl EXCEPT !.y = x]
<1>1. v.player[1] = pl
  OBVIOUS
<1>2. [v EXCEPT !.player[1].x = x] = [v EXCEPT !.player = [v.player EXCEPT ![1] = b]]
  BY <1>1
<1>3. [v EXCEPT !.player[1].y = x] = [v EXCEPT !.player = [v.player EXCEPT ![1] = d]]
  BY <1>1
<1>4. [<< pl >> EXCEPT ![1] = b] = << b >>
  <2> HIDE DEF b
  <2> QED
    BY OneChanged
<1>5. [<< pl >> EXCEPT ![1] = d] = << d >>
  <2> HIDE DEF d
  <2> QED
    BY OneChanged
<1> HIDE DEF b, d
<1>6. [v EXCEPT !.player[1].x = x] = [v EXCEPT !.player = << b >>]
  BY <1>2, <1>4
<1>7. [v EXCEPT !.player[1].y = x] = [v EXCEPT !.player = << d >>]
  BY <1>3, <1>5
<1> QED
  BY <1>6, <1>7 DEF b, d

LEMMA OneIsOne == ASSUME NEW a PROVE IsOne(<< a >>) /\ << a >>[1] = a /\ << a >> # <<>>
BY DEF IsOne

LEMMA PlayerSentIs ==
  ASSUME NEW pl, IsPlayer(pl), NEW S, S \subseteq Int, NEW q, q = [pl EXCEPT !.sent = S]
  PROVE  /\ IsPlayer(q) /\ q.sent = S /\ q.radius = pl.radius /\ q.center = pl.center
         /\ q.x = pl.x /\ q.y = pl.y
         /\ \A T : [q EXCEPT !.sent = T] = [pl EXCEPT !.sent = T]
<1>1. pl \in [radius : Nat, center : Int, sent : SUBSET Int, x : Int, y : Int]
  BY DEF IsPlayer
<1>2. q \in [radius : Nat, center : Int, sent : SUBSET Int, x : Int, y : Int]
  BY <1>1
<1>3. q.sent = S /\ q.radius = pl.radius /\ q.center = pl.center /\ q.x = pl.x /\ q.y = pl.y
  BY <1>1
<1>4. \A T : [q EXCEPT !.sent = T] = [pl EXCEPT !.sent = T]
  <2> SUFFICES ASSUME NEW T PROVE [q EXCEPT !.sent = T] = [pl EXCEPT !.sent = T]
    OBVIOUS
  <2> DEFINE b == [pl EXCEPT !.sent = T]
             d == [q EXCEPT !.sent = T]
  <2>1. DOMAIN pl = {"radius", "center", "sent", "x", "y"}
    BY <1>1
  <2>2. b = [i \in DOMAIN pl |-> IF i = "sent" THEN T ELSE pl[i]]
    BY <1>1
  <2>3. DOMAIN q = DOMAIN pl /\ \A i \in DOMAIN pl : i # "sent" => q[i] = pl[i]
    BY <1>1
  <2>4. d = [i \in DOMAIN q |-> IF i = "sent" THEN T ELSE q[i]]
    BY <1>2
  <2> HIDE DEF b, d
  <2>5. b = d
    BY <2>2, <2>3, <2>4
  <2> QED
    BY <2>5 DEF b, d
<1>5. IsPlayer(q)
  BY <1>2, <1>3 DEF IsPlayer
<1> QED
  BY <1>3, <1>4, <1>5

-----------------------------------------------------------------------------
(* stream_around. fixed is what its loop starts from: what the call found,  *)
(* the peer, and the player with what is left remembered.                   *)

View(pl) == Around(pl.center, pl.radius)

Streaming(fixed, w, k) ==
  /\ Working(fixed.f, w) /\ IsOne(w.player)
  /\ w.player[1] = [fixed.pl EXCEPT !.sent = w.player[1].sent]
  /\ fixed.pl.sent \subseteq w.player[1].sent
  /\ w.player[1].sent \subseteq fixed.pl.sent \cup View(fixed.pl)
  /\ \A x \in View(fixed.pl) : x < fixed.pl.center - fixed.pl.radius + k => x \in w.player[1].sent
  /\ "live" \in fixed.f.claims => \A x \in View(fixed.pl) : Covered(fixed.f.area, Flow(fixed.f, w), x)
  /\ "told" \in fixed.claims => Delivered(fixed.f, w)

LEMMA ColumnFits ==
  ASSUME NEW pl, IsPlayer(pl), pl.center = ColumnOf(pl.x), NEW x \in View(pl)
  PROVE  /\ x \in Int /\ FitsSigned(x) /\ FitsSigned(16 * pl.center)
         /\ 16 * x - 16 * pl.center \in -(16 * pl.radius) .. 16 * pl.radius
<1>1. /\ pl.x \in Int /\ pl.center \in Int /\ pl.radius \in Nat
      /\ pl.radius <= 1000000 /\ -1100000000 <= pl.x /\ pl.x <= 1100000000
  BY DEF IsPlayer, Reach
<1>2. pl.center = (pl.x \div 100) \div 16
  BY DEF ColumnOf, CHUNK_WIDTH
<1>3. -11000000 <= pl.x \div 100 /\ pl.x \div 100 <= 11000000 /\ pl.x \div 100 \in Int
  BY <1>1
<1>4. -1000000 <= pl.center /\ pl.center <= 1000000
  BY <1>2, <1>3
<1>5. x \in Int /\ pl.center - pl.radius <= x /\ x <= pl.center + pl.radius
  BY <1>1 DEF View, Around
<1>6. -Far <= x /\ x <= Far /\ -Far <= 16 * pl.center /\ 16 * pl.center <= Far
  BY <1>1, <1>4, <1>5 DEF Far
<1>7. FitsSigned(x)
  BY <1>5, <1>6, FarIs
<1>8. FitsSigned(16 * pl.center)
  BY <1>1, <1>6, FarIs
<1>9. 16 * x - 16 * pl.center \in -(16 * pl.radius) .. 16 * pl.radius
  BY <1>1, <1>5
<1> QED
  BY <1>5, <1>7, <1>8, <1>9

\* A column is sent, inside the area published.
LEMMA ColumnSent ==
  ASSUME NEW fixed, IsPlayer(fixed.pl), fixed.pl.center = ColumnOf(fixed.pl.x),
         NEW k \in Nat, k < 2 * fixed.pl.radius + 1,
         NEW x, x = fixed.pl.center - fixed.pl.radius + k,
         NEW v, Streaming(fixed, v, k)
  PROVE  Streaming(fixed, SendColumn(v, x), k + 1)
<1> DEFINE pl == fixed.pl
           f == fixed.f
           old == v.player[1]
           S == old.sent
           now == [old EXCEPT !.sent = S \cup {x}]
<1>1. pl.center \in Int /\ pl.radius \in Nat /\ x \in Int /\ x \in View(pl)
      /\ pl.sent \in SUBSET Int
  BY DEF IsPlayer, View, Around
<1>2. S \subseteq Int
  <2>1. View(pl) \subseteq Int
    BY <1>1 DEF View, Around
  <2> QED
    BY <1>1, <2>1 DEF Streaming
<1>3. v.player = << old >> /\ old = [pl EXCEPT !.sent = S] /\ IsPeer(v) /\ Working(f, v)
  BY DEF Streaming, IsOne, Working
<1>4. IsPlayer(old) /\ \A T : [old EXCEPT !.sent = T] = [pl EXCEPT !.sent = T]
  <2> HIDE DEF pl, S, old
  <2>1. IsPlayer(pl)
    BY DEF pl
  <2> QED
    BY <1>2, <1>3, <2>1, PlayerSentIs
<1>5. \A y \in View(pl) : y < pl.center - pl.radius + (k + 1) => y = x \/ y < pl.center - pl.radius + k
  BY <1>1 DEF View, Around
<1>6. /\ pl.sent \subseteq S /\ S \subseteq pl.sent \cup View(pl)
      /\ \A y \in View(pl) : y < pl.center - pl.radius + k => y \in S
      /\ "live" \in f.claims => \A y \in View(pl) : Covered(f.area, Flow(f, v), y)
      /\ "told" \in fixed.claims => Delivered(f, v)
  BY DEF Streaming
<1> HIDE DEF pl, f, S, old
<1>7. CASE x \in S
  <2>1. SendColumn(v, x) = v
    BY <1>7 DEF SendColumn, S, old
  <2>2. \A y \in View(pl) : y < pl.center - pl.radius + (k + 1) => y \in S
    BY <1>5, <1>6, <1>7
  <2> QED
    BY <2>1, <2>2 DEF Streaming, pl, S, old
<1>8. CASE x \notin S
  <2> DEFINE u == [v EXCEPT !.player[1].sent = @ \cup {x}]
             w == SendEncrypted(u, ColumnPacket(x))
             q == ColumnPacket(x)
  <2>1. u = [v EXCEPT !.player = << now >>]
    <3>1. u = [v EXCEPT !.player[1].sent = S \cup {x}]
      BY DEF S, old
    <3> HIDE DEF u
    <3>2. [v EXCEPT !.player[1].sent = S \cup {x}] = [v EXCEPT !.player = << [old EXCEPT !.sent = S \cup {x}] >>]
      BY <1>3, PlayerSent
    <3> QED
      BY <3>1, <3>2
  <2>2. SendColumn(v, x) = w
    BY <1>8 DEF SendColumn, S, old
  <2>3. IsPlayer(now) /\ now.sent = S \cup {x} /\ now = [pl EXCEPT !.sent = S \cup {x}]
    <3>1. S \cup {x} \subseteq Int
      BY <1>1, <1>2
    <3> DEFINE T == S \cup {x}
    <3>2. T \subseteq Int /\ now = [old EXCEPT !.sent = T]
      BY <3>1
    <3> HIDE DEF T, now
    <3>3. IsPlayer(now) /\ now.sent = T
      BY <1>4, <3>2, PlayerSentIs
    <3>4. now = [pl EXCEPT !.sent = T]
      BY <1>4, <3>2
    <3> QED
      BY <3>3, <3>4 DEF T
  <2> HIDE DEF now
  <2>4. IsOne(<< now >>) /\ << now >>[1] = now /\ << now >> # <<>>
    BY OneIsOne
  <2> DEFINE player == << now >>
  <2> HIDE DEF player, u
  <2>5. Working(f, u) /\ u.player = player /\ Flow(f, u) = Flow(f, v)
    <3>1. u = [v EXCEPT !.player = player] /\ IsOne(player)
      BY <2>1, <2>4 DEF player
    <3> QED
      BY <1>3, <3>1, PlayerChanges
  <2>6. FitsSigned(x)
    <3>1. IsPlayer(pl) /\ pl.center = ColumnOf(pl.x)
      BY DEF pl
    <3> QED
      BY <1>1, <3>1, ColumnFits
  <2>7. Speakable(q) /\ q.id = ID_LEVEL_CHUNK /\ Read(LevelChunk, q.body, 1).value.x = x
    BY <2>6, ColumnTold
  <2> HIDE DEF q
  <2>8. q.id # ID_PLAY_STATUS
    BY <2>7 DEF ID_LEVEL_CHUNK, ID_PLAY_STATUS
  <2>9. "live" \in f.claims => Covered(f.area, Flow(f, u), x)
    BY <1>1, <1>6, <2>5
  <2>10. w = SendEncrypted(u, q)
    BY DEF q
  <2> HIDE DEF w
  <2>11. /\ Working(f, w) /\ w.player = u.player /\ IsSeq(Flow(f, u))
         /\ \E m : Heard(m) = q /\ Flow(f, w) = Append(Flow(f, u), m)
    BY <2>5, <2>7, <2>8, <2>9, <2>10, SendKeeps
  <2>12. PICK m : Heard(m) = q /\ Flow(f, w) = Append(Flow(f, u), m)
    BY <2>11
  <2>13. Draws(m) /\ Where(m) = x /\ ~ Publishes(m)
    BY <2>7, <2>12 DEF Draws, Where, Field, Publishes, ID_LEVEL_CHUNK, ID_NETWORK_CHUNK_PUBLISHER_UPDATE
  <2> DEFINE queue == Flow(f, v)
             after == Flow(f, w)
  <2>14. after = Append(queue, m) /\ IsSeq(queue)
    BY <2>5, <2>11, <2>12
  <2> HIDE DEF queue, after
  <2>15. \A y : Covered(f.area, queue, y) => Covered(f.area, after, y)
    BY <2>13, <2>14, CoveredOn
  <2>16. Drawn(queue) \subseteq Drawn(after) /\ x \in Drawn(after)
    BY <2>13, <2>14, DrawnOn
  <2>17. w.player = << now >> /\ w.player[1] = now /\ w.player # <<>>
    BY <2>4, <2>5, <2>11 DEF player
  <2>18. "told" \in fixed.claims => Delivered(f, w)
    <3> SUFFICES ASSUME "told" \in fixed.claims PROVE now.sent \subseteq f.columns \cup Drawn(after)
      BY <2>17 DEF Delivered, after
    <3>1. S \subseteq f.columns \cup Drawn(queue)
      <4>1. v.player # <<>>
        BY <1>3
      <4> QED
        BY <1>6, <4>1 DEF Delivered, S, old, queue
    <3> QED
      BY <2>3, <2>16, <3>1
  <2>19. \A y \in View(pl) : y < pl.center - pl.radius + (k + 1) => y \in now.sent
    BY <1>5, <1>6, <2>3
  <2>20. "live" \in f.claims => \A y \in View(pl) : Covered(f.area, after, y)
    BY <1>6, <2>15 DEF queue
  <2>21. pl.sent \subseteq now.sent /\ now.sent \subseteq pl.sent \cup View(pl)
    BY <1>1, <1>6, <2>3
  <2>22. now = [pl EXCEPT !.sent = now.sent]
    BY <2>3
  <2>23. Working(f, w) /\ IsOne(w.player)
    BY <2>4, <2>11, <2>17
  <2>24. Streaming(fixed, w, k + 1)
    BY <2>17, <2>18, <2>19, <2>20, <2>21, <2>22, <2>23 DEF Streaming, pl, f, after
  <2> QED
    BY <2>2, <2>24
<1> QED
  BY <1>7, <1>8

-----------------------------------------------------------------------------
(* The columns around a place, and the area published.                      *)

Streams == INSTANCE Folding WITH Op <- SendColumn, Holds <- Streaming

\* All columns of a set are sent (a loop over them).
LEMMA StreamsIs ==
  \A base, seq : FoldLeft(SendColumn, base, seq) = Streams!Loop(base, seq)
BY DEF Streams!Loop, Streams!MapThenFoldSet, Streams!Greatest, FoldLeft, MapThenFoldSet, Max

\* Those around a place that were not sent before are.
LEMMA ColumnsAroundIs ==
  ASSUME NEW center \in Int, NEW radius \in Nat
  PROVE  /\ ColumnsAround(center, radius) \in Seq(Int)
         /\ Len(ColumnsAround(center, radius)) = 2 * radius + 1
         /\ \A k \in 0 .. 2 * radius : ColumnsAround(center, radius)[k + 1] = center - radius + k
<1> DEFINE n == 2 * radius + 1
           q == [k \in 1 .. n |-> center - radius + k - 1]
<1>1. q \in Seq(Int) /\ Len(q) = n
  OBVIOUS
<1>2. \A k \in 0 .. 2 * radius : q[k + 1] = center - radius + k
  OBVIOUS
<1> QED
  BY <1>1, <1>2 DEF ColumnsAround

\* The player, and the peer, at the start of the loop.
PlayerAt(pl, center) == [pl EXCEPT !.center = center, !.sent = Remembered(pl, center)]

Centred(v, center) ==
  [v EXCEPT !.player[1].center = center, !.player[1].sent = Remembered(v.player[1], center)]

LEMMA PlayerMoves ==
  ASSUME NEW pl, IsPlayer(pl), NEW center \in Int, NEW q, q = PlayerAt(pl, center)
  PROVE  /\ IsPlayer(q) /\ q.radius = pl.radius /\ q.center = center
         /\ q.x = pl.x /\ q.y = pl.y
         /\ q.sent \subseteq pl.sent /\ q.sent \subseteq Around(center, pl.radius + Margin)
         /\ q.sent \subseteq Int /\ q = [q EXCEPT !.sent = q.sent]
<1> DEFINE R == Remembered(pl, center)
<1>0. q = [pl EXCEPT !.center = center, !.sent = R]
  BY DEF PlayerAt
<1>1. pl \in [radius : Nat, center : Int, sent : SUBSET Int, x : Int, y : Int]
  BY DEF IsPlayer
<1>2. R \subseteq pl.sent /\ R \subseteq Around(center, pl.radius + Margin)
  <2>1. Margin \in Nat /\ pl.radius \in Nat /\ pl.sent \in SUBSET Int
    BY <1>1, ServerAssumption
  <2>2. \A x \in Int : x - center \in -(pl.radius + Margin) .. pl.radius + Margin
                          => x \in center - (pl.radius + Margin) .. center + (pl.radius + Margin)
    BY <2>1
  <2> QED
    BY <2>1, <2>2 DEF Remembered, Around
<1>3. R \in SUBSET Int
  BY <1>1, <1>2
<1> HIDE DEF R
<1>4. q \in [radius : Nat, center : Int, sent : SUBSET Int, x : Int, y : Int]
  BY <1>0, <1>1, <1>3
<1>5. q.sent = R /\ q.radius = pl.radius /\ q.center = center /\ q.x = pl.x /\ q.y = pl.y
  BY <1>0, <1>1
<1>6. IsPlayer(q)
  BY <1>4, <1>5 DEF IsPlayer
<1>7. q = [q EXCEPT !.sent = q.sent]
  BY <1>4
<1> QED
  BY <1>2, <1>3, <1>5, <1>6, <1>7

LEMMA CentredIs ==
  ASSUME NEW v, IsPeer(v), NEW pl, v.player = << pl >>, NEW center
  PROVE  Centred(v, center) = [v EXCEPT !.player = << PlayerAt(pl, center) >>]
<1> DEFINE R == Remembered(pl, center)
           mid == [pl EXCEPT !.center = center]
           now == PlayerAt(pl, center)
           u1 == [v EXCEPT !.player[1].center = center]
           u == Centred(v, center)
           one == << mid >>
           two == << now >>
<1>1. v.player[1] = pl
  OBVIOUS
<1>2. u1 = [v EXCEPT !.player = one]
  BY PlayerCenter
<1>3. u = [u1 EXCEPT !.player[1].sent = R]
  BY <1>1 DEF Centred
<1>4. now = [mid EXCEPT !.sent = R]
  BY DEF PlayerAt
<1> HIDE DEF u1, mid, one, two, now, R, u
<1>5. IsPeer([v EXCEPT !.player = one]) /\ [v EXCEPT !.player = one].player = one
  BY PlayerAgain
<1>6. u1.player = << mid >>
  BY <1>2, <1>5 DEF one
<1>7. [u1 EXCEPT !.player[1].sent = R] = [u1 EXCEPT !.player = << [mid EXCEPT !.sent = R] >>]
  BY <1>6, PlayerSent
<1>8. u = [u1 EXCEPT !.player = two]
  BY <1>3, <1>4, <1>7 DEF two
<1>9. [[v EXCEPT !.player = one] EXCEPT !.player = two] = [v EXCEPT !.player = two]
  BY PlayerAgain
<1> QED
  BY <1>2, <1>8, <1>9 DEF u, two, now

\* The area is published before them.
LEMMA PublisherSaid ==
  ASSUME NEW pl, IsPlayer(pl), NEW center, center = ColumnOf(pl.x), NEW q, q = Publisher(pl, center)
  PROVE  /\ Speakable(q) /\ q.id = ID_NETWORK_CHUNK_PUBLISHER_UPDATE
         /\ Read(PublisherUpdate, q.body, 1).value.x = 16 * center
         /\ Read(PublisherUpdate, q.body, 1).value.radius = 16 * pl.radius
<1> DEFINE y == WholeBlocks(pl.y - POSITION_OFFSET)
           r == 16 * pl.radius
           x == 16 * center
<1>1. /\ pl.x \in Int /\ pl.y \in Int /\ pl.radius \in Nat /\ 1 <= pl.radius /\ pl.radius <= 1000000
      /\ -1100000000 <= pl.x /\ pl.x <= 1100000000
      /\ -1000000000 <= pl.y /\ pl.y <= 1000000000
  BY DEF IsPlayer, Reach, Far
<1>2. FitsSigned(x)
  <2>1. center = (pl.x \div 100) \div 16
    BY DEF ColumnOf, CHUNK_WIDTH
  <2>2. -11000000 <= pl.x \div 100 /\ pl.x \div 100 <= 11000000 /\ pl.x \div 100 \in Int
    BY <1>1
  <2>3. x \in Int /\ -Far <= x /\ x <= Far
    BY <2>1, <2>2 DEF Far
  <2> HIDE DEF x
  <2> QED
    BY <2>3, FarIs
<1>3. FitsSigned(y)
  <2> DEFINE a == pl.y - POSITION_OFFSET
  <2>1. a \in Int /\ -1000000162 <= a /\ a <= 1000000162
    BY <1>1 DEF POSITION_OFFSET
  <2> HIDE DEF a
  <2>2. CASE a >= 0
    <3>1. y = a \div 100
      BY <2>2 DEF WholeBlocks, a
    <3>2. y \in Int /\ -Far <= y /\ y <= Far
      BY <2>1, <2>2, <3>1 DEF Far
    <3> HIDE DEF y
    <3> QED
      BY <3>2, FarIs
  <2>3. CASE ~ (a >= 0)
    <3>1. y = -((-a) \div 100)
      BY <2>3 DEF WholeBlocks, a
    <3>2. y \in Int /\ -Far <= y /\ y <= Far
      BY <2>1, <2>3, <3>1 DEF Far
    <3> HIDE DEF y
    <3> QED
      BY <3>2, FarIs
  <2> QED
    BY <2>2, <2>3
<1>4. FitsVaried(r)
  <2>1. r \in Nat /\ r <= Far
    BY <1>1 DEF Far
  <2> HIDE DEF r
  <2> QED
    BY <2>1, FarVaried
<1>5. center * CHUNK_WIDTH = x /\ pl.radius * CHUNK_WIDTH = r
  <2>1. center \in Int
    BY <1>1 DEF ColumnOf, CHUNK_WIDTH
  <2> QED
    BY <1>1, <2>1 DEF CHUNK_WIDTH
<1>6. q = PublisherPacket(x, y, 0, r)
  <2> HIDE DEF x, r
  <2> QED
    BY <1>5 DEF Publisher
<1> HIDE DEF x, y, r
<1>7. /\ Speakable(q) /\ q.id = ID_NETWORK_CHUNK_PUBLISHER_UPDATE
      /\ Read(PublisherUpdate, q.body, 1).value.x = x
      /\ Read(PublisherUpdate, q.body, 1).value.radius = r
  BY <1>2, <1>3, <1>4, <1>6, PublisherTold
<1> QED
  BY <1>7 DEF x, r

\* The publisher update opens the loop.
LEMMA StreamsOpen ==
  ASSUME NEW f, NEW v, Working(f, v), NEW pl, v.player = << pl >>, IsPlayer(pl),
         NEW center, center = ColumnOf(pl.x), NEW now, now = PlayerAt(pl, center),
         NEW u, u = Centred(v, center), NEW t, t = SendEncrypted(u, Publisher(pl, center)),
         NEW fixed, fixed.f = f, fixed.pl = now, "told" \in fixed.claims => Delivered(f, v)
  PROVE  Streaming(fixed, t, 0)
<1> DEFINE q == Publisher(pl, center)
<1>1. v.player[1] = pl /\ IsPeer(v) /\ center \in Int
  BY DEF Working, IsPlayer, ColumnOf, CHUNK_WIDTH
<1>3. /\ IsPlayer(now) /\ now.radius = pl.radius /\ now.center = center /\ now.x = pl.x
      /\ now.sent \subseteq pl.sent /\ now = [now EXCEPT !.sent = now.sent]
  BY <1>1, PlayerMoves
<1> DEFINE player == << now >>
<1>5. IsOne(player) /\ player[1] = now /\ player # <<>>
  BY OneIsOne
<1>4. u = [v EXCEPT !.player = player]
  <2>1. Centred(v, center) = [v EXCEPT !.player = << PlayerAt(pl, center) >>]
    BY <1>1, CentredIs
  <2> QED
    BY <2>1
<1> HIDE DEF player
<1>6. Working(f, u) /\ u.player = player /\ Flow(f, u) = Flow(f, v)
  BY <1>4, <1>5, PlayerChanges
<1>7. /\ Speakable(q) /\ q.id = ID_NETWORK_CHUNK_PUBLISHER_UPDATE
      /\ Read(PublisherUpdate, q.body, 1).value.x = 16 * center
      /\ Read(PublisherUpdate, q.body, 1).value.radius = 16 * pl.radius
  BY PublisherSaid
<1>8. t = SendEncrypted(u, q)
  OBVIOUS
<1> HIDE DEF q
<1>9. q.id # ID_LEVEL_CHUNK /\ q.id # ID_PLAY_STATUS
  BY <1>7 DEF ID_NETWORK_CHUNK_PUBLISHER_UPDATE, ID_LEVEL_CHUNK, ID_PLAY_STATUS
<1>10. /\ Working(f, t) /\ t.player = u.player /\ IsSeq(Flow(f, u))
       /\ \E m : Heard(m) = q /\ Flow(f, t) = Append(Flow(f, u), m)
  BY <1>6, <1>7, <1>8, <1>9, SendKeeps
<1>11. PICK m : Heard(m) = q /\ Flow(f, t) = Append(Flow(f, u), m)
  BY <1>10
<1>12. Publishes(m) /\ AreaOf(m) = [x |-> 16 * center, radius |-> 16 * pl.radius]
  BY <1>7, <1>11 DEF Publishes, AreaOf, Field
<1> DEFINE queue == Flow(f, v)
           after == Flow(f, t)
<1>13. after = Append(queue, m) /\ IsSeq(queue)
  BY <1>6, <1>10, <1>11
<1> HIDE DEF queue, after
<1>14. ASSUME NEW x \in View(now) PROVE Covered(f.area, after, x)
  <2>1. 16 * x - 16 * now.center \in -(16 * now.radius) .. 16 * now.radius
    BY <1>3, ColumnFits
  <2>2. Covers(AreaOf(m), x)
    <3> DEFINE a == 16 * center
               r == 16 * pl.radius
    <3>1. 16 * x - a \in -r .. r /\ AreaOf(m) = [x |-> a, radius |-> r]
      BY <1>3, <1>12, <2>1
    <3> HIDE DEF a, r
    <3> QED
      BY <3>1 DEF Covers
  <2> QED
    BY <1>12, <1>13, <2>2, CoveredAnew
<1>15. Drawn(queue) \subseteq Drawn(after)
  BY <1>13, DrawnOn
<1>16. t.player = player /\ t.player # <<>> /\ t.player[1] = now /\ IsOne(t.player)
  BY <1>5, <1>6, <1>10
<1>17. Delivered(f, v) => Delivered(f, t)
  <2> SUFFICES ASSUME Delivered(f, v) PROVE now.sent \subseteq f.columns \cup Drawn(after)
    BY <1>16 DEF Delivered, after
  <2>1. v.player # <<>>
    OBVIOUS
  <2>2. pl.sent \subseteq f.columns \cup Drawn(queue)
    BY <1>1, <2>1 DEF Delivered, queue
  <2> QED
    BY <1>3, <1>15, <2>2
<1>19. \A x \in View(now) : ~ (x < now.center - now.radius + 0)
  <2>1. now.center \in Int /\ now.radius \in Nat
    BY <1>1, <1>3 DEF IsPlayer
  <2> QED
    BY <2>1 DEF View, Around
<1>20. "live" \in f.claims => \A x \in View(now) : Covered(f.area, after, x)
  BY <1>14
<1> QED
  BY <1>10, <1>16, <1>3, <1>17, <1>19, <1>20 DEF Streaming, after

\* What a player is once the columns around it have been sent.
Settles(pl, w, center) ==
  /\ IsOne(w.player) /\ IsPlayer(w.player[1]) /\ Viewed(w.player[1])
  /\ w.player[1].radius = pl.radius /\ w.player[1].center = center
  /\ w.player[1].x = pl.x /\ w.player[1].y = pl.y

\* stream_around: after it the view has been sent, and what lies past the margin is
\* forgotten.
LEMMA StreamAroundIs ==
  ASSUME NEW f, NEW v, Working(f, v), NEW pl, v.player = << pl >>, IsPlayer(pl),
         NEW center, center = ColumnOf(pl.x), NEW w, w = StreamAround(v, center)
  PROVE  Working(f, w) /\ Settles(pl, w, center) /\ (Delivered(f, v) => Delivered(f, w))
<1> DEFINE now == PlayerAt(pl, center)
           u == Centred(v, center)
           t == SendEncrypted(u, Publisher(pl, center))
           fixed == [f |-> f, pl |-> now, claims |-> IF Delivered(f, v) THEN {"told"} ELSE {}]
           columns == ColumnsAround(center, pl.radius)
<1>1. center \in Int /\ pl.radius \in Nat
  BY DEF IsPlayer, ColumnOf, CHUNK_WIDTH
<1>2. /\ columns \in Seq(Int) /\ Len(columns) = 2 * pl.radius + 1
      /\ \A k \in 0 .. 2 * pl.radius : columns[k + 1] = center - pl.radius + k
  BY <1>1, ColumnsAroundIs
<1>3. fixed.f = f /\ fixed.pl = now /\ ("told" \in fixed.claims <=> Delivered(f, v))
  OBVIOUS
<1>4. w = FoldLeft(SendColumn, t, columns)
  <2>1. v.player[1].radius = pl.radius
    OBVIOUS
  <2> QED
    BY <2>1 DEF StreamAround, Centred
<1> HIDE DEF fixed
<1>5. Streaming(fixed, t, 0)
  BY <1>3, StreamsOpen
<1>6. /\ IsPlayer(now) /\ now.radius = pl.radius /\ now.center = center /\ now.x = pl.x /\ now.y = pl.y
      /\ now.sent \subseteq Around(center, pl.radius + Margin) /\ now.sent \subseteq Int
  BY <1>1, PlayerMoves
<1> HIDE DEF now, u, t, columns
<1>7. ASSUME NEW k \in 0 .. (Len(columns) - 1), NEW acc, Streaming(fixed, acc, k)
      PROVE  Streaming(fixed, SendColumn(acc, columns[k + 1]), k + 1)
  <2>1. k \in Nat /\ k < 2 * fixed.pl.radius + 1
    BY <1>1, <1>2, <1>3, <1>6
  <2>2. columns[k + 1] = fixed.pl.center - fixed.pl.radius + k
    BY <1>1, <1>2, <1>3, <1>6
  <2>3. IsPlayer(fixed.pl) /\ fixed.pl.center = ColumnOf(fixed.pl.x)
    BY <1>3, <1>6
  <2> DEFINE x == columns[k + 1]
  <2> HIDE DEF x
  <2>4. Streaming(fixed, SendColumn(acc, x), k + 1)
    BY <1>7, <2>1, <2>2, <2>3, ColumnSent DEF x
  <2> QED
    BY <2>4 DEF x
<1>8. Streaming(fixed, Streams!Loop(t, columns), Len(columns))
  BY <1>2, <1>5, <1>7, Streams!FoldKeeps
<1>9. Streaming(fixed, w, 2 * pl.radius + 1)
  BY <1>2, <1>4, <1>8, StreamsIs
<1> DEFINE S == w.player[1].sent
<1>10. /\ Working(f, w) /\ IsOne(w.player) /\ w.player[1] = [now EXCEPT !.sent = S]
       /\ now.sent \subseteq S /\ S \subseteq now.sent \cup View(now)
       /\ \A x \in View(now) : x < now.center - now.radius + (2 * pl.radius + 1) => x \in S
       /\ Delivered(f, v) => Delivered(f, w)
  BY <1>3, <1>9 DEF Streaming
<1>11. View(now) = Around(center, pl.radius) /\ View(now) \subseteq Int
  BY <1>1, <1>6 DEF View, Around
<1>12. Around(center, pl.radius) \subseteq Around(center, pl.radius + Margin)
  <2>1. Margin \in Nat
    BY ServerAssumption
  <2> QED
    BY <1>1, <2>1 DEF Around
<1>13. View(now) \subseteq S
  BY <1>1, <1>6, <1>10, <1>11 DEF Around
<1> HIDE DEF S
<1>14. S \subseteq Int
  BY <1>6, <1>10, <1>11
<1> DEFINE last == w.player[1]
<1>15. last = [now EXCEPT !.sent = S]
  BY <1>10
<1> HIDE DEF last
<1>16. /\ IsPlayer(last) /\ last.sent = S /\ last.radius = now.radius /\ last.center = now.center
       /\ last.x = now.x /\ last.y = now.y
  BY <1>6, <1>14, <1>15, PlayerSentIs
<1>17. Viewed(last)
  <2>1. S \subseteq Around(center, pl.radius + Margin)
    BY <1>6, <1>10, <1>11, <1>12
  <2>2. last.center = ColumnOf(last.x) /\ Around(last.center, last.radius) \subseteq last.sent
    BY <1>6, <1>11, <1>13, <1>16
  <2>3. last.sent \subseteq Around(last.center, last.radius + Margin)
    BY <1>6, <1>16, <2>1
  <2> QED
    BY <2>2, <2>3 DEF Viewed
<1>18. Settles(pl, w, center)
  BY <1>6, <1>10, <1>16, <1>17 DEF Settles, last
<1> QED
  BY <1>10, <1>18

-----------------------------------------------------------------------------
(* Each handler of a plaintext packet works (see Works).                    *)

\* What every handler keeps.
Works(f, v) ==
  /\ Working(f, v)
  /\ v.player # <<>> => IsOne(v.player) /\ IsPlayer(v.player[1]) /\ Viewed(v.player[1])
  /\ "clean" \in f.claims => Delivered(f, v)

\* send_encrypted works,
LEMMA SendWorks ==
  ASSUME NEW f, NEW v, Works(f, v), NEW q, Speakable(q), q.id # ID_LEVEL_CHUNK,
         "live" \in f.claims /\ q.id = ID_PLAY_STATUS
             /\ Read(PlayStatus, q.body, 1).value.status = Status.PlayerSpawn
           => {-1, 0, 1} \subseteq f.columns \cup Drawn(Flow(f, v)),
         NEW w, w = SendEncrypted(v, q)
  PROVE  Works(f, w)
<1>1. Working(f, v) /\ ("clean" \in f.claims => Delivered(f, v))
      /\ (v.player # <<>> => IsOne(v.player) /\ IsPlayer(v.player[1]) /\ Viewed(v.player[1]))
  BY DEF Works
<1>2. /\ Working(f, w) /\ w.player = v.player /\ IsSeq(Flow(f, v))
      /\ \E m : Heard(m) = q /\ Flow(f, w) = Append(Flow(f, v), m)
  BY <1>1, SendKeeps
<1>3. PICK m : Flow(f, w) = Append(Flow(f, v), m)
  BY <1>2
<1> DEFINE queue == Flow(f, v)
           after == Flow(f, w)
<1>4. after = Append(queue, m) /\ IsSeq(queue)
  BY <1>2, <1>3
<1> HIDE DEF queue, after
<1>5. Drawn(queue) \subseteq Drawn(after)
  BY <1>4, DrawnOn
<1>6. Delivered(f, v) => Delivered(f, w)
  BY <1>2, <1>5 DEF Delivered, queue, after
<1> QED
  BY <1>1, <1>2, <1>6 DEF Works

\* and so does a packet that draws nothing and publishes nothing.
LEMMA QuietWorks ==
  ASSUME NEW f, NEW v, Works(f, v), NEW q, Speakable(q), Quiet(q), NEW w, w = SendEncrypted(v, q)
  PROVE  Works(f, w)
<1>1. q.id # ID_LEVEL_CHUNK /\ q.id # ID_PLAY_STATUS
  BY DEF Quiet
<1> QED
  BY <1>1, SendWorks

LEMMA NewPlayerIs ==
  ASSUME NEW radius \in Nat, 1 <= radius, radius <= 1000000, NEW pl, pl = NewPlayer(radius)
  PROVE  IsPlayer(pl) /\ pl.sent = {} /\ pl.radius = radius /\ ColumnOf(pl.x) = 0
<1>1. Surface \in Nat /\ Surface <= 1000000
  BY ServerAssumption, WireAssumption
<1> DEFINE y == 100 * Surface
<1>2. y \in Int /\ -Far <= y /\ y <= Far
  BY <1>1 DEF Far
<1> HIDE DEF y
<1>3. pl = [radius |-> radius, center |-> 0, sent |-> {}, x |-> 0, y |-> y]
  BY DEF NewPlayer, y
<1>4. pl \in [radius : Nat, center : Int, sent : SUBSET Int, x : Int, y : Int]
  BY <1>2, <1>3
<1>5. pl.sent = {} /\ pl.radius = radius /\ pl.x = 0 /\ pl.y = y
  BY <1>3
<1>6. -Reach <= 0 /\ 0 <= Reach
  BY DEF Reach
<1>7. IsPlayer(pl)
  BY <1>2, <1>4, <1>5, <1>6 DEF IsPlayer
<1>8. ColumnOf(0) = 0
  BY DEF ColumnOf, CHUNK_WIDTH
<1> QED
  BY <1>5, <1>7, <1>8

\* stream_world, which ends with the status that lets the player spawn.
LEMMA StreamWorldIs ==
  ASSUME NEW f, NEW v, Works(f, v), NEW radius \in Nat, 1 <= radius, radius <= 1000000,
         NEW w, w = StreamWorld(v, radius)
  PROVE  Works(f, w)
<1> DEFINE pl == NewPlayer(radius)
           player == << pl >>
           u == [v EXCEPT !.player = << NewPlayer(radius) >>]
           t == StreamAround(u, 0)
           q == StatusPacket("PlayerSpawn")
<1>1. IsPlayer(pl) /\ pl.sent = {} /\ pl.radius = radius /\ ColumnOf(pl.x) = 0
  <2> HIDE DEF pl
  <2>1. pl = NewPlayer(radius)
    BY DEF pl
  <2> QED
    BY <2>1, NewPlayerIs
<1>2. u = [v EXCEPT !.player = player]
  OBVIOUS
<1>3. w = IF AtLeast("Spawn") THEN SendEncrypted(t, q) ELSE t
  BY DEF StreamWorld
<1>4. t = StreamAround(u, 0)
  OBVIOUS
<1> HIDE DEF pl, u, t, q
<1>5. IsOne(player) /\ player[1] = pl /\ player # <<>>
  BY OneIsOne
<1>6. player = << pl >>
  OBVIOUS
<1> HIDE DEF player
<1>7. Working(f, v)
  BY DEF Works
<1>8. Working(f, u) /\ u.player = player
  BY <1>2, <1>5, <1>7, PlayerChanges
<1>9. Delivered(f, u)
  BY <1>1, <1>5, <1>8 DEF Delivered
<1> DEFINE center == 0
<1>10. center = ColumnOf(pl.x) /\ t = StreamAround(u, center) /\ u.player = << pl >> /\ center \in Int
  BY <1>1, <1>4, <1>6, <1>8
<1>11. \A x \in {-1, 0, 1} : x \in Around(center, radius)
  BY DEF Around
<1> HIDE DEF center
<1>12. Working(f, t) /\ Settles(pl, t, center) /\ (Delivered(f, u) => Delivered(f, t))
  BY <1>1, <1>8, <1>10, StreamAroundIs
<1>13. /\ IsOne(t.player) /\ IsPlayer(t.player[1]) /\ Viewed(t.player[1])
       /\ t.player[1].radius = radius /\ t.player[1].center = center
  BY <1>1, <1>12 DEF Settles
<1>14. Works(f, t)
  BY <1>9, <1>12, <1>13 DEF Works
<1>15. {-1, 0, 1} \subseteq f.columns \cup Drawn(Flow(f, t))
  <2>1. Around(center, radius) \subseteq t.player[1].sent
    BY <1>13 DEF Viewed
  <2>2. t.player # <<>>
    BY <1>13 DEF IsOne
  <2>3. t.player[1].sent \subseteq f.columns \cup Drawn(Flow(f, t))
    BY <1>9, <1>12, <2>2 DEF Delivered
  <2> QED
    BY <1>11, <2>1, <2>3
<1>16. Speakable(q) /\ q.id = ID_PLAY_STATUS
  <2>1. "PlayerSpawn" \in DOMAIN Status
    BY DEF Status
  <2> QED
    BY <2>1, StatusTold DEF q
<1>17. q.id # ID_LEVEL_CHUNK
  BY <1>16 DEF ID_PLAY_STATUS, ID_LEVEL_CHUNK
<1> DEFINE told == SendEncrypted(t, q)
<1>18. told = SendEncrypted(t, q)
  OBVIOUS
<1> HIDE DEF told
<1>19. Works(f, told)
  BY <1>14, <1>15, <1>16, <1>17, <1>18, SendWorks
<1> QED
  BY <1>3, <1>14, <1>18, <1>19

LEMMA GrantRadiusIs ==
  ASSUME NEW f, NEW v, Works(f, v), NEW radius \in Nat, 1 <= radius, radius <= 1000000,
         NEW w, w = GrantRadius(v, radius)
  PROVE  Works(f, w)
<1> DEFINE q == RadiusGranted(radius)
           told == SendEncrypted(v, q)
           world == StreamWorld(told, radius)
<1>1. w = IF AtLeast("Chunks") THEN world ELSE told
  BY DEF GrantRadius
<1>2. told = SendEncrypted(v, q) /\ world = StreamWorld(told, radius)
  OBVIOUS
<1>3. Speakable(q) /\ Quiet(q)
  <2>1. -Far <= radius /\ radius <= Far
    BY DEF Far
  <2> QED
    BY <2>1, OthersTold
<1> HIDE DEF q, told, world
<1>4. Works(f, told)
  BY <1>2, <1>3, QuietWorks
<1>5. Works(f, world)
  BY <1>2, <1>4, StreamWorldIs
<1> QED
  BY <1>1, <1>4, <1>5

\* on_radius: a view that grows is streamed again.
LEMMA OnRadiusIs ==
  ASSUME NEW f, NEW v, Works(f, v), NEW request, request.ok => request.value.radius \in Int,
         NEW w, w = OnRadius(v, request)
  PROVE  Works(f, w)
<1> DEFINE radius == Grant(request.value, MaxRadius)
<1>1. CASE request.ok /\ AtLeast("Radius")
  <2>1. w = GrantRadius(v, radius)
    BY <1>1 DEF OnRadius
  <2>2. radius \in Nat /\ 1 <= radius /\ radius <= 1000000
    <3>1. MaxRadius \in Nat /\ MaxRadius <= 1000000 /\ request.value.radius \in Int
      BY <1>1, ServerAssumption, WireAssumption
    <3> DEFINE asked == request.value.radius
    <3>2. asked \in Int
      BY <3>1
    <3>3. radius = IF asked < 1 THEN 1
                   ELSE IF asked > (IF MaxRadius < 1 THEN 1 ELSE MaxRadius)
                     THEN (IF MaxRadius < 1 THEN 1 ELSE MaxRadius) ELSE asked
      BY DEF Grant
    <3> HIDE DEF asked, radius
    <3> QED
      BY <3>1, <3>2, <3>3
  <2> HIDE DEF radius
  <2> QED
    BY <2>1, <2>2, GrantRadiusIs
<1>2. CASE ~ (request.ok /\ AtLeast("Radius"))
  BY <1>2 DEF OnRadius
<1> QED
  BY <1>1, <1>2

Placed(v, x, y) == [v EXCEPT !.player[1].x = x, !.player[1].y = y]
PlayerTo(pl, x, y) == [pl EXCEPT !.x = x, !.y = y]

LEMMA PlayerToIs ==
  ASSUME NEW pl, IsPlayer(pl), NEW x \in Int, -Reach <= x, x <= Reach,
         NEW y \in Int, -Far <= y, y <= Far, NEW q, q = PlayerTo(pl, x, y)
  PROVE  /\ IsPlayer(q) /\ q.radius = pl.radius /\ q.center = pl.center /\ q.sent = pl.sent
         /\ q.x = x /\ q.y = y
<1>0. q = [pl EXCEPT !.x = x, !.y = y]
  BY DEF PlayerTo
<1>1. pl \in [radius : Nat, center : Int, sent : SUBSET Int, x : Int, y : Int]
  BY DEF IsPlayer
<1>2. q \in [radius : Nat, center : Int, sent : SUBSET Int, x : Int, y : Int]
  BY <1>0, <1>1
<1>3. q.radius = pl.radius /\ q.center = pl.center /\ q.sent = pl.sent /\ q.x = x /\ q.y = y
  BY <1>0, <1>1
<1>4. IsPlayer(q)
  BY <1>2, <1>3 DEF IsPlayer
<1> QED
  BY <1>3, <1>4

LEMMA PlacedIs ==
  ASSUME NEW v, IsPeer(v), NEW pl, v.player = << pl >>, NEW x, NEW y
  PROVE  Placed(v, x, y) = [v EXCEPT !.player = << PlayerTo(pl, x, y) >>]
<1> DEFINE mid == [pl EXCEPT !.x = x]
           now == PlayerTo(pl, x, y)
           u1 == [v EXCEPT !.player[1].x = x]
           u == Placed(v, x, y)
           one == << mid >>
           two == << now >>
<1>1. v.player[1] = pl
  OBVIOUS
<1>2. u1 = [v EXCEPT !.player = one]
  BY PlayerPlace
<1>3. u = [u1 EXCEPT !.player[1].y = y]
  BY <1>1 DEF Placed
<1>4. now = [mid EXCEPT !.y = y]
  BY DEF PlayerTo
<1> HIDE DEF u1, mid, one, two, now, u
<1>5. IsPeer([v EXCEPT !.player = one]) /\ [v EXCEPT !.player = one].player = one
  BY PlayerAgain
<1>6. u1.player = << mid >>
  BY <1>2, <1>5 DEF one
<1>7. [u1 EXCEPT !.player[1].y = y] = [u1 EXCEPT !.player = << [mid EXCEPT !.y = y] >>]
  BY <1>6, PlayerPlace
<1>8. u = [u1 EXCEPT !.player = two]
  BY <1>3, <1>4, <1>7 DEF two
<1>9. [[v EXCEPT !.player = one] EXCEPT !.player = two] = [v EXCEPT !.player = two]
  BY PlayerAgain
<1> QED
  BY <1>2, <1>8, <1>9 DEF u, two, now

LEMMA WalkedIs ==
  ASSUME NEW f, NEW v, Works(f, v), v.player # <<>>, NEW x \in Int, -Reach <= x, x <= Reach,
         NEW y \in Int, -Far <= y, y <= Far, NEW w, w = Walked(Placed(v, x, y), ColumnOf(x))
  PROVE  Works(f, w)
<1> DEFINE pl == v.player[1]
           now == PlayerTo(pl, x, y)
           player == << now >>
           u == Placed(v, x, y)
           center == ColumnOf(x)
<1>1. Working(f, v) /\ IsPeer(v) /\ v.player = << pl >> /\ IsPlayer(pl) /\ Viewed(pl)
      /\ ("clean" \in f.claims => Delivered(f, v))
  BY DEF Works, Working, IsOne
<1>2. w = Walked(u, center) /\ now = PlayerTo(pl, x, y)
  OBVIOUS
<1>3. IsOne(player) /\ player[1] = now /\ player # <<>>
  BY OneIsOne
<1>4. u = [v EXCEPT !.player = << PlayerTo(pl, x, y) >>]
  <2> HIDE DEF pl
  <2> QED
    BY <1>1, PlacedIs
<1>5. u = [v EXCEPT !.player = player]
  BY <1>4
<1>6. player = << now >>
  OBVIOUS
<1> HIDE DEF pl, now, player, u
<1>7. /\ IsPlayer(now) /\ now.radius = pl.radius /\ now.center = pl.center /\ now.sent = pl.sent
      /\ now.x = x
  BY <1>1, <1>2, PlayerToIs
<1>8. Working(f, u) /\ u.player = player /\ Flow(f, u) = Flow(f, v)
  BY <1>1, <1>3, <1>5, PlayerChanges
<1>9. Delivered(f, v) => Delivered(f, u)
  BY <1>3, <1>7, <1>8 DEF Delivered, pl
<1>10. u.player[1] = now /\ u.player = << now >> /\ center = ColumnOf(now.x)
  BY <1>3, <1>6, <1>7, <1>8
<1> HIDE DEF center
<1>11. CASE center = u.player[1].center
  <2>1. w = u
    BY <1>2, <1>11 DEF Walked
  <2>2. now.center = ColumnOf(now.x)
    BY <1>10, <1>11
  <2>3. Viewed(now)
    BY <1>1, <1>7, <2>2 DEF Viewed
  <2> QED
    BY <1>1, <1>3, <1>7, <1>8, <1>9, <2>1, <2>3 DEF Works
<1>12. CASE center # u.player[1].center
  <2>1. w = StreamAround(u, center)
    BY <1>2, <1>12 DEF Walked
  <2>2. Working(f, w) /\ Settles(now, w, center) /\ (Delivered(f, u) => Delivered(f, w))
    BY <1>7, <1>8, <1>10, <2>1, StreamAroundIs
  <2> QED
    BY <1>1, <1>9, <2>2 DEF Works, Settles
<1> QED
  BY <1>11, <1>12

\* on_player_moved.
LEMMA OnPlayerMovedIs ==
  ASSUME NEW f, NEW v, Works(f, v), NEW input,
         input.ok => /\ input.value.x \in Int /\ -Reach <= input.value.x /\ input.value.x <= Reach
                     /\ input.value.y \in Int /\ -Far <= input.value.y /\ input.value.y <= Far,
         NEW w, w = OnPlayerMoved(v, input)
  PROVE  Works(f, w)
<1>1. CASE ~ input.ok \/ v.player = <<>>
  BY <1>1 DEF OnPlayerMoved
<1>2. CASE input.ok /\ v.player # <<>>
  <2> DEFINE x == input.value.x
             y == input.value.y
  <2>1. w = Walked(Placed(v, x, y), ColumnOf(x))
    BY <1>2 DEF OnPlayerMoved, Placed
  <2>2. x \in Int /\ -Reach <= x /\ x <= Reach /\ y \in Int /\ -Far <= y /\ y <= Far
    BY <1>2
  <2> HIDE DEF x, y
  <2> QED
    BY <1>2, <2>1, <2>2, WalkedIs
<1> QED
  BY <1>1, <1>2

\* on_handshake.
LEMMA OnHandshakeIs ==
  ASSUME NEW f, NEW v, Works(f, v), NEW w, w = OnHandshake(v)
  PROVE  Works(f, w)
<1> DEFINE verdict == ForVersionMismatch(IF v.protocol = <<>> THEN TARGET_PROTOCOL ELSE v.protocol[1],
                                         TARGET_PROTOCOL)
           q == StatusPacket(verdict)
           told == SendEncrypted(v, q)
           packs == PacksInfoEmpty
           both == SendEncrypted(told, packs)
<1>1. w = IF verdict = "LoginSuccess" THEN both ELSE told
  BY DEF OnHandshake
<1>2. verdict \in {"ClientOutdated", "ServerOutdated", "LoginSuccess"}
  BY DEF ForVersionMismatch
<1> HIDE DEF verdict
<1>3. verdict \in DOMAIN Status /\ Status[verdict] # Status.PlayerSpawn
  BY <1>2 DEF Status
<1>4. /\ Speakable(q) /\ q.id = ID_PLAY_STATUS
      /\ Read(PlayStatus, q.body, 1).value.status # Status.PlayerSpawn
  BY <1>3, StatusTold
<1>5. Speakable(packs) /\ Quiet(packs)
  BY OthersTold
<1>6. told = SendEncrypted(v, q) /\ both = SendEncrypted(told, packs)
  OBVIOUS
<1> HIDE DEF q, told, packs, both
<1>7. q.id # ID_LEVEL_CHUNK
  BY <1>4 DEF ID_PLAY_STATUS, ID_LEVEL_CHUNK
<1>8. Works(f, told)
  BY <1>4, <1>6, <1>7, SendWorks
<1>9. Works(f, both)
  BY <1>5, <1>6, <1>8, QuietWorks
<1> QED
  BY <1>1, <1>8, <1>9

StillWorks(f, w, k) == Works(f, w)

Sends == INSTANCE Folding WITH Op <- SendEncrypted, Holds <- StillWorks

LEMMA SendsIs ==
  \A base, seq : FoldLeft(SendEncrypted, base, seq) = Sends!Loop(base, seq)
BY DEF Sends!Loop, Sends!MapThenFoldSet, Sends!Greatest, FoldLeft, MapThenFoldSet, Max

\* The answer to a client that is done with the packs.
LEMMA OnPacksDoneIs ==
  ASSUME NEW f, NEW v, Works(f, v), NEW w, w = OnPacksDone(v)
  PROVE  Works(f, w)
<1> DEFINE q == World
           told == SendEncrypted(v, q)
           more == FoldLeft(SendEncrypted, told, AllEmpty)
<1>1. w = IF stage = "World" THEN more ELSE told
  BY DEF OnPacksDone
<1>2. Speakable(q) /\ Quiet(q)
  BY OthersTold
<1>3. told = SendEncrypted(v, q) /\ more = FoldLeft(SendEncrypted, told, AllEmpty)
  OBVIOUS
<1> HIDE DEF q, told, more
<1>4. Works(f, told)
  BY <1>2, <1>3, QuietWorks
<1>5. AllEmpty \in Seq(Packet) /\ Len(AllEmpty) = 3
      /\ \A i \in 1 .. 3 : Speakable(AllEmpty[i]) /\ Quiet(AllEmpty[i])
  BY OthersTold
<1> DEFINE all == AllEmpty
<1>6. all \in Seq(Packet) /\ Len(all) = 3 /\ \A i \in 1 .. 3 : Speakable(all[i]) /\ Quiet(all[i])
  BY <1>5
<1> HIDE DEF all, Packet
<1>7. ASSUME NEW k \in 0 .. (Len(all) - 1), NEW acc, StillWorks(f, acc, k)
      PROVE  StillWorks(f, SendEncrypted(acc, all[k + 1]), k + 1)
  <2> DEFINE p == all[k + 1]
             t == SendEncrypted(acc, p)
  <2>1. Speakable(p) /\ Quiet(p) /\ t = SendEncrypted(acc, p)
    BY <1>6
  <2>2. Works(f, acc)
    BY <1>7 DEF StillWorks
  <2> HIDE DEF p, t
  <2>3. Works(f, t)
    BY <2>1, <2>2, QuietWorks
  <2> QED
    BY <2>3 DEF StillWorks, p, t
<1>8. StillWorks(f, told, 0)
  BY <1>4 DEF StillWorks
<1>9. StillWorks(f, Sends!Loop(told, all), Len(all))
  BY <1>6, <1>7, <1>8, Sends!FoldKeeps
<1>10. Works(f, more)
  BY <1>3, <1>9, SendsIs DEF StillWorks, all
<1> QED
  BY <1>1, <1>4, <1>10

LEMMA OnPacksAnsweredIs ==
  ASSUME NEW f, NEW v, Works(f, v), NEW got, NEW w, w = OnPacksAnswered(v, got)
  PROVE  Works(f, w)
<1> DEFINE q == PackStackEmpty(MINECRAFT_VERSION)
           told == SendEncrypted(v, q)
           done == OnPacksDone(v)
<1>1. w = v \/ w = told \/ w = done
  <2>1. w = CASE got.ok /\ got.value.response = Responses.HaveAllPacks -> told
              [] got.ok /\ got.value.response = Responses.Completed -> done
              [] OTHER -> v
    BY DEF OnPacksAnswered
  <2> HIDE DEF told, done
  <2>2. Responses.HaveAllPacks = 3 /\ Responses.Completed = 4
    BY DEF Responses
  <2>3. CASE got.ok /\ got.value.response = 3
    BY <2>1, <2>2, <2>3
  <2>4. CASE got.ok /\ got.value.response = 4
    BY <2>1, <2>2, <2>4
  <2>5. CASE ~ (got.ok /\ got.value.response = 3) /\ ~ (got.ok /\ got.value.response = 4)
    BY <2>1, <2>2, <2>5
  <2> QED
    BY <2>3, <2>4, <2>5
<1>2. Speakable(q) /\ Quiet(q)
  BY OthersTold
<1>3. told = SendEncrypted(v, q) /\ done = OnPacksDone(v)
  OBVIOUS
<1> HIDE DEF q, told, done
<1>4. Works(f, told)
  BY <1>2, <1>3, QuietWorks
<1>5. Works(f, done)
  BY <1>3, OnPacksDoneIs
<1> QED
  BY <1>1, <1>4, <1>5

\* on_plaintext, whatever the packet.
LEMMA OnPlaintextIs ==
  ASSUME NEW f, NEW v, Works(f, v), NEW packet, Asks(packet), NEW w, w = OnPlaintext(v, packet)
  PROVE  Works(f, w)
<1> DEFINE answer == Read(ClientResponse, packet.body, 1)
           request == Read(RadiusRequest, packet.body, 1)
           input == Read(AuthInput, packet.body, 1)
           a == OnHandshake(v)
           b == OnPacksAnswered(v, answer)
           c == OnRadius(v, request)
           d == OnPlayerMoved(v, input)
<1>1. w = CASE packet.id = ID_CLIENT_TO_SERVER_HANDSHAKE -> a
            [] packet.id = ID_RESOURCE_PACK_CLIENT_RESPONSE -> b
            [] packet.id = ID_REQUEST_CHUNK_RADIUS -> c
            [] packet.id = ID_PLAYER_AUTH_INPUT -> d
            [] OTHER -> v
  BY DEF OnPlaintext
<1>2. /\ packet.id = ID_REQUEST_CHUNK_RADIUS => (request.ok => request.value.radius \in Int)
      /\ packet.id = ID_PLAYER_AUTH_INPUT =>
           (input.ok => /\ input.value.x \in Int /\ -Reach <= input.value.x /\ input.value.x <= Reach
                        /\ input.value.y \in Int /\ -Far <= input.value.y /\ input.value.y <= Far)
  BY DEF Asks
<1>3. /\ a = OnHandshake(v) /\ b = OnPacksAnswered(v, answer) /\ c = OnRadius(v, request)
      /\ d = OnPlayerMoved(v, input)
  OBVIOUS
<1> HIDE DEF answer, request, input, a, b, c, d
<1>4. CASE packet.id = ID_CLIENT_TO_SERVER_HANDSHAKE
  <2>1. w = a
    BY <1>1, <1>4 DEF ID_CLIENT_TO_SERVER_HANDSHAKE, ID_RESOURCE_PACK_CLIENT_RESPONSE,
                      ID_REQUEST_CHUNK_RADIUS, ID_PLAYER_AUTH_INPUT
  <2> QED
    BY <1>3, <2>1, OnHandshakeIs
<1>5. CASE packet.id = ID_RESOURCE_PACK_CLIENT_RESPONSE
  <2>1. w = b
    BY <1>1, <1>5 DEF ID_CLIENT_TO_SERVER_HANDSHAKE, ID_RESOURCE_PACK_CLIENT_RESPONSE,
                      ID_REQUEST_CHUNK_RADIUS, ID_PLAYER_AUTH_INPUT
  <2> QED
    BY <1>3, <2>1, OnPacksAnsweredIs
<1>6. CASE packet.id = ID_REQUEST_CHUNK_RADIUS
  <2>1. w = c
    BY <1>1, <1>6 DEF ID_CLIENT_TO_SERVER_HANDSHAKE, ID_RESOURCE_PACK_CLIENT_RESPONSE,
                      ID_REQUEST_CHUNK_RADIUS, ID_PLAYER_AUTH_INPUT
  <2>2. request.ok => request.value.radius \in Int
    BY <1>2, <1>6
  <2> QED
    BY <1>3, <2>1, <2>2, OnRadiusIs
<1>7. CASE packet.id = ID_PLAYER_AUTH_INPUT
  <2>1. w = d
    BY <1>1, <1>7 DEF ID_CLIENT_TO_SERVER_HANDSHAKE, ID_RESOURCE_PACK_CLIENT_RESPONSE,
                      ID_REQUEST_CHUNK_RADIUS, ID_PLAYER_AUTH_INPUT
  <2>2. input.ok => /\ input.value.x \in Int /\ -Reach <= input.value.x /\ input.value.x <= Reach
                    /\ input.value.y \in Int /\ -Far <= input.value.y /\ input.value.y <= Far
    BY <1>2, <1>7
  <2> QED
    BY <1>3, <2>1, <2>2, OnPlayerMovedIs
<1>8. CASE packet.id \notin {ID_CLIENT_TO_SERVER_HANDSHAKE, ID_RESOURCE_PACK_CLIENT_RESPONSE,
                             ID_REQUEST_CHUNK_RADIUS, ID_PLAYER_AUTH_INPUT}
  <2>1. w = v
    BY <1>1, <1>8
  <2> QED
    BY <2>1
<1> QED
  BY <1>4, <1>5, <1>6, <1>7, <1>8

Plaintexts == INSTANCE Folding WITH Op <- OnPlaintext, Holds <- StillWorks

\* So does every packet of a batch.
LEMMA PlaintextsIs ==
  \A base, seq : FoldLeft(OnPlaintext, base, seq) = Plaintexts!Loop(base, seq)
BY DEF Plaintexts!Loop, Plaintexts!MapThenFoldSet, Plaintexts!Greatest, FoldLeft, MapThenFoldSet, Max

\* A batch that does not decode does nothing.
LEMMA OnPacketsIs ==
  ASSUME NEW f, NEW v, Works(f, v), NEW got,
         got.ok => got.value \in Seq(Packet) /\ \A k \in DOMAIN got.value : Asks(got.value[k]),
         NEW w, w = OnPackets(v, got)
  PROVE  Works(f, w)
<1> DEFINE all == got.value
<1>1. CASE ~ got.ok
  BY <1>1 DEF OnPackets
<1>2. CASE got.ok
  <2>1. w = FoldLeft(OnPlaintext, v, all)
    BY <1>2 DEF OnPackets
  <2>2. all \in Seq(Packet) /\ \A k \in DOMAIN all : Asks(all[k])
    BY <1>2
  <2> HIDE DEF all, Packet
  <2>3. DOMAIN all = 1 .. Len(all) /\ Len(all) \in Nat
    BY <2>2
  <2>4. ASSUME NEW k \in 0 .. (Len(all) - 1), NEW acc, StillWorks(f, acc, k)
        PROVE  StillWorks(f, OnPlaintext(acc, all[k + 1]), k + 1)
    <3> DEFINE p == all[k + 1]
               t == OnPlaintext(acc, p)
    <3>1. Asks(p) /\ t = OnPlaintext(acc, p)
      BY <2>2, <2>3
    <3>2. Works(f, acc)
      BY <2>4 DEF StillWorks
    <3> HIDE DEF p, t
    <3>3. Works(f, t)
      BY <3>1, <3>2, OnPlaintextIs
    <3> QED
      BY <3>3 DEF StillWorks, p, t
  <2>5. StillWorks(f, v, 0)
    BY DEF StillWorks
  <2>6. StillWorks(f, Plaintexts!Loop(v, all), Len(all))
    BY <2>2, <2>4, <2>5, Plaintexts!FoldKeeps
  <2> QED
    BY <2>1, <2>6, PlaintextsIs DEF StillWorks
<1> QED
  BY <1>1, <1>2

-----------------------------------------------------------------------------
(* Commit.                                                                  *)

Room(down) == Window - Len(down)
Admitted(w, down) == IF Room(down) < Len(w.out) THEN Room(down) ELSE Len(w.out)
Onward(w, down) == down \o SubSeq(w.out, 1, Admitted(w, down))
Emptied(w) == [w EXCEPT !.out = <<>>]

LEMMA PeerEmptied ==
  ASSUME NEW w, IsPeer(w), NEW v, v = Emptied(w)
  PROVE  /\ IsPeer(v) /\ v.settled = w.settled /\ v.key = w.key /\ v.cipher = w.cipher
         /\ v.protocol = w.protocol /\ v.player = w.player /\ v.out = <<>>
<1> DEFINE u == [settled |-> w.settled, key |-> w.key, cipher |-> w.cipher,
                 protocol |-> w.protocol, player |-> w.player, out |-> w.out]
<1>1. w = u
  BY DEF IsPeer
<1>2. [u EXCEPT !.out = <<>>]
        = [settled |-> w.settled, key |-> w.key, cipher |-> w.cipher,
           protocol |-> w.protocol, player |-> w.player, out |-> <<>>]
  OBVIOUS
<1> HIDE DEF u
<1>3. v = [u EXCEPT !.out = <<>>]
  BY <1>1 DEF Emptied
<1>4. v = [settled |-> w.settled, key |-> w.key, cipher |-> w.cipher,
           protocol |-> w.protocol, player |-> w.player, out |-> <<>>]
  BY <1>2, <1>3
<1> QED
  BY <1>4 DEF IsPeer

Begins(now, all) ==
  /\ IsSeq(all) /\ IsSeq(now) /\ Len(now) <= Window /\ Len(now) <= Len(all) /\ Len(now) \in Nat
  /\ now = SubSeq(all, 1, Len(now))
  /\ DOMAIN now = 1 .. Len(now) /\ \A i \in 1 .. Len(now) : now[i] = all[i]

\* What is then on its way is the beginning of what would be without the limit,
\* and all of it when nothing was refused.
LEMMA SentIs ==
  ASSUME NEW down, IsSeq(down), Len(down) <= Window, NEW w, IsSeq(w.out),
         NEW all, all = down \o w.out, NEW now, now = Onward(w, down)
  PROVE  /\ Begins(now, all)
         /\ ~ (Room(down) < Len(w.out)) => now = all
<1> DEFINE out == w.out
           n == Admitted(w, down)
           k == Len(down) + n
<1>1. Window \in Nat
  BY ServerAssumption
<1>2. Len(down) \in Nat /\ Len(out) \in Nat
  BY SeqIs
<1>3. n \in Nat /\ n <= Len(out) /\ k <= Window /\ k \in Nat
      /\ (~ (Room(down) < Len(out)) => n = Len(out))
  <2> DEFINE a == Len(down)
             b == Len(out)
  <2>1. a \in Nat /\ b \in Nat /\ a <= Window
    BY <1>2
  <2>2. n = IF Window - a < b THEN Window - a ELSE b
    BY DEF Admitted, Room
  <2>3. (Room(down) < Len(out)) <=> Window - a < b
    BY DEF Room
  <2>4. k = a + n
    OBVIOUS
  <2> HIDE DEF a, b, n, k
  <2>5. n \in Nat /\ n <= b /\ k <= Window /\ k \in Nat /\ (~ (Window - a < b) => n = b)
    BY <1>1, <2>1, <2>2, <2>4
  <2> QED
    BY <2>3, <2>5 DEF b
<1>4. IsSeq(out) /\ now = down \o SubSeq(out, 1, n) /\ all = down \o out
  BY DEF Onward
<1> HIDE DEF out, n
<1>5. IsSeq(all) /\ Len(all) = Len(down) + Len(out) /\ now = SubSeq(all, 1, k)
  BY <1>3, <1>4, JoinedPrefix
<1>6. k <= Len(all)
  BY <1>2, <1>3, <1>5
<1> HIDE DEF k
<1>7. IsSeq(now) /\ Len(now) = k /\ DOMAIN now = 1 .. k /\ \A i \in 1 .. k : now[i] = all[i]
  <2> DEFINE full == all
             part == now
  <2>1. IsSeq(full) /\ k \in Nat /\ k <= Len(full) /\ part = SubSeq(full, 1, k)
    BY <1>3, <1>5, <1>6
  <2> HIDE DEF full, part
  <2>2. IsSeq(part) /\ Len(part) = k
    BY <2>1, Beginnings
  <2>3. DOMAIN part = 1 .. k
    BY <2>1, Beginnings
  <2>4. \A i \in 1 .. k : part[i] = full[i]
    BY <2>1, Beginnings
  <2> QED
    BY <2>2, <2>3, <2>4 DEF full, part
<1>8. ~ (Room(down) < Len(w.out)) => now = all
  <2> SUFFICES ASSUME ~ (Room(down) < Len(w.out)) PROVE now = all
    OBVIOUS
  <2>1. n = Len(out)
    BY <1>3 DEF out
  <2>2. k = Len(all)
    BY <1>5, <2>1 DEF k
  <2>3. SubSeq(all, 1, Len(all)) = all
    BY <1>5, SameSeq
  <2> QED
    BY <1>5, <2>2, <2>3
<1>9. Begins(now, all)
  BY <1>3, <1>5, <1>6, <1>7 DEF Begins
<1> QED
  BY <1>8, <1>9

\* The listener takes what there is room for; what is refused is counted all the
\* same, but nothing else goes wrong.
LEMMA CommitIs ==
  ASSUME NEW f, NEW w, Works(f, w), Len(f.down) <= Window, NEW v, v = Emptied(w),
         NEW now, now = Onward(w, f.down),
         \A i \in DOMAIN f.down : f.down[i].key = f.peer.cipher[1].key /\ Spoken(f.down[i])
  PROVE  /\ IsPeer(v) /\ v.out = <<>> /\ v.settled = f.peer.settled /\ v.key = f.peer.key
         /\ v.protocol = f.peer.protocol /\ v.player = w.player /\ v.cipher = w.cipher
         /\ IsSeq(now) /\ Len(now) <= Window
         /\ \A i \in DOMAIN now : now[i].key = f.peer.cipher[1].key /\ Spoken(now[i])
         /\ "live" \in f.claims => InArea(f.area, now) /\ Led(f.columns, now)
         /\ ~ (Room(f.down) < Len(w.out)) => now = Flow(f, w)
<1> DEFINE K == f.peer.cipher[1].key
           down == f.down
           out == w.out
           all == Flow(f, w)
           n == Len(now)
<1>1. /\ IsPeer(w) /\ IsSeq(down) /\ IsSeq(out)
      /\ w.settled = f.peer.settled /\ w.key = f.peer.key /\ w.protocol = f.peer.protocol
      /\ \A i \in DOMAIN out : out[i].key = K /\ Spoken(out[i])
      /\ "live" \in f.claims => InArea(f.area, all) /\ Led(f.columns, all)
  BY DEF Works, Working
<1>2. all = down \o out /\ now = Onward(w, down) /\ Len(down) <= Window
  BY DEF Flow
<1>3. \A i \in DOMAIN down : down[i].key = K /\ Spoken(down[i])
  OBVIOUS
<1> HIDE DEF K, down, all
<1>4. /\ IsSeq(all) /\ IsSeq(now) /\ Len(now) <= Window /\ Len(now) <= Len(all) /\ Len(now) \in Nat
      /\ now = SubSeq(all, 1, Len(now))
      /\ DOMAIN now = 1 .. Len(now) /\ \A i \in 1 .. Len(now) : now[i] = all[i]
      /\ ~ (Room(down) < Len(w.out)) => now = all
  <2>1. IsSeq(w.out)
    BY <1>1
  <2>2. all = down \o w.out
    BY <1>2
  <2> HIDE DEF out, n
  <2>3. Begins(now, all) /\ (~ (Room(down) < Len(w.out)) => now = all)
    BY <1>1, <1>2, <2>1, <2>2, SentIs
  <2> QED
    BY <2>3 DEF Begins
<1> HIDE DEF out, n
<1>5. ASSUME NEW i \in DOMAIN now PROVE now[i].key = K /\ Spoken(now[i])
  <2>1. DOMAIN down = 1 .. Len(down) /\ Len(down) \in Nat
    BY <1>1, SeqIs
  <2>2. DOMAIN out = 1 .. Len(out) /\ Len(out) \in Nat
    BY <1>1, SeqIs
  <2>3. /\ \A j \in 1 .. Len(down) : (down \o out)[j] = down[j]
        /\ \A j \in 1 .. Len(out) : (down \o out)[Len(down) + j] = out[j]
        /\ Len(down \o out) = Len(down) + Len(out)
    <3> DEFINE S == {down[j] : j \in DOMAIN down} \cup {out[j] : j \in DOMAIN out}
    <3>1. down \in Seq(S) /\ out \in Seq(S)
      BY <1>1 DEF IsSeq
    <3> HIDE DEF S
    <3> QED
      BY <3>1
  <2>4. now[i] = all[i] /\ i \in 1 .. (Len(down) + Len(out))
    <3>1. i \in 1 .. Len(now) /\ now[i] = all[i] /\ Len(now) <= Len(all) /\ Len(now) \in Nat
      BY <1>4
    <3>2. Len(all) = Len(down) + Len(out)
      BY <1>2, <2>3
    <3> QED
      BY <2>1, <2>2, <3>1, <3>2
  <2>5. CASE i <= Len(down)
    BY <1>2, <1>3, <2>1, <2>3, <2>4, <2>5
  <2>6. CASE i > Len(down)
    <3> DEFINE k == i - Len(down)
    <3>1. k \in 1 .. Len(out) /\ i = Len(down) + k
      BY <2>1, <2>2, <2>4, <2>6
    <3> HIDE DEF k
    <3>2. now[i] = out[k] /\ k \in DOMAIN out
      BY <1>2, <2>2, <2>3, <2>4, <3>1
    <3> QED
      BY <1>1, <3>2
  <2> QED
    BY <2>1, <2>4, <2>5, <2>6
<1>6. ASSUME "live" \in f.claims PROVE InArea(f.area, now) /\ Led(f.columns, now)
  <2>1. InArea(f.area, all) /\ Led(f.columns, all)
    BY <1>1, <1>6
  <2>2. n \in Nat /\ n <= Len(all) /\ now = SubSeq(all, 1, n)
    BY <1>4 DEF n
  <2>3. InArea(f.area, SubSeq(all, 1, n)) /\ Led(f.columns, SubSeq(all, 1, n))
    BY <1>4, <2>1, <2>2, InAreaCut, LedCut
  <2> QED
    BY <2>2, <2>3
<1>7. /\ IsPeer(v) /\ v.settled = w.settled /\ v.key = w.key /\ v.cipher = w.cipher
      /\ v.protocol = w.protocol /\ v.player = w.player /\ v.out = <<>>
  BY <1>1, PeerEmptied
<1> QED
  BY <1>1, <1>4, <1>5, <1>6, <1>7 DEF K, down, all

-----------------------------------------------------------------------------
(* A payload of a client whose stream is open.                              *)

Unlocked(ci) == [key |-> ci.key, sent |-> ci.sent, received |-> ci.received + 1, aligned |-> ci.aligned]

LEMMA PeerCipher ==
  ASSUME NEW v, IsPeer(v), NEW ci, IsCipher(ci), v.cipher = << ci >>, NEW m,
         NEW w, w = [v EXCEPT !.cipher[1].received = @ + 1]
  PROVE  w = [settled |-> v.settled, key |-> v.key, cipher |-> << Unlocked(ci) >>,
              protocol |-> v.protocol, player |-> v.player, out |-> v.out]
<1>1. v = [settled |-> v.settled, key |-> v.key, cipher |-> v.cipher, protocol |-> v.protocol,
           player |-> v.player, out |-> v.out]
  BY DEF IsPeer
<1>2. ci = [key |-> ci.key, sent |-> ci.sent, received |-> ci.received, aligned |-> ci.aligned]
  BY DEF IsCipher
<1> DEFINE more == [ci EXCEPT !.received = @ + 1]
           cipher == [v.cipher EXCEPT ![1] = more]
<1>3. more = Unlocked(ci)
  BY <1>2 DEF Unlocked
<1>4. cipher = << more >>
  BY OneChanged
<1>5. v.cipher[1] = ci
  OBVIOUS
<1>6. w = [v EXCEPT !.cipher = cipher]
  BY <1>5
<1> HIDE DEF more, cipher
<1>7. w = [settled |-> v.settled, key |-> v.key, cipher |-> cipher,
           protocol |-> v.protocol, player |-> v.player, out |-> v.out]
  BY <1>1, <1>6
<1> QED
  BY <1>3, <1>4, <1>7

\* The next payload of an open client decrypts.
LEMMA DecryptedIs ==
  ASSUME NEW v, Kept(v), NEW l, NEW c, NEW up, NEW o, UpOpen(l, v, c, up, o), up # <<>>,
         NEW w, w = AfterDecrypt(v, Head(up))
  PROVE  /\ Decrypts(v.cipher[1], Head(up)) /\ Wanted(Head(up))
         /\ w = [settled |-> v.settled, key |-> v.key, cipher |-> << Unlocked(v.cipher[1]) >>,
                 protocol |-> v.protocol, player |-> v.player, out |-> <<>>]
<1> DEFINE ci == v.cipher[1]
           m == Head(up)
<1>1. /\ IsPeer(v) /\ v.out = <<>> /\ v.cipher # <<>> /\ IsCipher(ci) /\ v.cipher = << ci >>
      /\ ci.key = c.key /\ ci.aligned = TRUE /\ ci.received \in Nat
  BY DEF Kept, UpOpen, IsOne
<1>2. IsSeq(up) /\ Numbered(up, c.key, ci.received) /\ \A i \in DOMAIN up : Wanted(up[i])
  BY DEF UpOpen
<1>3. Head(up) = up[1] /\ 1 \in DOMAIN up
  <2> DEFINE rest == Tail(up)
  <2>1. IsSeq(up) /\ up # <<>> /\ rest = Tail(up)
    BY <1>2
  <2> HIDE DEF rest
  <2>2. Head(up) = up[1] /\ DOMAIN up = 1 .. Len(up) /\ Len(up) \in Nat /\ Len(up) >= 1
    BY <2>1, Untailed
  <2> QED
    BY <2>2
<1>4. m.key = c.key /\ m.n = ci.received /\ Wanted(m)
  <2>1. up[1].key = c.key /\ up[1].n = ci.received + 1 - 1
    BY <1>2, <1>3 DEF Numbered
  <2> QED
    BY <1>1, <1>2, <1>3, <2>1
<1>5. m.key # <<>> /\ Len(m.bytes) >= 1 /\ m.bytes \in Seq(Byte)
  BY <1>1, <1>4 DEF IsCipher, Wanted
<1>6. ~ (BodyLen(m) < CHECKSUM_LEN)
  <2>1. Len(m.bytes) \in Nat /\ Len(m.bytes) >= 1
    BY <1>5
  <2>2. BodyLen(m) = Len(m.bytes) - 1 + 8 /\ CHECKSUM_LEN = 8
    BY <1>5 DEF BodyLen, CHECKSUM_LEN
  <2> QED
    BY <2>1, <2>2
<1>7. Decrypts(ci, m)
  BY <1>1, <1>4 DEF Decrypts
<1>8. w = [v EXCEPT !.cipher[1].received = @ + 1]
  BY <1>6, <1>7 DEF AfterDecrypt
<1> HIDE DEF ci, m
<1>9. w = [settled |-> v.settled, key |-> v.key, cipher |-> << Unlocked(ci) >>,
           protocol |-> v.protocol, player |-> v.player, out |-> v.out]
  BY <1>1, <1>8, PeerCipher
<1> QED
  BY <1>1, <1>4, <1>7, <1>9 DEF ci, m

Claims(c, d) == {x \in {"live", "clean"} : (x = "live" => c.phase # "stuck") /\ (x = "clean" => ~ d)}

Facing(v, c, down, d) ==
  [peer |-> v, down |-> down, taken |-> c.taken, area |-> c.area, columns |-> c.columns,
   claims |-> Claims(c, d)]

\* Right after a payload is decrypted, what the server keeps fits what is on its way.
LEMMA FacingWorks ==
  ASSUME NEW v, Kept(v), NEW l, NEW c, NEW up, NEW o, UpOpen(l, v, c, up, o),
         NEW down, NEW d, DownOpen(v, c, down, d),
         NEW w, w = [settled |-> v.settled, key |-> v.key, cipher |-> << Unlocked(v.cipher[1]) >>,
                     protocol |-> v.protocol, player |-> v.player, out |-> <<>>],
         NEW f, f = Facing(w, c, down, d)
  PROVE  Works(f, w)
<1> DEFINE ci == v.cipher[1]
           u == Unlocked(ci)
<1>1. /\ IsCipher(ci) /\ ci.key = c.key /\ ci.aligned = TRUE /\ ci.received \in Nat /\ ci.sent \in Nat
      /\ c.taken \in Nat
  BY DEF Kept, UpOpen, IsClient
<1>2. u.key = ci.key /\ u.sent = ci.sent /\ u.received = ci.received + 1 /\ u.aligned = ci.aligned
      /\ u = [key |-> u.key, sent |-> u.sent, received |-> u.received, aligned |-> u.aligned]
  BY DEF Unlocked
<1>3. /\ IsSeq(down) /\ \A i \in DOMAIN down : down[i].key = c.key /\ Spoken(down[i])
      /\ c.phase # "stuck" => InArea(c.area, down) /\ Led(c.columns, down)
      /\ ~ d => /\ ci.sent = c.taken + Len(down) /\ Numbered(down, c.key, c.taken)
                /\ v.player # <<>> => v.player[1].sent \subseteq c.columns \cup Drawn(down)
  BY DEF DownOpen, Heeded, InStep
<1>4. v.player # <<>> => IsOne(v.player) /\ IsPlayer(v.player[1]) /\ Viewed(v.player[1])
  BY DEF Kept
<1> HIDE DEF ci, u
<1>5. /\ f.peer = w /\ f.down = down /\ f.taken = c.taken /\ f.area = c.area /\ f.columns = c.columns
      /\ ("live" \in f.claims => c.phase # "stuck") /\ ("clean" \in f.claims => ~ d)
  BY DEF Facing, Claims
<1>6. /\ IsPeer(w) /\ w.settled = v.settled /\ w.key = v.key /\ w.cipher = << u >>
      /\ w.protocol = v.protocol /\ w.player = v.player /\ w.out = <<>>
  BY DEF IsPeer, u, ci
<1>7. Flow(f, w) = down
  BY <1>3, <1>5, <1>6, JoinedNothing DEF Flow
<1>8. w.cipher[1] = u
  BY <1>6
<1>9. Working(f, w)
  <2>1. IsPeer(w) /\ IsSeq(f.down) /\ IsSeq(w.out) /\ f.taken \in Nat
    BY <1>1, <1>3, <1>5, <1>6, NothingQueued
  <2>2. w.cipher = << [key |-> f.peer.cipher[1].key, sent |-> w.cipher[1].sent,
                       received |-> f.peer.cipher[1].received, aligned |-> f.peer.cipher[1].aligned] >>
    BY <1>2, <1>5, <1>6, <1>8
  <2>3. w.cipher[1].sent \in Nat
    BY <1>1, <1>2, <1>8
  <2>4. w.player = <<>> \/ IsOne(w.player)
    BY <1>4, <1>6
  <2>5. \A i \in DOMAIN w.out : w.out[i].key = f.peer.cipher[1].key /\ Spoken(w.out[i])
    BY <1>6
  <2>6. "live" \in f.claims => InArea(f.area, Flow(f, w)) /\ Led(f.columns, Flow(f, w))
    BY <1>3, <1>5, <1>7
  <2>7. "clean" \in f.claims => /\ w.cipher[1].sent = f.taken + Len(Flow(f, w))
                                /\ Numbered(Flow(f, w), f.peer.cipher[1].key, f.taken)
    BY <1>1, <1>2, <1>3, <1>5, <1>7, <1>8
  <2> QED
    BY <1>5, <2>1, <2>2, <2>3, <2>4, <2>5, <2>6, <2>7 DEF Working
<1>10. w.player # <<>> => IsOne(w.player) /\ IsPlayer(w.player[1]) /\ Viewed(w.player[1])
  BY <1>4, <1>6
<1>11. "clean" \in f.claims => Delivered(f, w)
  BY <1>3, <1>5, <1>6, <1>7 DEF Delivered
<1> QED
  BY <1>9, <1>10, <1>11 DEF Works

\* on_payload, of an open session.
LEMMA OnOpenIs ==
  ASSUME NEW v, Kept(v), NEW l, NEW c, NEW up, NEW o, UpOpen(l, v, c, up, o), up # <<>>,
         NEW down, NEW d, DownOpen(v, c, down, d), NEW key, NEW time,
         NEW w, w = OnPayload(v, key, time, Head(up)),
         NEW a, a = AfterDecrypt(v, Head(up)), NEW f, f = Facing(a, c, down, d)
  PROVE  Works(f, w)
<1> DEFINE m == Head(up)
           ci == v.cipher[1]
<1>1. Decrypts(ci, m) /\ Wanted(m) /\ v.cipher # <<>>
  BY DecryptedIs DEF UpOpen
<1>2. a = [settled |-> v.settled, key |-> v.key, cipher |-> << Unlocked(v.cipher[1]) >>,
           protocol |-> v.protocol, player |-> v.player, out |-> <<>>]
  BY DecryptedIs
<1>3. Works(f, a)
  BY <1>2, FacingWorks
<1> DEFINE got == DecodePackets(m.bytes, 3)
<1>4. got.ok => got.value \in Seq(Packet) /\ \A k \in DOMAIN got.value : Asks(got.value[k])
  BY <1>1 DEF Wanted
<1>5. w = OnPackets(a, got)
  BY <1>1 DEF OnPayload
<1> HIDE DEF m, ci, got
<1> QED
  BY <1>3, <1>4, <1>5, OnPacketsIs

-----------------------------------------------------------------------------
(* A session that is open stays open.                                       *)

Drops(d, e, down, w) == e <=> (d \/ Room(down) < Len(w.out))

StaysOpen(l, z, c, rest, now, e, o) ==
  Kept(z) /\ Len(now) <= Window /\ UpOpen(l, z, c, rest, o) /\ DownOpen(z, c, now, e)

\* The server receives a payload in an open session, which stays open.
LEMMA OpenReceives ==
  ASSUME NEW v, Kept(v), NEW l, NEW c, NEW up, NEW o, UpOpen(l, v, c, up, o), up # <<>>,
         NEW down, Len(down) <= Window, NEW d, DownOpen(v, c, down, d), NEW key, NEW time,
         NEW w, w = OnPayload(v, key, time, Head(up)),
         NEW z, z = Emptied(w), NEW now, now = Onward(w, down),
         NEW e, Drops(d, e, down, w),
         NEW rest, rest = Tail(up)
  PROVE  StaysOpen(l, z, c, rest, now, e, o)
<1> DEFINE ci == v.cipher[1]
           a == AfterDecrypt(v, Head(up))
           f == Facing(a, c, down, d)
           u == Unlocked(ci)
<1>1. Works(f, w)
  BY OnOpenIs
<1>2. /\ a = [settled |-> v.settled, key |-> v.key, cipher |-> << u >>,
              protocol |-> v.protocol, player |-> v.player, out |-> <<>>]
  BY DecryptedIs
<1>3. /\ a.settled = v.settled /\ a.key = v.key /\ a.cipher = << u >> /\ a.protocol = v.protocol
      /\ a.cipher[1] = u
  BY <1>2
<1>4. /\ IsCipher(ci) /\ ci.key = c.key /\ ci.aligned = TRUE /\ ci.received \in Nat
      /\ v.settled \in BOOLEAN /\ v.key \in BOOLEAN /\ v.settled /\ v.key
      /\ (v.key <=> v.protocol # <<>>)
  BY DEF Kept, UpOpen
<1>5. u.key = c.key /\ u.received = ci.received + 1 /\ u.aligned = TRUE
  BY <1>4 DEF Unlocked
<1>6. /\ IsSeq(down) /\ \A i \in DOMAIN down : down[i].key = c.key /\ Spoken(down[i])
  BY DEF DownOpen
<1>7. /\ f.peer = a /\ f.down = down /\ f.taken = c.taken /\ f.area = c.area /\ f.columns = c.columns
      /\ (c.phase # "stuck" => "live" \in f.claims) /\ (~ d => "clean" \in f.claims)
  BY DEF Facing, Claims
<1> HIDE DEF ci, a, f, u
<1>8. f.peer.cipher[1].key = c.key /\ f.peer.cipher[1].received = ci.received + 1
      /\ f.peer.cipher[1].aligned = TRUE
  BY <1>3, <1>5, <1>7
<1>9. \A i \in DOMAIN f.down : f.down[i].key = f.peer.cipher[1].key /\ Spoken(f.down[i])
  BY <1>6, <1>7, <1>8
<1>10. Len(f.down) <= Window /\ now = Onward(w, f.down)
  BY <1>7
<1>11. /\ IsPeer(z) /\ z.out = <<>> /\ z.settled = f.peer.settled /\ z.key = f.peer.key
       /\ z.protocol = f.peer.protocol /\ z.player = w.player /\ z.cipher = w.cipher
  BY <1>1, <1>9, <1>10, CommitIs
<1>12. IsSeq(now) /\ Len(now) <= Window
  BY <1>1, <1>9, <1>10, CommitIs
<1>13. \A i \in DOMAIN now : now[i].key = f.peer.cipher[1].key /\ Spoken(now[i])
  BY <1>1, <1>9, <1>10, CommitIs
<1>14. "live" \in f.claims => InArea(f.area, now) /\ Led(f.columns, now)
  BY <1>1, <1>9, <1>10, CommitIs
<1>15. ~ (Room(f.down) < Len(w.out)) => now = Flow(f, w)
  BY <1>1, <1>9, <1>10, CommitIs
<1>16. /\ w.cipher = << [key |-> f.peer.cipher[1].key, sent |-> w.cipher[1].sent,
                         received |-> f.peer.cipher[1].received, aligned |-> f.peer.cipher[1].aligned] >>
       /\ w.cipher[1].sent \in Nat
       /\ "clean" \in f.claims => /\ w.cipher[1].sent = f.taken + Len(Flow(f, w))
                                  /\ Numbered(Flow(f, w), f.peer.cipher[1].key, f.taken)
  BY <1>1 DEF Works, Working
<1>17. /\ w.player # <<>> => IsOne(w.player) /\ IsPlayer(w.player[1]) /\ Viewed(w.player[1])
       /\ "clean" \in f.claims => Delivered(f, w)
  BY <1>1 DEF Works
<1> DEFINE t == z.cipher[1]
<1>18. /\ z.cipher = << t >> /\ IsCipher(t) /\ t.key = c.key /\ t.received = ci.received + 1
       /\ t.aligned = TRUE /\ t.sent \in Nat /\ t.sent = w.cipher[1].sent /\ z.cipher # <<>>
  <2> DEFINE sent == w.cipher[1].sent
  <2>1. w.cipher = << [key |-> c.key, sent |-> sent, received |-> ci.received + 1, aligned |-> TRUE] >>
    BY <1>8, <1>16
  <2>2. sent \in Nat
    BY <1>16
  <2>3. z.cipher = << [key |-> c.key, sent |-> sent, received |-> ci.received + 1, aligned |-> TRUE] >>
    BY <1>11, <2>1
  <2> HIDE DEF sent
  <2>4. t = [key |-> c.key, sent |-> sent, received |-> ci.received + 1, aligned |-> TRUE]
    BY <2>3
  <2>5. c.key # <<>>
    BY <1>4 DEF IsCipher
  <2>7. z.cipher = << t >>
    BY <2>3, <2>4
  <2> HIDE DEF t
  <2> DEFINE far == ci.received + 1
  <2>8. t.key = c.key /\ t.received = ci.received + 1 /\ t.aligned = TRUE /\ t.sent = sent
    BY <2>4
  <2>9. t = [key |-> c.key, sent |-> sent, received |-> far, aligned |-> TRUE]
    BY <2>4
  <2> HIDE DEF far
  <2>10. t.key = c.key /\ t.sent = sent /\ t.received = far /\ t.aligned = TRUE
    BY <2>9
  <2>6. IsCipher(t)
    BY <2>5, <2>9, <2>10 DEF IsCipher
  <2>11. << t >> # <<>>
    OBVIOUS
  <2>12. sent = w.cipher[1].sent
    BY DEF sent
  <2>13. z.cipher # <<>>
    BY <2>7, <2>11
  <2>14. t.sent \in Nat
    BY <2>2, <2>8
  <2> QED
    BY <2>6, <2>7, <2>8, <2>12, <2>13, <2>14
<1>19. z.settled = v.settled /\ z.key = v.key /\ z.protocol = v.protocol
  BY <1>3, <1>7, <1>11
<1> HIDE DEF t
<1>20. Kept(z)
  <2>1. IsPeer(z) /\ z.out = <<>> /\ z.settled \in BOOLEAN /\ z.key \in BOOLEAN /\ z.settled /\ z.key
        /\ (z.key <=> z.protocol # <<>>)
    BY <1>4, <1>11, <1>19
  <2>2. IsOne(z.cipher) /\ IsCipher(z.cipher[1])
    BY <1>18 DEF IsOne, t
  <2>3. z.player # <<>> => z.cipher # <<>> /\ IsOne(z.player) /\ IsPlayer(z.player[1]) /\ Viewed(z.player[1])
    BY <1>11, <1>17, <1>18
  <2> QED
    BY <2>1, <2>2, <2>3 DEF Kept
<1>21. UpOpen(l, z, c, rest, o)
  <2>1. /\ c.login = << l >> /\ Vouched(l) /\ Shared(l, o) # <<>> /\ c.key = Shared(l, o)
        /\ IsClient(c) /\ c.phase \in {"keyed", "packs", "world", "spawned", "refused", "stuck"}
        /\ IsSeq(up) /\ ci.received + Len(up) = c.sent
        /\ Numbered(up, c.key, ci.received) /\ \A i \in DOMAIN up : Wanted(up[i])
    BY DEF UpOpen, ci
  <2>2. /\ IsSeq(rest) /\ Len(up) \in Nat /\ Len(up) >= 1 /\ Len(rest) = Len(up) - 1
        /\ DOMAIN rest = 1 .. (Len(up) - 1) /\ DOMAIN up = 1 .. Len(up)
        /\ \A i \in 1 .. (Len(up) - 1) : rest[i] = up[i + 1]
    BY <2>1, Untailed
  <2> DEFINE k == ci.received
             n == Len(up)
  <2> HIDE DEF k, n
  <2>3. k \in Nat /\ n \in Nat /\ n >= 1 /\ DOMAIN up = 1 .. n /\ DOMAIN rest = 1 .. (n - 1)
        /\ \A i \in 1 .. (n - 1) : rest[i] = up[i + 1]
    BY <1>4, <2>2 DEF k, n
  <2>4. \A i \in DOMAIN rest : i \in Nat /\ i + 1 \in DOMAIN up /\ rest[i] = up[i + 1]
    BY <2>3
  <2>5. Numbered(rest, c.key, k + 1)
    <3>1. Numbered(up, c.key, k)
      BY <2>1 DEF k
    <3>2. ASSUME NEW i \in DOMAIN rest PROVE rest[i].key = c.key /\ rest[i].n = (k + 1) + i - 1
      <4>1. up[i + 1].key = c.key /\ up[i + 1].n = k + (i + 1) - 1
        BY <3>1, <2>4 DEF Numbered
      <4>2. k + (i + 1) - 1 = (k + 1) + i - 1
        BY <2>3, <2>4
      <4> QED
        BY <2>4, <4>1, <4>2
    <3> QED
      BY <3>2 DEF Numbered
  <2>6. \A i \in DOMAIN rest : Wanted(rest[i])
    BY <2>1, <2>4
  <2>7. t.received + Len(rest) = c.sent
    BY <1>18, <2>1, <2>2, <2>3 DEF k, n
  <2>8. t.received = k + 1 /\ t.received \in Nat /\ t.sent \in Nat
    BY <1>18, <2>3 DEF k
  <2>9. z.cipher[1] = t /\ z.settled
    BY <1>4, <1>19 DEF t
  <2> QED
    BY <1>18, <2>1, <2>2, <2>5, <2>6, <2>7, <2>8, <2>9 DEF UpOpen
<1>22. DownOpen(z, c, now, e)
  <2>1. \A i \in DOMAIN now : now[i].key = c.key /\ Spoken(now[i])
    BY <1>8, <1>13
  <2>2. c.phase # "stuck" => Heeded(c, now)
    <3>1. c.phase # "stuck" => /\ c.area # <<>> => IsOne(c.area)
                               /\ c.phase = "spawned" => {-1, 0, 1} \subseteq c.columns
      BY DEF DownOpen, Heeded
    <3>2. c.phase # "stuck" => InArea(c.area, now) /\ Led(c.columns, now)
      BY <1>7, <1>14
    <3> QED
      BY <3>1, <3>2 DEF Heeded
  <2>3. ASSUME ~ e PROVE InStep(z, c, now)
    <3>1. ~ d /\ now = Flow(f, w) /\ "clean" \in f.claims
      BY <1>7, <1>15, <2>3 DEF Drops
    <3>2. c.phase # "stuck"
      BY <3>1 DEF DownOpen, InStep
    <3>3. t.sent = c.taken + Len(now) /\ Numbered(now, c.key, c.taken)
      BY <1>7, <1>8, <1>16, <1>18, <3>1
    <3>4. z.player # <<>> => z.player[1].sent \subseteq c.columns \cup Drawn(now)
      BY <1>7, <1>11, <1>17, <3>1 DEF Delivered
    <3> QED
      BY <3>2, <3>3, <3>4 DEF InStep, t
  <2> QED
    BY <1>12, <2>1, <2>2, <2>3 DEF DownOpen
<1> QED
  BY <1>12, <1>20, <1>21, <1>22 DEF StaysOpen

-----------------------------------------------------------------------------
(* A batch in the clear, of one packet.                                     *)

LEMMA MaxOne == Max({1}) = 1
BY DEF Max

\* A payload of one packet in the clear.
LEMMA OneClear ==
  ASSUME NEW v, NEW key, NEW time, NEW q, NEW n
  PROVE  OnClearPackets(v, key, time, Got(<< q >>, n)) = OnClear(v, key, time, q)
<1> DEFINE seq == << q >>
           step(w, packet) == OnClear(w, key, time, packet)
           Turns(iter) == iter = [s \in SUBSET (DOMAIN seq) |->
                                 IF s = {} THEN v ELSE step(iter[s \ {Max(s)}], seq[Max(s)])]
           h == [s \in SUBSET {1} |-> IF s = {} THEN v ELSE step(v, q)]
<1>1. OnClearPackets(v, key, time, Got(<< q >>, n)) = FoldLeft(step, v, seq)
  BY DEF OnClearPackets, Got
<1>2. FoldLeft(step, v, seq) = (CHOOSE iter : Turns(iter))[DOMAIN seq]
  BY DEF FoldLeft, MapThenFoldSet
<1>3. DOMAIN seq = {1} /\ seq[1] = q
  OBVIOUS
<1> HIDE DEF seq
<1>4. \A s \in SUBSET {1} : s = {} \/ s = {1}
  OBVIOUS
<1>5. {1} \ {1} = {} /\ {1} # {}
  OBVIOUS
<1>6. h[{}] = v /\ h[{1}] = step(v, q)
  <2> HIDE DEF step
  <2> QED
    OBVIOUS
<1> HIDE DEF step
<1>7. ASSUME NEW s \in SUBSET {1}
      PROVE  h[s] = IF s = {} THEN v ELSE step(h[s \ {Max(s)}], seq[Max(s)])
  <2> HIDE DEF h
  <2>1. CASE s = {}
    BY <1>6, <2>1
  <2>2. CASE s = {1}
    BY <1>3, <1>5, <1>6, <2>2, MaxOne
  <2> QED
    BY <1>4, <2>1, <2>2
<1>8. Turns(h)
  <2> DEFINE rest(s) == IF s = {} THEN v ELSE step(h[s \ {Max(s)}], seq[Max(s)])
  <2>1. h = [s \in SUBSET {1} |-> h[s]]
    OBVIOUS
  <2> HIDE DEF h
  <2>2. h = [s \in SUBSET {1} |-> rest(s)]
    BY <1>7, <2>1
  <2> QED
    BY <1>3, <2>2
<1> DEFINE g == CHOOSE iter : Turns(iter)
<1>9. Turns(g)
  <2> HIDE DEF Turns
  <2> QED
    BY <1>8
<1>10. g[{1}] = step(v, q)
  <2> HIDE DEF g
  <2>1. \A s \in SUBSET {1} : g[s] = IF s = {} THEN v ELSE step(g[s \ {Max(s)}], seq[Max(s)])
    BY <1>3, <1>9
  <2>2. g[{}] = v
    BY <2>1
  <2>3. g[{1}] = step(g[{1} \ {Max({1})}], seq[Max({1})])
    BY <1>5, <2>1
  <2> QED
    BY <1>3, <1>5, <2>2, <2>3, MaxOne
<1> QED
  BY <1>1, <1>2, <1>3, <1>10 DEF step

-----------------------------------------------------------------------------
(* What a call sends, when nothing or one payload is on its way.            *)

LEMMA NothingSent ==
  ASSUME NEW w, Kept(w)
  PROVE  Emptied(w) = w /\ Onward(w, <<>>) = <<>> /\ ~ (Room(<<>>) < Len(w.out))
<1>1. IsPeer(w) /\ w.out = <<>>
  BY DEF Kept
<1>2. Emptied(w) = w
  BY <1>1 DEF Emptied, IsPeer
<1>3. Window \in Nat
  BY ServerAssumption
<1>4. Room(<<>>) = Window /\ Len(<<>>) = 0
  BY <1>3 DEF Room
<1>5. ~ (Room(<<>>) < 0)
  BY <1>3, <1>4
<1>6. Onward(w, <<>>) = <<>>
  <2>1. Admitted(w, <<>>) = 0
    BY <1>1, <1>4, <1>5 DEF Admitted
  <2>2. SubSeq(<<>>, 1, 0) = <<>>
    OBVIOUS
  <2>3. Onward(w, <<>>) = <<>> \o <<>>
    BY <1>1, <2>1, <2>2 DEF Onward
  <2> QED
    BY <2>3
<1> QED
  BY <1>1, <1>2, <1>4, <1>5, <1>6

LEMMA OneSent ==
  ASSUME NEW w, NEW m, w.out = << m >>
  PROVE  \/ Onward(w, <<>>) = << m >> /\ Len(<< m >>) <= Window
         \/ Onward(w, <<>>) = <<>> /\ Room(<<>>) < Len(w.out)
<1>1. Window \in Nat
  BY ServerAssumption
<1>2. Room(<<>>) = Window /\ Len(w.out) = 1
  BY <1>1 DEF Room
<1> DEFINE out == w.out
<1>3. SubSeq(<< m >>, 1, 1) = << m >> /\ SubSeq(<< m >>, 1, 0) = <<>>
  <2> DEFINE one == << m >>
  <2>1. IsSeq(one) /\ Len(one) = 1
    BY OneSeq
  <2>2. one \in Seq({one[i] : i \in DOMAIN one})
    BY <2>1 DEF IsSeq
  <2>3. SubSeq(one, 1, 1) = one
    BY <2>1, SameSeq
  <2> HIDE DEF one
  <2>4. SubSeq(one, 1, 0) = <<>>
    BY <2>2
  <2> QED
    BY <2>3, <2>4 DEF one
<1>4. CASE Window = 0
  <2>1. Admitted(w, <<>>) = 0 /\ Room(<<>>) < Len(w.out)
    BY <1>2, <1>4 DEF Admitted
  <2>2. Onward(w, <<>>) = <<>> \o <<>>
    BY <1>3, <2>1 DEF Onward
  <2>3. Onward(w, <<>>) = <<>>
    BY <2>2
  <2> QED
    BY <2>1, <2>3
<1>5. CASE Window # 0
  <2>1. ~ (Window < 1)
    BY <1>1, <1>5
  <2>2. Admitted(w, <<>>) = 1
    BY <1>2, <2>1 DEF Admitted
  <2>3. Onward(w, <<>>) = <<>> \o << m >>
    BY <1>3, <2>2 DEF Onward
  <2>4. 1 <= Window
    BY <1>1, <1>5
  <2>5. Len(<< m >>) = 1 /\ <<>> \o << m >> = << m >>
    OBVIOUS
  <2> QED
    BY <2>3, <2>4, <2>5
<1> QED
  BY <1>4, <1>5

-----------------------------------------------------------------------------
(* What the cipher does not take.                                           *)

Misread(ci) == [key |-> ci.key, sent |-> ci.sent, received |-> ci.received, aligned |-> FALSE]

LEMMA PeerMisread ==
  ASSUME NEW v, IsPeer(v), NEW ci, IsCipher(ci), v.cipher = << ci >>,
         NEW w, w = [v EXCEPT !.cipher[1].aligned = FALSE]
  PROVE  w = [settled |-> v.settled, key |-> v.key, cipher |-> << Misread(ci) >>,
              protocol |-> v.protocol, player |-> v.player, out |-> v.out]
<1>1. v = [settled |-> v.settled, key |-> v.key, cipher |-> v.cipher, protocol |-> v.protocol,
           player |-> v.player, out |-> v.out]
  BY DEF IsPeer
<1>2. ci = [key |-> ci.key, sent |-> ci.sent, received |-> ci.received, aligned |-> ci.aligned]
  BY DEF IsCipher
<1> DEFINE more == [ci EXCEPT !.aligned = FALSE]
           cipher == [v.cipher EXCEPT ![1] = more]
<1> DEFINE key == ci.key
           sent == ci.sent
           received == ci.received
           aligned == ci.aligned
<1>3. more = Misread(ci)
  <2> DEFINE no == FALSE
  <2>1. more = [ci EXCEPT !.aligned = no]
    OBVIOUS
  <2>2. Misread(ci) = [key |-> key, sent |-> sent, received |-> received, aligned |-> no]
    BY DEF Misread
  <2>3. ci = [key |-> key, sent |-> sent, received |-> received, aligned |-> aligned]
    BY <1>2
  <2> HIDE DEF key, sent, received, aligned, no, more
  <2>4. more = [key |-> key, sent |-> sent, received |-> received, aligned |-> no]
    BY <2>1, <2>3
  <2> QED
    BY <2>2, <2>4
<1>4. cipher = << more >>
  BY OneChanged
<1>5. v.cipher[1] = ci
  OBVIOUS
<1>6. w = [v EXCEPT !.cipher = cipher]
  BY <1>5
<1> HIDE DEF more, cipher
<1>7. w = [settled |-> v.settled, key |-> v.key, cipher |-> cipher,
           protocol |-> v.protocol, player |-> v.player, out |-> v.out]
  BY <1>1, <1>6
<1> QED
  BY <1>3, <1>4, <1>7

\* A payload that does not decrypt ruins the keystream, and sends nothing.
LEMMA MisreadIs ==
  ASSUME NEW v, Kept(v), v.cipher # <<>>, NEW m, ~ Decrypts(v.cipher[1], m),
         NEW w, w = AfterDecrypt(v, m)
  PROVE  /\ Kept(w) /\ w.settled = v.settled /\ w.player = v.player /\ w.cipher # <<>>
         /\ w.cipher[1].key = v.cipher[1].key
<1> DEFINE ci == v.cipher[1]
<1>1. /\ IsPeer(v) /\ v.out = <<>> /\ IsCipher(ci) /\ v.cipher = << ci >>
      /\ v.settled \in BOOLEAN /\ v.key \in BOOLEAN /\ (v.settled \/ v = Nothing)
      /\ (v.key <=> v.protocol # <<>>) /\ v.key
      /\ (v.player # <<>> => IsOne(v.player) /\ IsPlayer(v.player[1]) /\ Viewed(v.player[1]))
  BY DEF Kept, IsOne
<1>2. CASE BodyLen(m) < CHECKSUM_LEN
  BY <1>2 DEF AfterDecrypt
<1>3. CASE ~ (BodyLen(m) < CHECKSUM_LEN)
  <2>1. w = [v EXCEPT !.cipher[1].aligned = FALSE]
    BY <1>3 DEF AfterDecrypt
  <2> HIDE DEF ci
  <2> DEFINE t == Misread(ci)
  <2>2. w = [settled |-> v.settled, key |-> v.key, cipher |-> << t >>,
             protocol |-> v.protocol, player |-> v.player, out |-> v.out]
    BY <1>1, <2>1, PeerMisread
  <2>3. t.key = ci.key /\ IsCipher(t)
    BY <1>1 DEF Misread, IsCipher
  <2> HIDE DEF t
  <2>4. << t >> # <<>> /\ << t >>[1] = t /\ IsOne(<< t >>)
    BY DEF IsOne
  <2>5. /\ w.settled = v.settled /\ w.key = v.key /\ w.cipher = << t >> /\ w.protocol = v.protocol
        /\ w.player = v.player /\ w.out = <<>> /\ IsPeer(w)
    BY <1>1, <2>2 DEF IsPeer
  <2>6. v.settled
    <3>1. Nothing.cipher = <<>>
      BY DEF Nothing
    <3> QED
      BY <1>1, <3>1
  <2>7. Kept(w)
    BY <1>1, <2>3, <2>4, <2>5, <2>6 DEF Kept
  <2> QED
    BY <2>3, <2>4, <2>5, <2>7 DEF ci
<1> QED
  BY <1>2, <1>3

-----------------------------------------------------------------------------
(* The login, as the server sees it.                                        *)

LEMMA OneRest ==
  ASSUME NEW m
  PROVE  Head(<< m >>) = m /\ Tail(<< m >>) = <<>> /\ << m >> # <<>> /\ Len(<< m >>) = 1
OBVIOUS

LEMMA WindowIs == Window \in Nat /\ Len(<<>>) <= Window /\ Room(<<>>) = Window
<1>1. Window \in Nat
  BY ServerAssumption
<1> QED
  BY <1>1 DEF Room

\* Nothing is a state to be kept.
LEMMA KeptNothing == Kept(Nothing)
BY DEF Kept, Nothing, IsPeer

LEMMA SettledIs ==
  /\ Kept(Settled) /\ Settled.cipher = <<>> /\ Settled.player = <<>> /\ Settled.settled = TRUE
  /\ Settled.out = <<>>
  /\ Settled = [settled |-> TRUE, key |-> FALSE, cipher |-> <<>>, protocol |-> <<>>,
                player |-> <<>>, out |-> <<>>]
<1> DEFINE yes == TRUE
           no == FALSE
           none == <<>>
<1>5. Settled = [Nothing EXCEPT !.settled = yes]
      /\ Nothing = [settled |-> no, key |-> no, cipher |-> none, protocol |-> none,
                    player |-> none, out |-> none]
  BY DEF Settled, Nothing
<1> HIDE DEF yes, no, none
<1>6. Settled = [settled |-> yes, key |-> no, cipher |-> none, protocol |-> none,
                 player |-> none, out |-> none]
  BY <1>5
<1>1. Settled = [settled |-> TRUE, key |-> FALSE, cipher |-> <<>>, protocol |-> <<>>,
                 player |-> <<>>, out |-> <<>>]
  BY <1>6 DEF yes, no, none
<1>2. Settled.cipher = <<>> /\ Settled.player = <<>> /\ Settled.settled = TRUE /\ Settled.out = <<>>
      /\ Settled.key = FALSE /\ Settled.protocol = <<>>
  BY <1>1
<1>3. IsPeer(Settled)
  BY <1>1, <1>2 DEF IsPeer
<1>4. Kept(Settled)
  BY <1>2, <1>3 DEF Kept
<1> QED
  BY <1>1, <1>2, <1>4

\* The network settings, once.
LEMMA SettingsSent ==
  ASSUME NEW w, w = OnNetworkSettings(Nothing)
  PROVE  Emptied(w) = Settled /\ w.out = << InClear(Encode(<< Uncompressed >>)) >>
<1> DEFINE m == InClear(Encode(<< Uncompressed >>))
           told == Tell(Nothing, Encode(<< Uncompressed >>))
<1>1. told = [Nothing EXCEPT !.out = Append(<<>>, m)]
  BY DEF Tell, Nothing
<1>2. Append(<<>>, m) = << m >>
  OBVIOUS
<1>3. w = [told EXCEPT !.settled = TRUE]
  BY DEF OnNetworkSettings
<1> HIDE DEF m, told
<1> DEFINE one == << m >>
           more == Append(<<>>, m)
<1> HIDE DEF one, more
<1>6. more = one /\ told = [Nothing EXCEPT !.out = more]
  BY <1>1, <1>2 DEF one, more
<1>7. told = [settled |-> FALSE, key |-> FALSE, cipher |-> <<>>, protocol |-> <<>>,
              player |-> <<>>, out |-> one]
  BY <1>6 DEF Nothing
<1>8. w = [settled |-> TRUE, key |-> FALSE, cipher |-> <<>>, protocol |-> <<>>,
           player |-> <<>>, out |-> one]
  BY <1>3, <1>7
<1>4. w = [settled |-> TRUE, key |-> FALSE, cipher |-> <<>>, protocol |-> <<>>,
           player |-> <<>>, out |-> << m >>]
  BY <1>8 DEF one
<1> DEFINE yes == TRUE
           no == FALSE
           none == <<>>
<1> HIDE DEF yes, no, none
<1>9. w = [settled |-> yes, key |-> no, cipher |-> none, protocol |-> none,
           player |-> none, out |-> one] /\ Emptied(w) = [w EXCEPT !.out = none]
  BY <1>8 DEF yes, no, none, Emptied
<1>10. Emptied(w) = [settled |-> yes, key |-> no, cipher |-> none, protocol |-> none,
                     player |-> none, out |-> none]
  BY <1>9
<1>5. Emptied(w) = [settled |-> TRUE, key |-> FALSE, cipher |-> <<>>, protocol |-> <<>>,
                    player |-> <<>>, out |-> <<>>]
  BY <1>10 DEF yes, no, none
<1> QED
  BY <1>4, <1>5, SettledIs DEF m

Staged(z, c, rest, now, e, r, o) ==
  Kept(z) /\ Len(now) <= Window /\ InStage(z, c, rest, now, e, r, o)

\* Whatever was left of an earlier session, a request in the clear changes nothing
\* that would ever let this one in.
LEMMA AskedReceives ==
  ASSUME NEW v, Kept(v), NEW c, NEW up, NEW down, NEW d, NEW r, Asked(v, c, up, down, d, r),
         NEW o, NEW time, NEW w, w = OnPayload(v, o, time, Head(up)),
         NEW z, z = Emptied(w), NEW now, now = Onward(w, down),
         NEW e, Drops(d, e, down, w), NEW rest, rest = Tail(up)
  PROVE  Staged(z, c, rest, now, e, r, o)
<1> DEFINE m == InClear(Request)
<1>1. /\ c = AskedClient /\ down = <<>> /\ ~ d /\ (r <=> v # Nothing)
      /\ Head(up) = m /\ rest = <<>>
  BY OneRest DEF Asked
<1>2. c.phase = "asked"
  BY <1>1 DEF AskedClient, Away
<1>3. m.key = <<>> /\ m.bytes = Request
  BY DEF InClear
<1> HIDE DEF m
<1>4. Len(<<>>) <= Window
  BY WindowIs
<1>5. CASE v.cipher # <<>>
  <2>1. v.cipher[1].key # <<>>
    BY <1>5 DEF Kept, IsCipher
  <2>2. ~ Decrypts(v.cipher[1], m)
    BY <1>3, <2>1 DEF Decrypts
  <2>3. w = AfterDecrypt(v, m)
    BY <1>1, <1>5, <2>2 DEF OnPayload
  <2>4. Kept(w)
    BY <1>5, <2>2, <2>3, MisreadIs
  <2>5. z = w /\ now = <<>>
    BY <1>1, <2>4, NothingSent
  <2>6. r
    BY <1>1, <1>5 DEF Nothing
  <2>7. Lost(z, c, rest, now, e, r)
    BY <1>1, <1>2, <2>5, <2>6 DEF Lost
  <2> QED
    BY <1>4, <2>4, <2>5, <2>7 DEF InStage, Staged
<1>6. CASE v.cipher = <<>> /\ v.settled
  <2>1. w = OnClearPackets(v, o, time, DecodeWithMethod(Request))
    BY <1>1, <1>3, <1>6 DEF OnPayload
  <2>2. DecodeWithMethod(Request) = Failed
    BY RequestIs
  <2>3. w = v
    BY <2>1, <2>2 DEF OnClearPackets, Failed
  <2>4. z = v /\ now = <<>>
    BY <1>1, <2>3, NothingSent
  <2>5. Lost(z, c, rest, now, e, r)
    BY <1>1, <1>2, <1>6, <2>4 DEF Lost
  <2> QED
    BY <1>4, <2>4, <2>5 DEF InStage, Staged
<1>7. CASE v.cipher = <<>> /\ ~ v.settled
  <2>1. v = Nothing
    BY <1>7 DEF Kept
  <2>2. w = OnClearPackets(v, o, time, Decode(Request))
    BY <1>1, <1>3, <1>7 DEF OnPayload
  <2>3. Decode(Request) = Got(<< Asking >>, Len(Request) + 1)
    BY RequestIs
  <2> DEFINE n == Len(Request) + 1
             q == Asking
  <2>4. w = OnClearPackets(v, o, time, Got(<< q >>, n))
    BY <2>2, <2>3
  <2>5. q.id = ID_REQUEST_NETWORK_SETTINGS
    BY AskingSays DEF Says
  <2> HIDE DEF n, q
  <2>6. w = OnClear(v, o, time, q)
    BY <2>4, OneClear
  <2>7. w = OnNetworkSettings(v)
    BY <2>5, <2>6 DEF OnClear, ID_REQUEST_NETWORK_SETTINGS, ID_LOGIN
  <2> DEFINE told == InClear(Encode(<< Uncompressed >>))
  <2>8. z = Settled /\ w.out = << told >>
    BY <2>1, <2>7, SettingsSent
  <2>9. Kept(z) /\ z.cipher = <<>>
    BY <2>8, SettledIs
  <2> HIDE DEF told
  <2>10. (now = << told >> /\ Len(<< told >>) <= Window) \/ now = <<>>
    BY <1>1, <2>8, OneSent
  <2>11. CASE now = << told >> /\ ~ (now = <<>>)
    <3>1. Answering(z, c, rest, now)
      BY <1>1, <2>8, <2>11 DEF Answering, told
    <3>2. Len(now) <= Window
      BY <2>10, <2>11
    <3> QED
      BY <2>9, <3>1, <3>2 DEF InStage, Staged
  <2>12. CASE now = <<>>
    <3>1. Lost(z, c, rest, now, e, r)
      BY <1>1, <1>2, <2>9, <2>12 DEF Lost
    <3> QED
      BY <1>4, <2>9, <2>12, <3>1 DEF InStage, Staged
  <2> QED
    BY <2>10, <2>11, <2>12
<1> QED
  BY <1>5, <1>6, <1>7

-----------------------------------------------------------------------------
(* The login.                                                               *)

\* A key that is found is one of the issuer's.
LEMMA FoundIs ==
  ASSUME NEW keys, keys \in Seq(Range(keys)), NEW kid, NEW k \in DOMAIN Find(keys, kid)
  PROVE  \E j \in DOMAIN keys : Find(keys, kid)[k] = keys[j]
<1> DEFINE named == {j \in DOMAIN keys : keys[j].kid = kid}
           least == CHOOSE j \in named : \A i \in named : j <= i
<1>1. Find(keys, kid) = IF named = {} THEN <<>> ELSE << keys[least] >>
  BY DEF Find
<1>2. DOMAIN keys = 1 .. Len(keys) /\ Len(keys) \in Nat
  OBVIOUS
<1>3. named \subseteq Nat /\ named \subseteq DOMAIN keys
  BY <1>2
<1> HIDE DEF named
<1>4. named # {}
  <2>1. DOMAIN <<>> = {}
    OBVIOUS
  <2> QED
    BY <1>1, <2>1
<1>5. \E j \in named : \A i \in named : j <= i
  BY <1>3, <1>4, Plaintexts!LeastNatural
<1>6. least \in named
  BY <1>5
<1> HIDE DEF least
<1>7. DOMAIN << keys[least] >> = {1} /\ << keys[least] >>[1] = keys[least]
  OBVIOUS
<1>8. k = 1 /\ Find(keys, kid)[k] = keys[least]
  BY <1>1, <1>4, <1>7
<1> QED
  BY <1>3, <1>6, <1>8

\* An identity that verifies is vouched for.
LEMMA VerifiedIs ==
  ASSUME Maps, NEW l, NEW time, NEW claims, claims = VerifyIdentity(<< l.token >>, time),
         claims # <<>>
  PROVE  claims[1] = Tokens[l.token] /\ Vouched(l)
<1> DEFINE token == Tokens[l.token]
           keys == identityKeys[1]
           name == << l.token >>
<1>1. name[1] = l.token
  OBVIOUS
<1> HIDE DEF name
<1>2. identityKeys # <<>> /\ l.token \in DOMAIN Tokens /\ claims = Verify(token, keys, Expected, time)
  BY <1>1 DEF VerifyIdentity, name
<1>3. keys \in KeySets /\ keys \in Seq(Range(keys))
  <2>1. PICK k \in KeySets : identityKeys = << k >>
    BY <1>2 DEF Maps
  <2>2. keys = k
    BY <2>1
  <2> QED
    BY <2>2, WireAssumption
<1>4. claims = << token >> /\ IsSigned(token, keys) /\ ClaimsHold(token, Expected, time)
  BY <1>2 DEF Verify
<1>5. claims[1] = token
  BY <1>4
<1>6. PICK k \in DOMAIN Find(keys, token.kid) : Find(keys, token.kid)[k].pair = token.pair
  BY <1>4 DEF IsSigned
<1>7. token.iss = TOKEN_ISSUER /\ token.aud = TOKEN_AUDIENCE
  BY <1>4 DEF ClaimsHold, Expected
<1> HIDE DEF token, keys
<1> DEFINE kid == token.kid
<1>8. \E j \in DOMAIN keys : Find(keys, kid)[k] = keys[j]
  <2>1. k \in DOMAIN Find(keys, kid)
    BY <1>6
  <2> HIDE DEF kid
  <2> QED
    BY <1>3, <2>1, FoundIs
<1>9. \E j \in DOMAIN keys : keys[j].pair = token.pair
  BY <1>6, <1>8
<1>10. Vouched(l)
  BY <1>2, <1>3, <1>7, <1>9 DEF Vouched, token
<1> QED
  BY <1>5, <1>10 DEF token

\* A login is answered once, with a refusal or a key.
LEMMA SettledTells ==
  ASSUME NEW bytes, NEW m, m = InClear(bytes), NEW w, w = Tell(Settled, bytes)
  PROVE  /\ w = [settled |-> TRUE, key |-> FALSE, cipher |-> <<>>, protocol |-> <<>>,
                 player |-> <<>>, out |-> << m >>]
         /\ Emptied(w) = Settled /\ w.out = << m >>
<1> DEFINE one == << m >>
           more == Append(<<>>, m)
           yes == TRUE
           no == FALSE
           none == <<>>
<1>1. more = one
  OBVIOUS
<1>2. w = [Settled EXCEPT !.out = more]
  BY SettledIs DEF Tell
<1>3. Settled = [settled |-> yes, key |-> no, cipher |-> none, protocol |-> none,
                 player |-> none, out |-> none]
  BY SettledIs
<1>4. Emptied(w) = [w EXCEPT !.out = none]
  BY DEF Emptied
<1> HIDE DEF one, more, yes, no, none
<1>5. w = [settled |-> yes, key |-> no, cipher |-> none, protocol |-> none,
           player |-> none, out |-> one]
  BY <1>1, <1>2, <1>3
<1>6. Emptied(w) = Settled /\ w.out = one
  BY <1>3, <1>4, <1>5
<1> QED
  BY <1>5, <1>6 DEF one, yes, no, none

Welcomes(z, w, l, o, m) ==
  Kept(z) /\ z.settled /\ z.player = <<>> /\ z.cipher = Greeted(l, o) /\ w.out = << m >>

\* A login that is accepted.
LEMMA WelcomedIs ==
  ASSUME NEW l, NEW o, NEW login, NEW claims, claims # <<>>, claims[1] = Tokens[l.token],
         NEW w, w = Admit(Settled, o, login, claims),
         NEW m, m = InClear(EncodeWithMethod(<< ServerToClientHandshake(<< o >>) >>)),
         NEW z, z = Emptied(w)
  PROVE  Welcomes(z, w, l, o, m)
<1> DEFINE bytes == EncodeWithMethod(<< ServerToClientHandshake(<< o >>) >>)
           told == Tell(Settled, bytes)
           shared == Shared(l, o)
           started == StartCipher(told, o, claims[1], login.client_data)
           cipher == [key |-> shared, sent |-> 0, received |-> 0, aligned |-> TRUE]
           greeted == Greeted(l, o)
           protocol == << login.protocol >>
           one == << m >>
           yes == TRUE
           no == FALSE
           none == <<>>
<1>1. w = [started EXCEPT !.key = yes, !.protocol = protocol]
  BY DEF Admit
<1>2. shared = Agree(o, claims[1].cpk)
  BY DEF Shared
<1>3. started = IF shared = none THEN told ELSE [told EXCEPT !.cipher = << cipher >>]
  BY <1>2 DEF StartCipher
<1>4. greeted = IF shared = none THEN none ELSE << cipher >>
  BY DEF Greeted
<1>5. m = InClear(bytes) /\ told = Tell(Settled, bytes)
  OBVIOUS
<1> HIDE DEF bytes, told
<1>6. told = [settled |-> yes, key |-> no, cipher |-> none, protocol |-> none,
              player |-> none, out |-> one]
  BY <1>5, SettledTells
<1>7. protocol # none /\ (greeted # none => IsOne(greeted) /\ IsCipher(greeted[1]))
  <2>1. protocol # none
    OBVIOUS
  <2> HIDE DEF shared
  <2>2. shared # none => IsOne(<< cipher >>) /\ IsCipher(cipher) /\ << cipher >>[1] = cipher
    BY DEF IsOne, IsCipher
  <2> HIDE DEF cipher, none, greeted
  <2> QED
    BY <1>4, <2>1, <2>2
<1>8. z = [w EXCEPT !.out = none]
  BY DEF Emptied
<1>9. yes \in BOOLEAN /\ yes /\ (yes <=> protocol # none)
  BY <1>7
<1> HIDE DEF started, cipher, protocol, one, yes, no, none, shared, greeted
<1>10. started = [settled |-> yes, key |-> no, cipher |-> greeted, protocol |-> none,
                  player |-> none, out |-> one]
  <2>1. CASE shared = none
    BY <1>3, <1>4, <1>6, <2>1
  <2>2. CASE shared # none
    <3>1. started = [told EXCEPT !.cipher = greeted]
      BY <1>3, <1>4, <2>2
    <3> QED
      BY <1>6, <3>1
  <2> QED
    BY <2>1, <2>2
<1>11. w = [settled |-> yes, key |-> yes, cipher |-> greeted, protocol |-> protocol,
            player |-> none, out |-> one]
  BY <1>1, <1>10
<1>12. z = [settled |-> yes, key |-> yes, cipher |-> greeted, protocol |-> protocol,
            player |-> none, out |-> none]
  BY <1>8, <1>11
<1>13. /\ z.settled = yes /\ z.key = yes /\ z.cipher = greeted /\ z.protocol = protocol
       /\ z.player = none /\ z.out = none /\ w.out = one
  BY <1>11, <1>12
<1>14. IsPeer(z)
  BY <1>12, <1>13 DEF IsPeer
<1>15. Kept(z)
  BY <1>7, <1>9, <1>13, <1>14 DEF Kept, yes, none
<1> QED
  BY <1>13, <1>15 DEF Welcomes, yes, none, one, greeted

-----------------------------------------------------------------------------
(* A payload is received, at whatever stage.                                *)

\* A login is refused, or leads to the key it was vouched for.
LEMMA LoginReceives ==
  ASSUME Maps, NEW v, NEW c, NEW up, NEW down, NEW l \in Logins, LoggingIn(l, v, c, up, down),
         NEW d, NEW r, NEW o, NEW time, NEW w, w = OnPayload(v, o, time, Head(up)),
         NEW z, z = Emptied(w), NEW now, now = Onward(w, down),
         NEW e, Drops(d, e, down, w), NEW rest, rest = Tail(up)
  PROVE  Staged(z, c, rest, now, e, r, o)
<1> DEFINE q == LoginPacket(l)
           m == InClear(EncodeWithMethod(<< q >>))
           n == Len(EncodeWithMethod(<< q >>)) + 1
           login == DecodeLogin(q.body)
           claims == VerifyIdentity(login.value.identity, time)
           no == InClear(EncodeWithMethod(<< StatusPacket("InvalidTenant") >>))
           yes == InClear(EncodeWithMethod(<< ServerToClientHandshake(<< o >>) >>))
<1>1. c = LoginClient(l) /\ down = <<>> /\ v = Settled /\ Head(up) = m /\ rest = <<>>
  BY OneRest DEF LoggingIn
<1>2. c.phase = "login"
  BY <1>1 DEF LoginClient, Away
<1>3. m.key = <<>> /\ m.bytes = EncodeWithMethod(<< q >>)
  BY DEF InClear
<1>4. q \in Packet /\ q.id = ID_LOGIN /\ login.ok /\ login.value.identity = << l.token >>
  BY LoginRead
<1> HIDE DEF q
<1>5. w = OnClear(v, o, time, q)
  <2>1. DecodeWithMethod(m.bytes) = Got(<< q >>, n)
    BY <1>3, <1>4, OneBatch
  <2> HIDE DEF n, m
  <2>2. w = OnClearPackets(v, o, time, Got(<< q >>, n))
    BY <1>1, <1>3, <2>1, SettledIs DEF OnPayload
  <2> QED
    BY <2>2, OneClear
<1>6. w = OnLogin(v, o, time, login)
  BY <1>4, <1>5 DEF OnClear, ID_REQUEST_NETWORK_SETTINGS, ID_LOGIN
<1>7. w = Admit(v, o, login.value, claims)
  BY <1>4, <1>6 DEF OnLogin
<1>8. claims = VerifyIdentity(<< l.token >>, time)
  BY <1>4
<1>9. yes = InClear(EncodeWithMethod(<< ServerToClientHandshake(<< o >>) >>))
  OBVIOUS
<1>10. Len(<<>>) <= Window
  BY WindowIs
<1> HIDE DEF m, n, login, claims, yes
<1>11. CASE claims = <<>>
  <2> DEFINE bytes == EncodeWithMethod(<< StatusPacket("InvalidTenant") >>)
  <2>1. w = Tell(Settled, bytes) /\ no = InClear(bytes)
    BY <1>1, <1>7, <1>11 DEF Admit
  <2> HIDE DEF bytes, no
  <2>2. z = Settled /\ w.out = << no >>
    BY <2>1, SettledTells
  <2>3. Kept(z) /\ z.cipher = <<>>
    BY <2>2, SettledIs
  <2>4. (now = << no >> /\ Len(<< no >>) <= Window) \/ now = <<>>
    BY <1>1, <2>2, OneSent
  <2>5. CASE now = << no >> /\ Len(<< no >>) <= Window
    <3>1. Refusing(l, z, c, rest, now)
      BY <1>1, <2>2, <2>5 DEF Refusing, no
    <3> QED
      BY <2>3, <2>5, <3>1 DEF InStage, Staged
  <2>6. CASE now = <<>>
    <3>1. Lost(z, c, rest, now, e, r)
      BY <1>1, <1>2, <2>3, <2>6 DEF Lost
    <3> QED
      BY <1>10, <2>3, <2>6, <3>1 DEF InStage, Staged
  <2> QED
    BY <2>4, <2>5, <2>6
<1>12. CASE claims # <<>>
  <2>1. claims[1] = Tokens[l.token] /\ Vouched(l)
    BY <1>8, <1>12, VerifiedIs
  <2> DEFINE what == login.value
  <2>2. w = Admit(Settled, o, what, claims)
    BY <1>1, <1>7
  <2> HIDE DEF what
  <2>7. claims[1] = Tokens[l.token]
    BY <2>1
  <2>3. Kept(z) /\ z.settled /\ z.player = <<>> /\ z.cipher = Greeted(l, o) /\ w.out = << yes >>
    <3>1. Welcomes(z, w, l, o, yes)
      BY <1>9, <1>12, <2>7, <2>2, WelcomedIs
    <3> QED
      BY <3>1 DEF Welcomes
  <2>4. (now = << yes >> /\ Len(<< yes >>) <= Window)
        \/ (now = <<>> /\ Room(<<>>) < Len(w.out))
    BY <1>1, <2>3, OneSent
  <2>5. CASE now = << yes >> /\ Len(<< yes >>) <= Window
    <3>1. Greeting(l, z, c, rest, now, o)
      BY <1>1, <2>1, <2>3, <2>5 DEF Greeting, yes
    <3> QED
      BY <2>3, <2>5, <3>1 DEF InStage, Staged
  <2>6. CASE now = <<>> /\ Room(<<>>) < Len(w.out)
    <3>1. Lost(z, c, rest, now, e, r)
      BY <1>1, <1>2, <2>6 DEF Lost, Drops
    <3> QED
      BY <1>10, <2>3, <2>6, <3>1 DEF InStage, Staged
  <2> QED
    BY <2>4, <2>5, <2>6
<1> QED
  BY <1>11, <1>12

\* A client with another key than its token names is not heard.
LEMMA ApartReceives ==
  ASSUME NEW v, Kept(v), NEW c, NEW up, NEW down, NEW l \in Logins, NEW o,
         Apart(l, v, c, up, down, o), up # <<>>,
         NEW d, NEW r, NEW time, NEW w, w = OnPayload(v, o, time, Head(up)),
         NEW z, z = Emptied(w), NEW now, now = Onward(w, down),
         NEW e, Drops(d, e, down, w), NEW rest, rest = Tail(up)
  PROVE  Staged(z, c, rest, now, e, r, o)
<1> DEFINE q == Hello
           m == [key |-> c.key, n |-> 0, bytes |-> EncodeWithMethod(<< q >>)]
           n == Len(EncodeWithMethod(<< q >>)) + 1
<1>1. /\ c.phase = "keyed" /\ c.login = << l >> /\ Vouched(l)
      /\ v.settled /\ v.player = <<>> /\ down = <<>>
      /\ v.cipher # <<>> => v.cipher[1].key = Shared(l, o) /\ c.key # Shared(l, o)
  BY DEF Apart
<1>2. Head(up) = m /\ rest = <<>>
  BY OneRest DEF Apart
<1>3. m.key = c.key /\ m.bytes = EncodeWithMethod(<< q >>)
  OBVIOUS
<1>4. q \in Packet /\ q.id = ID_CLIENT_TO_SERVER_HANDSHAKE
  BY OthersAsked
<1> HIDE DEF q
<1>5. DecodeWithMethod(m.bytes) = Got(<< q >>, n)
  BY <1>3, <1>4, OneBatch
<1> HIDE DEF m, n
<1>6. /\ Kept(w) /\ w.settled /\ w.player = <<>>
      /\ w.cipher # <<>> => w.cipher[1].key = Shared(l, o) /\ c.key # Shared(l, o)
  <2>1. CASE v.cipher # <<>>
    <3>1. ~ Decrypts(v.cipher[1], m)
      BY <1>1, <1>3, <2>1 DEF Decrypts
    <3>2. w = AfterDecrypt(v, m)
      BY <1>2, <2>1, <3>1 DEF OnPayload
    <3> QED
      BY <1>1, <2>1, <3>1, <3>2, MisreadIs
  <2>2. CASE v.cipher = <<>> /\ m.key # <<>>
    <3>1. w = v
      BY <1>2, <2>2 DEF OnPayload
    <3> QED
      BY <1>1, <3>1
  <2>3. CASE v.cipher = <<>> /\ m.key = <<>>
    <3>1. w = OnClearPackets(v, o, time, Got(<< q >>, n))
      BY <1>1, <1>2, <1>5, <2>3 DEF OnPayload
    <3>2. w = OnClear(v, o, time, q)
      BY <3>1, OneClear
    <3>3. w = v
      BY <1>4, <3>2 DEF OnClear, ID_REQUEST_NETWORK_SETTINGS, ID_LOGIN, ID_CLIENT_TO_SERVER_HANDSHAKE
    <3> QED
      BY <1>1, <3>3
  <2> QED
    BY <2>1, <2>2, <2>3
<1>7. z = w /\ now = <<>>
  BY <1>1, <1>6, NothingSent
<1>8. Apart(l, z, c, rest, now, o)
  BY <1>1, <1>2, <1>6, <1>7 DEF Apart
<1>9. Len(<<>>) <= Window
  BY WindowIs
<1> QED
  BY <1>6, <1>7, <1>8, <1>9 DEF InStage, Staged

\* Receive, of one session.
LEMMA StageReceives ==
  ASSUME Maps, NEW v, Kept(v), NEW c, NEW up, up # <<>>, NEW down, Len(down) <= Window,
         NEW d, NEW r, NEW o, InStage(v, c, up, down, d, r, o),
         NEW time, NEW w, w = OnPayload(v, o, time, Head(up)),
         NEW z, z = Emptied(w), NEW now, now = Onward(w, down),
         NEW e, Drops(d, e, down, w), NEW rest, rest = Tail(up)
  PROVE  Staged(z, c, rest, now, e, r, o)
<1>1. CASE Asked(v, c, up, down, d, r)
  BY <1>1, AskedReceives
<1>2. ASSUME NEW l \in Logins, LoggingIn(l, v, c, up, down)
      PROVE  Staged(z, c, rest, now, e, r, o)
  BY <1>2, LoginReceives
<1>3. ASSUME NEW l \in Logins, Apart(l, v, c, up, down, o)
      PROVE  Staged(z, c, rest, now, e, r, o)
  BY <1>3, ApartReceives
<1>4. ASSUME NEW l \in Logins, Open(l, v, c, up, down, d, o)
      PROVE  Staged(z, c, rest, now, e, r, o)
  <2>1. UpOpen(l, v, c, up, o) /\ DownOpen(v, c, down, d)
    BY <1>4 DEF Open
  <2>2. StaysOpen(l, z, c, rest, now, e, o)
    BY <2>1, OpenReceives
  <2> QED
    BY <2>2 DEF InStage, Open, StaysOpen, Staged
<1>5. ~ Answering(v, c, up, down) /\ ~ Lost(v, c, up, down, d, r)
      /\ \A l \in Logins : ~ Refusing(l, v, c, up, down) /\ ~ Greeting(l, v, c, up, down, o)
  BY DEF Answering, Lost, Refusing, Greeting
<1> QED
  BY <1>1, <1>2, <1>3, <1>4, <1>5 DEF InStage, Staged

-----------------------------------------------------------------------------
(* What the client makes of a packet.                                       *)

Same(c, n) ==
  /\ IsClient(n) /\ n.key = c.key /\ n.login = c.login /\ n.taken = c.taken /\ n.sent = c.sent
  /\ n.trips = c.trips

AreaTo(c, x) == [c EXCEPT !.area = x]
ColumnsTo(c, x) == [c EXCEPT !.columns = @ \cup {x}]
TakenTo(c, t) == [c EXCEPT !.taken = t]
SentTo(c, t) == [c EXCEPT !.sent = t]

\* A client's record, field by field.
LEMMA PhaseSet ==
  ASSUME NEW c, IsClient(c), NEW x, NEW n, n = As(c, x)
  PROVE  Same(c, n) /\ n.phase = x /\ n.area = c.area /\ n.columns = c.columns
<1>1. n = [phase |-> x, key |-> c.key, login |-> c.login, taken |-> c.taken, sent |-> c.sent,
           at |-> c.at, area |-> c.area, columns |-> c.columns, trips |-> c.trips]
  BY DEF IsClient, As
<1>2. c.taken \in Nat /\ c.sent \in Nat /\ c.trips \in Nat /\ c.at \in {0, 50} \cup Places
      /\ (c.trips = 0 => c.at \in {0, 50})
  BY DEF IsClient
<1>3. /\ n.phase = x /\ n.key = c.key /\ n.login = c.login /\ n.taken = c.taken /\ n.sent = c.sent
      /\ n.at = c.at /\ n.area = c.area /\ n.columns = c.columns /\ n.trips = c.trips
  BY <1>1
<1>4. IsClient(n)
  BY <1>1, <1>2, <1>3 DEF IsClient
<1> QED
  BY <1>3, <1>4 DEF Same

LEMMA WorldSet ==
  ASSUME NEW c, IsClient(c), NEW x, NEW n, n = [c EXCEPT !.phase = x, !.at = 50]
  PROVE  Same(c, n) /\ n.phase = x /\ n.area = c.area /\ n.columns = c.columns
<1>1. n = [phase |-> x, key |-> c.key, login |-> c.login, taken |-> c.taken, sent |-> c.sent,
           at |-> 50, area |-> c.area, columns |-> c.columns, trips |-> c.trips]
  BY DEF IsClient
<1>2. c.taken \in Nat /\ c.sent \in Nat /\ c.trips \in Nat
  BY DEF IsClient
<1>3. /\ n.phase = x /\ n.key = c.key /\ n.login = c.login /\ n.taken = c.taken /\ n.sent = c.sent
      /\ n.at = 50 /\ n.area = c.area /\ n.columns = c.columns /\ n.trips = c.trips
  BY <1>1
<1>4. IsClient(n)
  BY <1>1, <1>2, <1>3 DEF IsClient
<1> QED
  BY <1>3, <1>4 DEF Same

LEMMA AreaSet ==
  ASSUME NEW c, IsClient(c), NEW x, NEW n, n = AreaTo(c, x)
  PROVE  Same(c, n) /\ n.phase = c.phase /\ n.area = x /\ n.columns = c.columns
<1>1. n = [phase |-> c.phase, key |-> c.key, login |-> c.login, taken |-> c.taken, sent |-> c.sent,
           at |-> c.at, area |-> x, columns |-> c.columns, trips |-> c.trips]
  BY DEF IsClient, AreaTo
<1>2. c.taken \in Nat /\ c.sent \in Nat /\ c.trips \in Nat /\ c.at \in {0, 50} \cup Places
      /\ (c.trips = 0 => c.at \in {0, 50})
  BY DEF IsClient
<1>3. /\ n.phase = c.phase /\ n.key = c.key /\ n.login = c.login /\ n.taken = c.taken /\ n.sent = c.sent
      /\ n.at = c.at /\ n.area = x /\ n.columns = c.columns /\ n.trips = c.trips
  BY <1>1
<1>4. IsClient(n)
  BY <1>1, <1>2, <1>3 DEF IsClient
<1> QED
  BY <1>3, <1>4 DEF Same

LEMMA ColumnsSet ==
  ASSUME NEW c, IsClient(c), NEW x, NEW n, n = ColumnsTo(c, x)
  PROVE  Same(c, n) /\ n.phase = c.phase /\ n.area = c.area /\ n.columns = c.columns \cup {x}
<1> DEFINE more == c.columns \cup {x}
<1>1. n = [phase |-> c.phase, key |-> c.key, login |-> c.login, taken |-> c.taken, sent |-> c.sent,
           at |-> c.at, area |-> c.area, columns |-> more, trips |-> c.trips]
  <2>1. n = [c EXCEPT !.columns = more]
    BY DEF ColumnsTo
  <2> HIDE DEF more
  <2> QED
    BY <2>1 DEF IsClient
<1>2. c.taken \in Nat /\ c.sent \in Nat /\ c.trips \in Nat /\ c.at \in {0, 50} \cup Places
      /\ (c.trips = 0 => c.at \in {0, 50})
  BY DEF IsClient
<1> HIDE DEF more
<1>3. /\ n.phase = c.phase /\ n.key = c.key /\ n.login = c.login /\ n.taken = c.taken /\ n.sent = c.sent
      /\ n.at = c.at /\ n.area = c.area /\ n.columns = more /\ n.trips = c.trips
  BY <1>1
<1>4. IsClient(n)
  BY <1>1, <1>2, <1>3 DEF IsClient
<1> QED
  BY <1>3, <1>4 DEF Same, more

Still(c, n) ==
  /\ n.phase = c.phase /\ n.key = c.key /\ n.login = c.login /\ n.taken = c.taken
  /\ n.at = c.at /\ n.area = c.area /\ n.columns = c.columns /\ n.trips = c.trips

Took(c, t, n) ==
  /\ IsClient(n) /\ n.phase = c.phase /\ n.key = c.key /\ n.login = c.login /\ n.taken = t
  /\ n.sent = c.sent /\ n.at = c.at /\ n.area = c.area /\ n.columns = c.columns
  /\ n.trips = c.trips

LEMMA TakenSet ==
  ASSUME NEW c, IsClient(c), NEW t \in Nat, NEW n, n = TakenTo(c, t)
  PROVE  Took(c, t, n)
<1>1. n = [phase |-> c.phase, key |-> c.key, login |-> c.login, taken |-> t, sent |-> c.sent,
           at |-> c.at, area |-> c.area, columns |-> c.columns, trips |-> c.trips]
  BY DEF IsClient, TakenTo
<1>2. c.sent \in Nat /\ c.trips \in Nat /\ c.at \in {0, 50} \cup Places
      /\ (c.trips = 0 => c.at \in {0, 50})
  BY DEF IsClient
<1>3. /\ n.phase = c.phase /\ n.key = c.key /\ n.login = c.login /\ n.taken = t /\ n.sent = c.sent
      /\ n.at = c.at /\ n.area = c.area /\ n.columns = c.columns /\ n.trips = c.trips
  BY <1>1
<1>4. IsClient(n)
  BY <1>1, <1>2, <1>3 DEF IsClient
<1> QED
  BY <1>3, <1>4 DEF Took

LEMMA SentSet ==
  ASSUME NEW c, IsClient(c), NEW t \in Nat, NEW n, n = SentTo(c, t)
  PROVE  IsClient(n) /\ Still(c, n) /\ n.sent = t
<1>1. n = [phase |-> c.phase, key |-> c.key, login |-> c.login, taken |-> c.taken, sent |-> t,
           at |-> c.at, area |-> c.area, columns |-> c.columns, trips |-> c.trips]
  BY DEF IsClient, SentTo
<1>2. c.taken \in Nat /\ c.trips \in Nat /\ c.at \in {0, 50} \cup Places
      /\ (c.trips = 0 => c.at \in {0, 50})
  BY DEF IsClient
<1>3. /\ n.phase = c.phase /\ n.key = c.key /\ n.login = c.login /\ n.taken = c.taken /\ n.sent = t
      /\ n.at = c.at /\ n.area = c.area /\ n.columns = c.columns /\ n.trips = c.trips
  BY <1>1
<1>4. IsClient(n)
  BY <1>1, <1>2, <1>3 DEF IsClient
<1> QED
  BY <1>3, <1>4 DEF Still

-----------------------------------------------------------------------------
Fit(packets) ==
  packets = <<>> \/ (packets \in Seq(Packet) /\ \A k \in DOMAIN packets : Asks(packets[k]))

LEMMA FitOne ==
  ASSUME NEW q \in Packet, Asks(q)
  PROVE  Fit(<< q >>)
<1>1. << q >> \in Seq(Packet)
  BY OneIs
<1>2. \A k \in DOMAIN << q >> : k = 1
  OBVIOUS
<1>3. << q >>[1] = q
  OBVIOUS
<1> QED
  BY <1>1, <1>2, <1>3 DEF Fit

LEMMA FitTwo ==
  ASSUME NEW p \in Packet, Asks(p), NEW q \in Packet, Asks(q)
  PROVE  Fit(<< p, q >>)
<1>1. << p, q >> \in Seq(Packet)
  BY TwoAre
<1>2. \A k \in DOMAIN << p, q >> : k = 1 \/ k = 2
  OBVIOUS
<1>3. << p, q >>[1] = p /\ << p, q >>[2] = q
  OBVIOUS
<1> QED
  BY <1>1, <1>2, <1>3 DEF Fit

Reacts(c, m, n) ==
  /\ Same(c, n)
  /\ n.phase \in {"keyed", "packs", "world", "spawned", "refused"}
  /\ n.area = IF Publishes(m) THEN << AreaOf(m) >> ELSE c.area
  /\ n.columns = IF Draws(m) THEN c.columns \cup {Where(m)} ELSE c.columns
  /\ n.phase = "spawned" => c.phase = "spawned" \/ Spawns(m)

\* A status.
LEMMA StatusReacts ==
  ASSUME NEW c, IsClient(c), c.phase \in {"keyed", "packs", "world", "spawned", "refused"},
         NEW m, Heard(m).id = ID_PLAY_STATUS,
         NEW r \in OnStatus(c, Field(PlayStatus, m).status)
  PROVE  Reacts(c, m, r.next) /\ Fit(r.packets)
<1> DEFINE status == Field(PlayStatus, m).status
           there == As(c, "spawned")
           gone == As(c, "refused")
<1>1. ~ Publishes(m) /\ ~ Draws(m) /\ (status = Status.PlayerSpawn => Spawns(m))
  BY DEF Publishes, Draws, Spawns, ID_PLAY_STATUS, ID_LEVEL_CHUNK, ID_NETWORK_CHUNK_PUBLISHER_UPDATE
<1>2. Same(c, there) /\ there.phase = "spawned" /\ there.area = c.area /\ there.columns = c.columns
  BY PhaseSet
<1>3. Same(c, gone) /\ gone.phase = "refused" /\ gone.area = c.area /\ gone.columns = c.columns
  BY PhaseSet
<1>4. Same(c, c)
  BY DEF Same
<1>5. Fit(<< Initialized >>) /\ Fit(<< Initialized, Moved(c.at) >>) /\ Fit(<<>>)
  <2>1. c.at \in {0, 50} \cup Places
    BY DEF IsClient
  <2>2. Moved(c.at) \in Packet /\ Asks(Moved(c.at))
    BY <2>1, MovedAsked
  <2>3. Initialized \in Packet /\ Asks(Initialized)
    BY OthersAsked
  <2> DEFINE p == Initialized
             q == Moved(c.at)
  <2>5. p \in Packet /\ Asks(p) /\ q \in Packet /\ Asks(q)
    BY <2>2, <2>3
  <2> HIDE DEF p, q, Packet
  <2>4. Fit(<< p >>) /\ Fit(<< p, q >>)
    BY <2>5, FitOne, FitTwo
  <2> QED
    BY <2>4 DEF p, q, Fit
<1> HIDE DEF there, gone, status
<1>6. CASE status = Status.PlayerSpawn
  <2>3. Status.PlayerSpawn = 3 /\ Status.LoginSuccess = 0
    BY DEF Status
  <2>4. status # Status.LoginSuccess
    BY <1>6, <2>3
  <2>1. r \in Just(there, << Initialized >>) \cup Just(there, << Initialized, Moved(c.at) >>)
    BY <1>6, <2>4 DEF OnStatus, status, there
  <2>2. r.next = there /\ r.packets \in {<< Initialized >>, << Initialized, Moved(c.at) >>}
    BY <2>1 DEF Just
  <2> QED
    BY <1>1, <1>2, <1>5, <1>6, <2>2 DEF Reacts
<1>7. CASE status # Status.PlayerSpawn /\ status = Status.LoginSuccess
  <2>1. r \in Just(c, <<>>)
    BY <1>7 DEF OnStatus, status
  <2>2. r.next = c /\ r.packets = <<>>
    BY <2>1 DEF Just
  <2> QED
    BY <1>1, <1>4, <1>5, <2>2 DEF Reacts
<1>8. CASE status # Status.PlayerSpawn /\ status # Status.LoginSuccess
  <2>1. r \in Just(gone, <<>>)
    BY <1>8 DEF OnStatus, status, gone
  <2>2. r.next = gone /\ r.packets = <<>>
    BY <2>1 DEF Just
  <2> QED
    BY <1>1, <1>3, <1>5, <2>2 DEF Reacts
<1> QED
  BY <1>6, <1>7, <1>8

LEMMA ReactsIs ==
  ASSUME NEW c, IsClient(c), c.phase \in {"keyed", "packs", "world", "spawned", "refused"},
         NEW m, Spoken(m), Draws(m) => c.area # <<>> /\ Covers(c.area[1], Where(m)),
         NEW r \in Reactions(c, Heard(m))
  PROVE  Reacts(c, m, r.next) /\ Fit(r.packets)
<1> DEFINE q == Heard(m)
           packs == As(c, "packs")
           area == [c EXCEPT !.area = << AreaOf(m) >>]
           world == [c EXCEPT !.phase = "world", !.at = 50]
           more == [c EXCEPT !.columns = @ \cup {Where(m)}]
<1>1. q.id \notin {ID_NETWORK_SETTINGS, ID_SERVER_TO_CLIENT_HANDSHAKE}
  BY DEF Spoken
<1>2. Same(c, c) /\ Fit(<<>>)
  BY DEF Same, Fit
<1>3. Same(c, packs) /\ packs.phase = "packs" /\ packs.area = c.area /\ packs.columns = c.columns
  BY PhaseSet
<1>4. Same(c, world) /\ world.phase = "world" /\ world.area = c.area /\ world.columns = c.columns
  BY WorldSet
<1>5. Same(c, area) /\ area.phase = c.phase /\ area.area = << AreaOf(m) >> /\ area.columns = c.columns
  <2> DEFINE x == << AreaOf(m) >>
  <2>1. area = AreaTo(c, x)
    BY DEF AreaTo
  <2> HIDE DEF x, area
  <2>2. Same(c, area) /\ area.phase = c.phase /\ area.area = x /\ area.columns = c.columns
    BY <2>1, AreaSet
  <2> QED
    BY <2>2 DEF x
<1>6. Same(c, more) /\ more.phase = c.phase /\ more.area = c.area
      /\ more.columns = c.columns \cup {Where(m)}
  <2> DEFINE x == Where(m)
  <2>1. more = ColumnsTo(c, x)
    BY DEF ColumnsTo
  <2> HIDE DEF x, more
  <2>2. Same(c, more) /\ more.phase = c.phase /\ more.area = c.area /\ more.columns = c.columns \cup {x}
    BY <2>1, ColumnsSet
  <2> QED
    BY <2>2 DEF x
<1>7. Fit(<< Answered("HaveAllPacks") >>) /\ Fit(<< Answered("Completed") >>)
  <2> DEFINE p == Answered("HaveAllPacks")
             s == Answered("Completed")
  <2>1. {"HaveAllPacks", "Completed"} \subseteq DOMAIN Responses
    BY DEF Responses
  <2>2. p \in Packet /\ Asks(p) /\ s \in Packet /\ Asks(s)
    BY <2>1, OthersAsked
  <2> HIDE DEF p, s, Packet
  <2>3. Fit(<< p >>) /\ Fit(<< s >>)
    BY <2>2, FitOne
  <2> QED
    BY <2>3 DEF p, s
<1>8. \A radius \in Radii : Fit(<< RadiusWanted(radius) >>)
  <2> SUFFICES ASSUME NEW radius \in Radii PROVE Fit(<< RadiusWanted(radius) >>)
    OBVIOUS
  <2> DEFINE p == RadiusWanted(radius)
  <2>1. p \in Packet /\ Asks(p)
    BY RadiusAsked
  <2> HIDE DEF p, Packet
  <2>2. Fit(<< p >>)
    BY <2>1, FitOne
  <2> QED
    BY <2>2 DEF p
<1> HIDE DEF packs, area, world, more
<1> DEFINE ofStatus == OnStatus(c, Field(PlayStatus, m).status)
           ofPacks == Just(As(c, "packs"), << Answered("HaveAllPacks") >>) \cup
                      Just(As(c, "packs"), << Answered("Completed") >>)
           ofStack == Just(c, << Answered("Completed") >>)
           ofWorld == {[next |-> [c EXCEPT !.phase = "world", !.at = Field(StartGame, m).x],
                        packets |-> << RadiusWanted(radius) >>] : radius \in Radii}
           ofArea == Just([c EXCEPT !.area = << [x |-> Field(PublisherUpdate, m).x,
                                                 radius |-> Field(PublisherUpdate, m).radius] >>], <<>>)
           column == Field(LevelChunk, m)
           ofColumn == Just(IF Keeps(c, column) THEN [c EXCEPT !.columns = @ \cup {column.x}] ELSE c, <<>>)
           ofLogin == {[next    |-> [c EXCEPT !.phase = "login", !.login = << l >>],
                        packets |-> << EncodeLogin(l.protocol, << l.token >>, l.holds) >>] : l \in Logins}
           ofKey == Just([c EXCEPT !.phase = "keyed",
                                   !.key = Agree(Field(HandshakeToken, m).token[1], c.login[1].holds)],
                         << NewPacket(ID_CLIENT_TO_SERVER_HANDSHAKE, <<>>) >>)
           ofOther == Just(c, <<>>)
<1>20. Reactions(c, q) =
         CASE q.id = ID_NETWORK_SETTINGS -> ofLogin
           [] q.id = ID_SERVER_TO_CLIENT_HANDSHAKE -> ofKey
           [] q.id = ID_PLAY_STATUS -> ofStatus
           [] q.id = ID_RESOURCE_PACKS_INFO -> ofPacks
           [] q.id = ID_RESOURCE_PACK_STACK -> ofStack
           [] q.id = ID_START_GAME -> ofWorld
           [] q.id = ID_NETWORK_CHUNK_PUBLISHER_UPDATE -> ofArea
           [] q.id = ID_LEVEL_CHUNK -> ofColumn
           [] OTHER -> ofOther
  BY DEF Reactions, Field
<1> HIDE DEF ofStatus, ofPacks, ofStack, ofWorld, ofArea, column, ofColumn, ofLogin, ofKey, ofOther
<1>21. /\ q.id = ID_PLAY_STATUS => r \in ofStatus
       /\ q.id = ID_RESOURCE_PACKS_INFO => r \in ofPacks
       /\ q.id = ID_RESOURCE_PACK_STACK => r \in ofStack
       /\ q.id = ID_START_GAME => r \in ofWorld
       /\ q.id = ID_NETWORK_CHUNK_PUBLISHER_UPDATE => r \in ofArea
       /\ q.id = ID_LEVEL_CHUNK => r \in ofColumn
       /\ q.id \notin {ID_PLAY_STATUS, ID_RESOURCE_PACKS_INFO, ID_RESOURCE_PACK_STACK, ID_START_GAME,
                        ID_NETWORK_CHUNK_PUBLISHER_UPDATE, ID_LEVEL_CHUNK} => r \in ofOther
  <2>1. ASSUME q.id = ID_PLAY_STATUS PROVE r \in ofStatus
    BY <1>20, <2>1
       DEF ID_NETWORK_SETTINGS, ID_SERVER_TO_CLIENT_HANDSHAKE, ID_PLAY_STATUS,
                   ID_RESOURCE_PACKS_INFO, ID_RESOURCE_PACK_STACK, ID_START_GAME,
                   ID_NETWORK_CHUNK_PUBLISHER_UPDATE, ID_LEVEL_CHUNK
  <2>2. ASSUME q.id = ID_RESOURCE_PACKS_INFO PROVE r \in ofPacks
    BY <1>20, <2>2
       DEF ID_NETWORK_SETTINGS, ID_SERVER_TO_CLIENT_HANDSHAKE, ID_PLAY_STATUS,
                   ID_RESOURCE_PACKS_INFO, ID_RESOURCE_PACK_STACK, ID_START_GAME,
                   ID_NETWORK_CHUNK_PUBLISHER_UPDATE, ID_LEVEL_CHUNK
  <2>3. ASSUME q.id = ID_RESOURCE_PACK_STACK PROVE r \in ofStack
    BY <1>20, <2>3
       DEF ID_NETWORK_SETTINGS, ID_SERVER_TO_CLIENT_HANDSHAKE, ID_PLAY_STATUS,
                   ID_RESOURCE_PACKS_INFO, ID_RESOURCE_PACK_STACK, ID_START_GAME,
                   ID_NETWORK_CHUNK_PUBLISHER_UPDATE, ID_LEVEL_CHUNK
  <2>4. ASSUME q.id = ID_START_GAME PROVE r \in ofWorld
    BY <1>20, <2>4
       DEF ID_NETWORK_SETTINGS, ID_SERVER_TO_CLIENT_HANDSHAKE, ID_PLAY_STATUS,
                   ID_RESOURCE_PACKS_INFO, ID_RESOURCE_PACK_STACK, ID_START_GAME,
                   ID_NETWORK_CHUNK_PUBLISHER_UPDATE, ID_LEVEL_CHUNK
  <2>5. ASSUME q.id = ID_NETWORK_CHUNK_PUBLISHER_UPDATE PROVE r \in ofArea
    BY <1>20, <2>5
       DEF ID_NETWORK_SETTINGS, ID_SERVER_TO_CLIENT_HANDSHAKE, ID_PLAY_STATUS,
                   ID_RESOURCE_PACKS_INFO, ID_RESOURCE_PACK_STACK, ID_START_GAME,
                   ID_NETWORK_CHUNK_PUBLISHER_UPDATE, ID_LEVEL_CHUNK
  <2>6. ASSUME q.id = ID_LEVEL_CHUNK PROVE r \in ofColumn
    BY <1>20, <2>6
       DEF ID_NETWORK_SETTINGS, ID_SERVER_TO_CLIENT_HANDSHAKE, ID_PLAY_STATUS,
                   ID_RESOURCE_PACKS_INFO, ID_RESOURCE_PACK_STACK, ID_START_GAME,
                   ID_NETWORK_CHUNK_PUBLISHER_UPDATE, ID_LEVEL_CHUNK
  <2>7. ASSUME q.id \notin {ID_PLAY_STATUS, ID_RESOURCE_PACKS_INFO, ID_RESOURCE_PACK_STACK, ID_START_GAME,
                             ID_NETWORK_CHUNK_PUBLISHER_UPDATE, ID_LEVEL_CHUNK}
        PROVE  r \in ofOther
    BY <1>1, <1>20, <2>7
  <2> QED
    BY <2>1, <2>2, <2>3, <2>4, <2>5, <2>6, <2>7
<1>9. CASE q.id = ID_PLAY_STATUS
  <2>1. r \in OnStatus(c, Field(PlayStatus, m).status)
    BY <1>9, <1>21 DEF ofStatus
  <2> QED
    BY <1>9, <2>1, StatusReacts
<1>10. CASE q.id = ID_RESOURCE_PACKS_INFO
  <2>1. r \in Just(packs, << Answered("HaveAllPacks") >>) \cup Just(packs, << Answered("Completed") >>)
    BY <1>10, <1>21 DEF packs, ofPacks
  <2>2. r.next = packs /\ Fit(r.packets)
    BY <1>7, <2>1 DEF Just
  <2>3. ~ Publishes(m) /\ ~ Draws(m)
    BY <1>10 DEF Publishes, Draws, ID_RESOURCE_PACKS_INFO, ID_LEVEL_CHUNK, ID_NETWORK_CHUNK_PUBLISHER_UPDATE
  <2> QED
    BY <1>3, <2>2, <2>3 DEF Reacts
<1>11. CASE q.id = ID_RESOURCE_PACK_STACK
  <2>1. r \in Just(c, << Answered("Completed") >>)
    BY <1>11, <1>21 DEF ofStack
  <2>2. r.next = c /\ Fit(r.packets)
    BY <1>7, <2>1 DEF Just
  <2>3. ~ Publishes(m) /\ ~ Draws(m)
    BY <1>11 DEF Publishes, Draws, ID_RESOURCE_PACK_STACK, ID_LEVEL_CHUNK, ID_NETWORK_CHUNK_PUBLISHER_UPDATE
  <2> QED
    BY <1>2, <2>2, <2>3 DEF Reacts
<1>12. CASE q.id = ID_START_GAME
  <2>1. Field(StartGame, m).x = 50
    BY <1>12 DEF Spoken
  <2>2. PICK radius \in Radii :
          r = [next |-> [c EXCEPT !.phase = "world", !.at = Field(StartGame, m).x],
               packets |-> << RadiusWanted(radius) >>]
    BY <1>12, <1>21 DEF ofWorld
  <2>3. r.next = world /\ Fit(r.packets)
    BY <1>8, <2>1, <2>2 DEF world
  <2>4. ~ Publishes(m) /\ ~ Draws(m)
    BY <1>12 DEF Publishes, Draws, ID_START_GAME, ID_LEVEL_CHUNK, ID_NETWORK_CHUNK_PUBLISHER_UPDATE
  <2> QED
    BY <1>4, <2>3, <2>4 DEF Reacts
<1>13. CASE q.id = ID_NETWORK_CHUNK_PUBLISHER_UPDATE
  <2>1. r \in Just([c EXCEPT !.area = << [x |-> Field(PublisherUpdate, m).x,
                                          radius |-> Field(PublisherUpdate, m).radius] >>], <<>>)
    BY <1>13, <1>21 DEF ofArea
  <2>2. r \in Just(area, <<>>)
    BY <2>1 DEF area, AreaOf
  <2>3. r.next = area /\ r.packets = <<>>
    BY <2>2 DEF Just
  <2>4. Publishes(m) /\ ~ Draws(m)
    BY <1>13 DEF Publishes, Draws, ID_LEVEL_CHUNK, ID_NETWORK_CHUNK_PUBLISHER_UPDATE
  <2> QED
    BY <1>2, <1>5, <2>3, <2>4 DEF Reacts
<1>14. CASE q.id = ID_LEVEL_CHUNK
  <2>1. r \in Just(IF Keeps(c, column) THEN [c EXCEPT !.columns = @ \cup {column.x}] ELSE c, <<>>)
    BY <1>14, <1>21 DEF ofColumn
  <2>2. ~ Publishes(m) /\ Draws(m)
    BY <1>14 DEF Publishes, Draws, ID_LEVEL_CHUNK, ID_NETWORK_CHUNK_PUBLISHER_UPDATE
  <2>3. IsColumn(q, Where(m)) /\ c.area # <<>> /\ Covers(c.area[1], column.x) /\ Where(m) = column.x
    BY <2>2 DEF Spoken, Where, column
  <2>4. column.payload = ColumnBytes /\ column.subchunks = Len(Ground)
    BY <2>3 DEF IsColumn, Field, column
  <2>5. SubSeq(Ground, 1, Len(Ground)) = Ground
    <3> DEFINE ground == Ground
    <3>1. ground \in Seq(Nat)
      BY WireAssumption
    <3> HIDE DEF ground
    <3>2. SubSeq(ground, 1, Len(ground)) = ground
      BY <3>1
    <3> QED
      BY <3>2 DEF ground
  <2>6. Keeps(c, column)
    <3>1. column.payload = ColumnPayload(SubSeq(Ground, 1, column.subchunks))
      BY <2>4, <2>5 DEF ColumnBytes
    <3> QED
      BY <2>3, <3>1 DEF Keeps, Covers
  <2>7. more = [c EXCEPT !.columns = @ \cup {column.x}]
    BY <2>3 DEF more
  <2>8. r.next = more /\ r.packets = <<>>
    BY <2>1, <2>6, <2>7 DEF Just
  <2> QED
    BY <1>2, <1>6, <2>2, <2>8 DEF Reacts
<1>15. CASE q.id \notin {ID_PLAY_STATUS, ID_RESOURCE_PACKS_INFO, ID_RESOURCE_PACK_STACK, ID_START_GAME,
                         ID_NETWORK_CHUNK_PUBLISHER_UPDATE, ID_LEVEL_CHUNK}
  <2>1. r \in Just(c, <<>>)
    BY <1>15, <1>21 DEF ofOther
  <2>2. r.next = c /\ r.packets = <<>>
    BY <2>1 DEF Just
  <2>3. ~ Publishes(m) /\ ~ Draws(m)
    BY <1>15 DEF Publishes, Draws
  <2> QED
    BY <1>2, <2>2, <2>3 DEF Reacts
<1> QED
  BY <1>9, <1>10, <1>11, <1>12, <1>13, <1>14, <1>15

-----------------------------------------------------------------------------
(* What an open client sends.                                               *)

Heeding(c) == TakenTo(c, IF c.taken = 0 /\ c.key = <<>> THEN 0 ELSE c.taken + 1)
Sending(n, out) == SentTo(n, IF n.key = <<>> THEN n.sent ELSE n.sent + Len(out))

Longer(w, up, key, first) ==
  /\ IsSeq(w) /\ Len(w) = Len(up) + 1 /\ Len(up) \in Nat
  /\ Numbered(w, key, first) /\ \A i \in DOMAIN w : Wanted(w[i])

\* The next payload of the client.
LEMMA NumberedAppend ==
  ASSUME NEW up, IsSeq(up), NEW key, NEW first \in Nat, Numbered(up, key, first),
         NEW m, m.key = key, m.n = first + Len(up), Wanted(m),
         \A i \in DOMAIN up : Wanted(up[i]), NEW w, w = Append(up, m)
  PROVE  Longer(w, up, key, first)
<1>1. /\ IsSeq(w) /\ Len(w) = Len(up) + 1 /\ DOMAIN w = 1 .. (Len(up) + 1)
      /\ w[Len(up) + 1] = m /\ (\A i \in 1 .. Len(up) : w[i] = up[i])
      /\ DOMAIN up = 1 .. Len(up) /\ Len(up) \in Nat
  <2>1. IsSeq(w) /\ Len(w) = Len(up) + 1
    BY Appended
  <2>2. DOMAIN w = 1 .. (Len(up) + 1)
    BY Appended
  <2>3. w[Len(up) + 1] = m
    BY Appended
  <2>4. \A i \in 1 .. Len(up) : w[i] = up[i]
    BY Appended
  <2>5. DOMAIN up = 1 .. Len(up) /\ Len(up) \in Nat
    BY SeqIs
  <2> QED
    BY <2>1, <2>2, <2>3, <2>4, <2>5
<1>2. Numbered(w, key, first)
  BY NumberedOn
<1>3. ASSUME NEW i \in DOMAIN w PROVE Wanted(w[i])
  <2> DEFINE k == Len(up)
  <2>1. k \in Nat /\ i \in 1 .. (k + 1) /\ DOMAIN up = 1 .. k
    BY <1>1
  <2> HIDE DEF k
  <2>2. i = k + 1 \/ i \in 1 .. k
    BY <2>1
  <2>3. CASE i = k + 1
    BY <1>1, <2>3 DEF k
  <2>4. CASE i \in 1 .. k
    <3>1. w[i] = up[i]
      BY <1>1, <2>4 DEF k
    <3>2. i \in DOMAIN up
      BY <2>1, <2>4
    <3> QED
      BY <3>1, <3>2
  <2> QED
    BY <2>2, <2>3, <2>4
<1> QED
  BY <1>1, <1>2, <1>3 DEF Longer

\* What an open client sends keeps its session open.
LEMMA OpenSends ==
  ASSUME NEW v, NEW l, NEW n, NEW up, NEW o, UpOpen(l, v, n, up, o), NEW packets, Fit(packets),
         NEW out, out = Batched(n, packets), NEW c, c = Sending(n, out), NEW after, after = up \o out
  PROVE  UpOpen(l, v, c, after, o) /\ Still(n, c)
<1>1. /\ n.login = << l >> /\ Vouched(l) /\ Shared(l, o) # <<>> /\ n.key = Shared(l, o)
      /\ IsClient(n) /\ n.phase \in {"keyed", "packs", "world", "spawned", "refused", "stuck"}
      /\ v.settled /\ v.cipher # <<>> /\ v.cipher[1].key = Shared(l, o) /\ v.cipher[1].aligned = TRUE
      /\ v.cipher[1].received \in Nat /\ v.cipher[1].sent \in Nat
      /\ IsSeq(up) /\ v.cipher[1].received + Len(up) = n.sent
      /\ Numbered(up, n.key, v.cipher[1].received) /\ \A i \in DOMAIN up : Wanted(up[i])
  BY DEF UpOpen
<1>2. n.sent \in Nat
  BY <1>1 DEF IsClient
<1> DEFINE k == v.cipher[1].received
<1>3. c = SentTo(n, n.sent + Len(out))
  BY <1>1 DEF Sending
<1>4. CASE packets = <<>>
  <2>1. out = <<>>
    BY <1>4 DEF Batched
  <2>2. Len(out) = 0
    BY <2>1
  <2>3. c = SentTo(n, n.sent)
    BY <1>2, <1>3, <2>2
  <2>4. /\ IsClient(c) /\ c.phase = n.phase /\ c.key = n.key /\ c.login = n.login
        /\ c.taken = n.taken /\ c.sent = n.sent
        /\ c.at = n.at /\ c.area = n.area /\ c.columns = n.columns /\ c.trips = n.trips
    <3>1. IsClient(c) /\ Still(n, c) /\ c.sent = n.sent
      BY <1>1, <1>2, <2>3, SentSet
    <3> QED
      BY <3>1 DEF Still
  <2>5. after = up
    BY <1>1, <2>1, JoinedNothing
  <2> QED
    BY <1>1, <2>4, <2>5 DEF UpOpen, Still
<1>5. CASE packets # <<>>
  <2> DEFINE m == [key |-> n.key, n |-> n.sent, bytes |-> EncodeWithMethod(packets)]
  <2>1. out = << m >>
    BY <1>1, <1>5 DEF Batched
  <2>2. m.key = n.key /\ m.n = n.sent /\ m.bytes = EncodeWithMethod(packets)
    OBVIOUS
  <2>3. packets \in Seq(Packet) /\ \A i \in DOMAIN packets : Asks(packets[i])
    BY <1>5 DEF Fit
  <2> HIDE DEF m, Packet
  <2>4. Wanted(m)
    BY <2>2, <2>3, WantedIs
  <2>5. Len(out) = 1
    BY <2>1
  <2> DEFINE more == n.sent + 1
  <2>6. c = SentTo(n, more) /\ more \in Nat
    BY <1>2, <1>3, <2>5
  <2> HIDE DEF more
  <2>7. /\ IsClient(c) /\ c.phase = n.phase /\ c.key = n.key /\ c.login = n.login
        /\ c.taken = n.taken /\ c.sent = more
        /\ c.at = n.at /\ c.area = n.area /\ c.columns = n.columns /\ c.trips = n.trips
    <3>2. IsClient(n)
      BY <1>1
    <3>1. IsClient(c) /\ Still(n, c) /\ c.sent = more
      BY <2>6, <3>2, SentSet
    <3> QED
      BY <3>1 DEF Still
  <2>8. after = Append(up, m)
    <3>1. up \in Seq({up[i] : i \in DOMAIN up})
      BY <1>1 DEF IsSeq
    <3> DEFINE S == {up[i] : i \in DOMAIN up} \cup {m}
    <3>2. up \in Seq(S) /\ m \in S
      BY <3>1
    <3> HIDE DEF S
    <3>3. up \o << m >> = Append(up, m)
      BY <3>2
    <3> QED
      BY <2>1, <3>3
  <2> HIDE DEF k
  <2>9. m.n = k + Len(up) /\ k \in Nat
    BY <1>1, <2>2 DEF k
  <2>10. IsSeq(up) /\ Numbered(up, n.key, k) /\ \A i \in DOMAIN up : Wanted(up[i])
    BY <1>1 DEF k
  <2> DEFINE key == n.key
  <2>11. m.key = key /\ Numbered(up, key, k)
    BY <2>2, <2>10
  <2> HIDE DEF key
  <2>12. /\ IsSeq(after) /\ Len(after) = Len(up) + 1 /\ Len(up) \in Nat
         /\ Numbered(after, key, k) /\ \A i \in DOMAIN after : Wanted(after[i])
    <3>1. Longer(after, up, key, k)
      BY <2>4, <2>8, <2>9, <2>10, <2>11, NumberedAppend
    <3> QED
      BY <3>1 DEF Longer
  <2>13. k + Len(after) = c.sent
    <3>1. k + Len(up) = n.sent
      BY <1>1 DEF k
    <3> QED
      BY <1>2, <2>7, <2>9, <2>12, <3>1 DEF more
  <2> QED
    BY <1>1, <2>7, <2>12, <2>13 DEF UpOpen, Still, k, key
<1> QED
  BY <1>4, <1>5

-----------------------------------------------------------------------------
(* What is left when it has read a payload.                                 *)

\* A payload of the server is read.
LEMMA DownRead ==
  ASSUME NEW v, NEW c, NEW down, NEW d, DownOpen(v, c, down, d), down # <<>>,
         IsClient(c), c.phase # "stuck",
         NEW t, t = TakenTo(c, c.taken + 1), NEW n, Reacts(t, down[1], n),
         NEW rest, rest = Tail(down)
  PROVE  DownOpen(v, n, rest, d)
<1>1. /\ IsSeq(down) /\ \A i \in DOMAIN down : down[i].key = c.key /\ Spoken(down[i])
      /\ InArea(c.area, down) /\ Led(c.columns, down)
      /\ (c.area # <<>> => IsOne(c.area))
      /\ (c.phase = "spawned" => {-1, 0, 1} \subseteq c.columns)
  BY DEF DownOpen, Heeded
<1>2. /\ ~ d => /\ v.cipher[1].sent = c.taken + Len(down) /\ Numbered(down, c.key, c.taken)
                /\ v.player # <<>> => v.player[1].sent \subseteq c.columns \cup Drawn(down)
  BY DEF DownOpen, InStep
<1> DEFINE m == down[1]
           more == c.taken + 1
<1>3. c.taken \in Nat /\ more \in Nat /\ t = TakenTo(c, more)
  BY DEF IsClient
<1> HIDE DEF more
<1>4. t.phase = c.phase /\ t.key = c.key /\ t.taken = more /\ t.area = c.area /\ t.columns = c.columns
  <2>1. Took(c, more, t)
    BY <1>3, TakenSet
  <2> QED
    BY <2>1 DEF Took
<1>5. /\ n.key = c.key /\ n.taken = more
      /\ n.phase \in {"keyed", "packs", "world", "spawned", "refused"}
      /\ n.area = (IF Publishes(m) THEN << AreaOf(m) >> ELSE c.area)
      /\ n.columns = (IF Draws(m) THEN c.columns \cup {Where(m)} ELSE c.columns)
      /\ (n.phase = "spawned" => c.phase = "spawned" \/ Spawns(m))
  BY <1>4 DEF Reacts, Same
<1>6. /\ IsSeq(rest) /\ Len(down) \in Nat /\ Len(down) >= 1 /\ Len(rest) = Len(down) - 1
      /\ DOMAIN rest = 1 .. (Len(down) - 1) /\ DOMAIN down = 1 .. Len(down)
      /\ \A i \in 1 .. (Len(down) - 1) : rest[i] = down[i + 1]
  BY <1>1, Untailed
<1>7. \A i \in DOMAIN rest : rest[i].key = n.key /\ Spoken(rest[i])
  <2> DEFINE k == Len(down)
  <2> HIDE DEF k
  <2>1. k \in Nat /\ DOMAIN rest = 1 .. (k - 1) /\ DOMAIN down = 1 .. k
        /\ \A i \in 1 .. (k - 1) : rest[i] = down[i + 1]
    BY <1>6 DEF k
  <2>2. \A i \in DOMAIN rest : i + 1 \in DOMAIN down /\ rest[i] = down[i + 1]
    BY <2>1
  <2> QED
    BY <1>1, <1>5, <2>2
<1>8. InArea(n.area, rest)
  <2> DEFINE area == n.area
             before == c.area
  <2>1. area = (IF Publishes(down[1]) THEN << AreaOf(down[1]) >> ELSE before) /\ InArea(before, down)
    BY <1>1, <1>5
  <2> HIDE DEF area, before, m
  <2>2. InArea(area, Tail(down))
    BY <1>1, <2>1, InAreaRead
  <2> QED
    BY <2>2 DEF area
<1>9. c.columns \subseteq n.columns /\ (Draws(m) => Where(m) \in n.columns)
  BY <1>5
<1>10. Led(n.columns, rest)
  <2> DEFINE columns == n.columns
             before == c.columns
  <2>1. before \subseteq columns /\ (Draws(down[1]) => Where(down[1]) \in columns) /\ Led(before, down)
    BY <1>1, <1>9
  <2> HIDE DEF columns, before, m
  <2>2. Led(columns, Tail(down))
    BY <1>1, <2>1, LedRead
  <2> QED
    BY <2>2 DEF columns
<1>11. n.area # <<>> => IsOne(n.area)
  <2>1. IsOne(<< AreaOf(m) >>)
    BY DEF IsOne
  <2> QED
    BY <1>1, <1>5, <2>1
<1>12. n.phase = "spawned" => {-1, 0, 1} \subseteq n.columns
  <2> DEFINE columns == c.columns
  <2>1. Led(columns, down)
    BY <1>1
  <2> HIDE DEF columns
  <2>2. Spawns(m) => {-1, 0, 1} \subseteq columns
    BY <1>1, <2>1, HeadLed
  <2> QED
    BY <1>1, <1>5, <1>9, <2>2 DEF columns
<1>13. ASSUME ~ d PROVE InStep(v, n, rest)
  <2>1. v.cipher[1].sent = c.taken + Len(down) /\ Numbered(down, c.key, c.taken)
        /\ (v.player # <<>> => v.player[1].sent \subseteq c.columns \cup Drawn(down))
    BY <1>2, <1>13
  <2> DEFINE key == c.key
             first == c.taken
             columns == n.columns
             k == Len(down)
  <2>2. Numbered(down, key, first) /\ first \in Nat /\ (Draws(down[1]) => Where(down[1]) \in columns)
    BY <1>3, <1>9, <2>1
  <2> HIDE DEF key, first, columns, m
  <2>3. Numbered(Tail(down), key, first + 1)
    BY <1>1, <2>2, NumberedRead
  <2>4. Drawn(down) \subseteq columns \cup Drawn(Tail(down))
    BY <1>1, <2>2, DrawnRead
  <2>5. Numbered(rest, n.key, n.taken)
    BY <1>5, <2>3 DEF key, first, more
  <2>6. v.player # <<>> => v.player[1].sent \subseteq n.columns \cup Drawn(rest)
    BY <1>9, <2>1, <2>4 DEF columns
  <2>7. v.cipher[1].sent = n.taken + Len(rest)
    BY <1>3, <1>5, <1>6, <2>1 DEF more
  <2>8. n.phase # "stuck"
    BY <1>5
  <2> QED
    BY <2>5, <2>6, <2>7, <2>8 DEF InStep
<1>14. Heeded(n, rest)
  BY <1>8, <1>10, <1>11, <1>12 DEF Heeded
<1> QED
  BY <1>6, <1>7, <1>13, <1>14 DEF DownOpen

Takings(c, m, up, n, after) ==
  LET got == Opened(c, m)
  IN IF got.ok /\ Len(got.value) = 1
       THEN \E r \in Reactions(Heeding(c), got.value[1]) :
              /\ after = up \o Batched(r.next, r.packets)
              /\ n = Sending(r.next, Batched(r.next, r.packets))
       ELSE n = As(c, "stuck") /\ after = up

LEMMA StillDown ==
  ASSUME NEW v, NEW c, NEW down, NEW d, DownOpen(v, c, down, d), NEW n, Still(c, n)
  PROVE  DownOpen(v, n, down, d)
BY DEF DownOpen, Heeded, InStep, Still

LEMMA SameUp ==
  ASSUME NEW l, NEW v, NEW c, NEW up, NEW o, UpOpen(l, v, c, up, o), NEW n,
         IsClient(n), n.key = c.key, n.login = c.login, n.sent = c.sent,
         n.phase \in {"keyed", "packs", "world", "spawned", "refused", "stuck"}
  PROVE  UpOpen(l, v, n, up, o)
BY DEF UpOpen

\* An open client reads a payload, or is stuck, if one before it was refused.
LEMMA OpenTakes ==
  ASSUME NEW l, NEW v, NEW c, NEW up, NEW o, UpOpen(l, v, c, up, o),
         NEW down, NEW d, DownOpen(v, c, down, d), down # <<>>,
         NEW n, NEW after, Takings(c, Head(down), up, n, after), NEW rest, rest = Tail(down)
  PROVE  UpOpen(l, v, n, after, o) /\ DownOpen(v, n, rest, d)
<1> DEFINE m == down[1]
<1>1. /\ IsClient(c) /\ c.key # <<>> /\ c.login = << l >>
      /\ c.phase \in {"keyed", "packs", "world", "spawned", "refused", "stuck"}
  BY DEF UpOpen
<1>2. /\ IsSeq(down) /\ \A i \in DOMAIN down : down[i].key = c.key /\ Spoken(down[i])
  BY DEF DownOpen
<1>3. /\ IsSeq(rest) /\ Len(down) \in Nat /\ Len(down) >= 1
      /\ DOMAIN rest = 1 .. (Len(down) - 1) /\ DOMAIN down = 1 .. Len(down)
      /\ \A i \in 1 .. (Len(down) - 1) : rest[i] = down[i + 1]
  BY <1>2, Untailed
<1>4. Head(down) = m
  BY <1>2, Untailed
<1>5. m.key = c.key /\ Spoken(m)
  BY <1>2, <1>3
<1>6. c.taken \in Nat
  BY <1>1 DEF IsClient
<1> DEFINE got == Opened(c, m)
<1>7. CASE c.phase = "stuck" \/ ~ Readable(c, m)
  <2>1. got = Failed
    BY <1>7 DEF Opened
  <2>2. n = As(c, "stuck") /\ after = up
    BY <1>4, <2>1 DEF Takings, Failed
  <2>3. Same(c, n) /\ n.phase = "stuck" /\ n.area = c.area /\ n.columns = c.columns
    BY <1>1, <2>2, PhaseSet
  <2>4. IsClient(n) /\ n.key = c.key /\ n.login = c.login /\ n.sent = c.sent
    BY <2>3 DEF Same
  <2>5. UpOpen(l, v, n, after, o)
    BY <2>2, <2>3, <2>4, SameUp
  <2>6. d
    <3> SUFFICES ASSUME ~ d PROVE FALSE
      OBVIOUS
    <3>1. c.phase # "stuck" /\ Numbered(down, c.key, c.taken)
      BY DEF DownOpen, InStep
    <3> DEFINE key == c.key
               first == c.taken
    <3>2. Numbered(down, key, first) /\ first \in Nat
      BY <1>6, <3>1
    <3> HIDE DEF key, first, m
    <3>3. down[1].n = first
      BY <1>2, <3>2, NumberedRead
    <3>4. Readable(c, m)
      BY <1>5, <3>3 DEF Readable, first, m
    <3> QED
      BY <1>7, <3>1, <3>4
  <2>7. \A i \in DOMAIN rest : rest[i].key = n.key /\ Spoken(rest[i])
    <3> DEFINE k == Len(down)
    <3> HIDE DEF k
    <3>1. k \in Nat /\ DOMAIN rest = 1 .. (k - 1) /\ DOMAIN down = 1 .. k
          /\ \A i \in 1 .. (k - 1) : rest[i] = down[i + 1]
      BY <1>3 DEF k
    <3>2. \A i \in DOMAIN rest : i + 1 \in DOMAIN down /\ rest[i] = down[i + 1]
      BY <3>1
    <3> QED
      BY <1>2, <2>4, <3>2
  <2>8. DownOpen(v, n, rest, d)
    BY <1>3, <2>3, <2>6, <2>7 DEF DownOpen
  <2> QED
    BY <2>5, <2>8
<1>8. CASE c.phase # "stuck" /\ Readable(c, m)
  <2> DEFINE q == Heard(m)
  <2>1. got = DecodeWithMethod(m.bytes)
    BY <1>1, <1>8 DEF Opened
  <2>2. got.ok /\ got.value = << q >>
    BY <1>5, <2>1 DEF Spoken
  <2> HIDE DEF got, q
  <2>3. Len(got.value) = 1 /\ got.value[1] = q
    BY <2>2
  <2> DEFINE more == c.taken + 1
             t == TakenTo(c, c.taken + 1)
  <2>4. Heeding(c) = t /\ t = TakenTo(c, more) /\ more \in Nat
    BY <1>1, <1>6 DEF Heeding
  <2>5. PICK r \in Reactions(t, q) :
          /\ after = up \o Batched(r.next, r.packets)
          /\ n = Sending(r.next, Batched(r.next, r.packets))
    <3>1. Takings(c, m, up, n, after)
      BY <1>4
    <3> QED
      BY <2>2, <2>3, <2>4, <3>1 DEF Takings, got
  <2> HIDE DEF more
  <2>6. Took(c, more, t)
    BY <1>1, <2>4, TakenSet
  <2>7. IsClient(t) /\ t.phase \in {"keyed", "packs", "world", "spawned", "refused"} /\ t.area = c.area
        /\ t.key = c.key /\ t.login = c.login /\ t.sent = c.sent
    BY <1>1, <1>8, <2>6 DEF Took
  <2>8. InArea(c.area, down)
    BY <1>8 DEF DownOpen, Heeded
  <2>9. Draws(m) => t.area # <<>> /\ Covers(t.area[1], Where(m))
    <3> DEFINE area == c.area
    <3>1. InArea(area, down)
      BY <2>8
    <3> HIDE DEF area, t
    <3>2. Draws(down[1]) => area # <<>> /\ Covers(area[1], Where(down[1]))
      BY <1>2, <3>1, HeadInArea
    <3> QED
      BY <2>7, <3>2 DEF area, m
  <2> DEFINE a == r.next
             packets == r.packets
             out == Batched(a, packets)
  <2>10. r \in Reactions(t, Heard(m))
    BY DEF q
  <2>11. t = TakenTo(c, c.taken + 1)
    OBVIOUS
  <2> HIDE DEF t, m
  <2>12. Reacts(t, m, r.next) /\ Fit(r.packets)
    BY <1>5, <2>7, <2>9, <2>10, ReactsIs
  <2>13. Reacts(t, down[1], a) /\ Fit(packets)
    BY <2>12 DEF m
  <2>14. after = up \o out /\ n = Sending(a, out)
    BY <2>5
  <2> HIDE DEF a, packets, out
  <2>15. DownOpen(v, a, rest, d)
    BY <1>1, <1>8, <2>11, <2>13, DownRead
  <2>16. IsClient(a) /\ a.key = c.key /\ a.login = c.login /\ a.sent = c.sent
         /\ a.phase \in {"keyed", "packs", "world", "spawned", "refused"}
    BY <2>7, <2>13 DEF Reacts, Same
  <2>17. UpOpen(l, v, a, up, o)
    BY <2>16, SameUp
  <2>18. out = Batched(a, packets)
    BY DEF out
  <2>19. UpOpen(l, v, n, after, o) /\ Still(a, n)
    BY <2>13, <2>14, <2>17, <2>18, OpenSends
  <2>20. DownOpen(v, n, rest, d)
    BY <2>15, <2>19, StillDown
  <2> QED
    BY <2>19, <2>20
<1> QED
  BY <1>7, <1>8

-----------------------------------------------------------------------------
(* The login, as the client sees it.                                        *)

\* The one packet of a payload in the clear.
LEMMA TakesOne ==
  ASSUME NEW c, NEW m, NEW q, NEW n, NEW up, NEW next, NEW after, Opened(c, m) = Got(<< q >>, n),
         Takings(c, m, up, next, after)
  PROVE  \E r \in Reactions(Heeding(c), q) :
           /\ after = up \o Batched(r.next, r.packets)
           /\ next = Sending(r.next, Batched(r.next, r.packets))
<1> DEFINE got == Opened(c, m)
<1>1. got.ok /\ got.value = << q >>
  BY DEF Got
<1> HIDE DEF got
<1>2. Len(got.value) = 1 /\ got.value[1] = q
  BY <1>1
<1> QED
  BY <1>1, <1>2 DEF Takings, got

LEMMA AwayIs ==
  /\ IsClient(AskedClient) /\ AskedClient.phase = "asked" /\ AskedClient.key = <<>>
  /\ AskedClient.taken = 0 /\ AskedClient.sent = 0 /\ AskedClient.login = <<>>
  /\ AskedClient.area = <<>>
<1>1. AskedClient = [phase |-> "asked", key |-> <<>>, login |-> <<>>, taken |-> 0, sent |-> 0,
                     at |-> 0, area |-> <<>>, columns |-> {}, trips |-> 0]
  BY DEF AskedClient, Away
<1> QED
  BY <1>1 DEF IsClient

LEMMA LoginClientIs ==
  ASSUME NEW l
  PROVE  /\ LoginClient(l) = [phase |-> "login", key |-> <<>>, login |-> << l >>, taken |-> 0, sent |-> 0,
                              at |-> 0, area |-> <<>>, columns |-> {}, trips |-> 0]
         /\ IsClient(LoginClient(l)) /\ LoginClient(l).phase = "login" /\ LoginClient(l).key = <<>>
         /\ LoginClient(l).taken = 0 /\ LoginClient(l).sent = 0 /\ LoginClient(l).login = << l >>
         /\ LoginClient(l).area = <<>> /\ LoginClient(l).columns = {} /\ LoginClient(l).trips = 0
<1> DEFINE one == << l >>
<1>1. LoginClient(l) = [Away EXCEPT !.phase = "login", !.login = one]
  BY DEF LoginClient
<1> HIDE DEF one
<1>2. LoginClient(l) = [phase |-> "login", key |-> <<>>, login |-> one, taken |-> 0, sent |-> 0,
                        at |-> 0, area |-> <<>>, columns |-> {}, trips |-> 0]
  BY <1>1 DEF Away
<1>3. /\ LoginClient(l).phase = "login" /\ LoginClient(l).key = <<>>
      /\ LoginClient(l).taken = 0 /\ LoginClient(l).sent = 0 /\ LoginClient(l).login = one
      /\ LoginClient(l).at = 0
      /\ LoginClient(l).area = <<>> /\ LoginClient(l).columns = {} /\ LoginClient(l).trips = 0
  BY <1>2
<1>4. IsClient(LoginClient(l))
  BY <1>2, <1>3 DEF IsClient
<1> QED
  BY <1>2, <1>3, <1>4 DEF one

\* A client in the clear counts nothing.
LEMMA ClearHeeds ==
  ASSUME NEW c, IsClient(c), c.key = <<>>, c.taken = 0
  PROVE  Heeding(c) = c
<1>1. Heeding(c) = [c EXCEPT !.taken = 0]
  BY DEF Heeding, TakenTo
<1>2. [c EXCEPT !.taken = 0] = [phase |-> c.phase, key |-> c.key, login |-> c.login, taken |-> 0, sent |-> c.sent,
           at |-> c.at, area |-> c.area, columns |-> c.columns, trips |-> c.trips]
  BY DEF IsClient
<1>3. c = [phase |-> c.phase, key |-> c.key, login |-> c.login, taken |-> 0, sent |-> c.sent,
           at |-> c.at, area |-> c.area, columns |-> c.columns, trips |-> c.trips]
  BY DEF IsClient
<1> QED
  BY <1>1, <1>2, <1>3

\* Nor does one without a key.
LEMMA ClearSends ==
  ASSUME NEW n, IsClient(n), n.key = <<>>, NEW out
  PROVE  Sending(n, out) = n
<1> DEFINE sent == n.sent
<1>1. Sending(n, out) = [n EXCEPT !.sent = sent]
  BY DEF Sending, SentTo
<1>2. n = [phase |-> n.phase, key |-> n.key, login |-> n.login, taken |-> n.taken, sent |-> sent,
           at |-> n.at, area |-> n.area, columns |-> n.columns, trips |-> n.trips]
  BY DEF IsClient
<1> HIDE DEF sent
<1>3. [n EXCEPT !.sent = sent] = n
  BY <1>2
<1> QED
  BY <1>1, <1>3

\* What a client does with each packet it has an answer to.
LEMMA ReactionsBy ==
  ASSUME NEW c, NEW q, NEW r \in Reactions(c, q)
  PROVE  /\ q.id = ID_NETWORK_SETTINGS =>
              \E l \in Logins : r = [next    |-> [c EXCEPT !.phase = "login", !.login = << l >>],
                                     packets |-> << EncodeLogin(l.protocol, << l.token >>, l.holds) >>]
         /\ q.id = ID_SERVER_TO_CLIENT_HANDSHAKE =>
              r \in Just([c EXCEPT !.phase = "keyed",
                                   !.key = Agree(Read(HandshakeToken, q.body, 1).value.token[1],
                                                 c.login[1].holds)],
                         << NewPacket(ID_CLIENT_TO_SERVER_HANDSHAKE, <<>>) >>)
         /\ q.id = ID_PLAY_STATUS => r \in OnStatus(c, Read(PlayStatus, q.body, 1).value.status)
<1> DEFINE got(layout) == Read(layout, q.body, 1).value
           ofStatus == OnStatus(c, got(PlayStatus).status)
           ofPacks == Just(As(c, "packs"), << Answered("HaveAllPacks") >>) \cup
                      Just(As(c, "packs"), << Answered("Completed") >>)
           ofStack == Just(c, << Answered("Completed") >>)
           ofWorld == {[next |-> [c EXCEPT !.phase = "world", !.at = got(StartGame).x],
                        packets |-> << RadiusWanted(radius) >>] : radius \in Radii}
           ofArea == Just([c EXCEPT !.area = << [x |-> got(PublisherUpdate).x,
                                                 radius |-> got(PublisherUpdate).radius] >>], <<>>)
           ofColumn == Just(IF Keeps(c, got(LevelChunk))
                              THEN [c EXCEPT !.columns = @ \cup {got(LevelChunk).x}] ELSE c, <<>>)
           ofLogin == {[next    |-> [c EXCEPT !.phase = "login", !.login = << l >>],
                        packets |-> << EncodeLogin(l.protocol, << l.token >>, l.holds) >>] : l \in Logins}
           ofKey == Just([c EXCEPT !.phase = "keyed",
                                   !.key = Agree(got(HandshakeToken).token[1], c.login[1].holds)],
                         << NewPacket(ID_CLIENT_TO_SERVER_HANDSHAKE, <<>>) >>)
           ofOther == Just(c, <<>>)
<1>1. Reactions(c, q) =
        CASE q.id = ID_NETWORK_SETTINGS -> ofLogin
          [] q.id = ID_SERVER_TO_CLIENT_HANDSHAKE -> ofKey
          [] q.id = ID_PLAY_STATUS -> ofStatus
          [] q.id = ID_RESOURCE_PACKS_INFO -> ofPacks
          [] q.id = ID_RESOURCE_PACK_STACK -> ofStack
          [] q.id = ID_START_GAME -> ofWorld
          [] q.id = ID_NETWORK_CHUNK_PUBLISHER_UPDATE -> ofArea
          [] q.id = ID_LEVEL_CHUNK -> ofColumn
          [] OTHER -> ofOther
  BY DEF Reactions
<1> HIDE DEF ofStatus, ofPacks, ofStack, ofWorld, ofArea, ofColumn, ofLogin, ofKey, ofOther
<1>2. ASSUME q.id = ID_NETWORK_SETTINGS PROVE r \in ofLogin
  BY <1>1, <1>2
     DEF ID_NETWORK_SETTINGS, ID_SERVER_TO_CLIENT_HANDSHAKE, ID_PLAY_STATUS,
         ID_RESOURCE_PACKS_INFO, ID_RESOURCE_PACK_STACK, ID_START_GAME,
         ID_NETWORK_CHUNK_PUBLISHER_UPDATE, ID_LEVEL_CHUNK
<1>3. ASSUME q.id = ID_SERVER_TO_CLIENT_HANDSHAKE PROVE r \in ofKey
  BY <1>1, <1>3
     DEF ID_NETWORK_SETTINGS, ID_SERVER_TO_CLIENT_HANDSHAKE, ID_PLAY_STATUS,
         ID_RESOURCE_PACKS_INFO, ID_RESOURCE_PACK_STACK, ID_START_GAME,
         ID_NETWORK_CHUNK_PUBLISHER_UPDATE, ID_LEVEL_CHUNK
<1>4. ASSUME q.id = ID_PLAY_STATUS PROVE r \in ofStatus
  BY <1>1, <1>4
     DEF ID_NETWORK_SETTINGS, ID_SERVER_TO_CLIENT_HANDSHAKE, ID_PLAY_STATUS,
         ID_RESOURCE_PACKS_INFO, ID_RESOURCE_PACK_STACK, ID_START_GAME,
         ID_NETWORK_CHUNK_PUBLISHER_UPDATE, ID_LEVEL_CHUNK
<1>5. ASSUME q.id = ID_NETWORK_SETTINGS
      PROVE  \E l \in Logins : r = [next    |-> [c EXCEPT !.phase = "login", !.login = << l >>],
                                    packets |-> << EncodeLogin(l.protocol, << l.token >>, l.holds) >>]
  BY <1>2, <1>5 DEF ofLogin
<1>6. ASSUME q.id = ID_SERVER_TO_CLIENT_HANDSHAKE
      PROVE  r \in Just([c EXCEPT !.phase = "keyed",
                                  !.key = Agree(Read(HandshakeToken, q.body, 1).value.token[1],
                                                c.login[1].holds)],
                        << NewPacket(ID_CLIENT_TO_SERVER_HANDSHAKE, <<>>) >>)
  BY <1>3, <1>6 DEF ofKey
<1>7. ASSUME q.id = ID_PLAY_STATUS PROVE r \in OnStatus(c, Read(PlayStatus, q.body, 1).value.status)
  BY <1>4, <1>7 DEF ofStatus
<1> QED
  BY <1>5, <1>6, <1>7

\* The settings: the client logs in.
LEMMA AnsweringTakes ==
  ASSUME NEW v, NEW c, NEW up, NEW down, Answering(v, c, up, down),
         NEW n, NEW after, Takings(c, Head(down), up, n, after), NEW rest, rest = Tail(down)
  PROVE  \E l \in Logins : LoggingIn(l, v, n, after, rest)
<1> DEFINE q == Uncompressed
           m == InClear(Encode(<< q >>))
           k == Len(Encode(<< q >>)) + 1
<1>1. c = AskedClient /\ up = <<>> /\ v = Settled /\ Head(down) = m /\ rest = <<>>
  BY OneRest DEF Answering
<1>2. q \in Packet /\ q.id = ID_NETWORK_SETTINGS
  BY UncompressedSays DEF Says
<1>3. m.key = <<>> /\ m.bytes = Encode(<< q >>)
  BY DEF InClear
<1> HIDE DEF q
<1>4. Decode(m.bytes) = Got(<< q >>, k)
  BY <1>2, <1>3, OneBatch
<1> HIDE DEF m, k
<1>5. Opened(c, m) = Got(<< q >>, k)
  <2>1. c.phase = "asked" /\ c.key = <<>>
    BY <1>1, AwayIs
  <2>2. Readable(c, m)
    BY <1>3, <2>1 DEF Readable
  <2> QED
    BY <1>4, <2>1, <2>2 DEF Opened
<1>6. Heeding(c) = c /\ IsClient(c)
  BY <1>1, AwayIs, ClearHeeds
<1>7. Takings(c, m, up, n, after)
  BY <1>1
<1>8. PICK r \in Reactions(c, q) :
        /\ after = up \o Batched(r.next, r.packets)
        /\ n = Sending(r.next, Batched(r.next, r.packets))
  BY <1>5, <1>6, <1>7, TakesOne
<1>9. PICK l \in Logins : r = [next |-> [c EXCEPT !.phase = "login", !.login = << l >>],
                               packets |-> << EncodeLogin(l.protocol, << l.token >>, l.holds) >>]
  BY <1>2, <1>8, ReactionsBy
<1> DEFINE p == LoginPacket(l)
           a == LoginClient(l)
           sent == InClear(EncodeWithMethod(<< p >>))
<1>10. r.next = a /\ r.packets = << p >>
  <2>1. r.packets = << p >>
    BY <1>9 DEF LoginPacket
  <2> DEFINE one == << l >>
  <2>2. r.next = [c EXCEPT !.phase = "login", !.login = one]
    BY <1>9
  <2>3. a = [Away EXCEPT !.phase = "login", !.login = one]
    BY DEF LoginClient
  <2> HIDE DEF one, a
  <2>4. r.next = a
    BY <1>1, <2>2, <2>3 DEF AskedClient, Away
  <2> QED
    BY <2>1, <2>4
<1>11. IsClient(a) /\ a.key = <<>>
  BY LoginClientIs
<1>12. Batched(a, << p >>) = << sent >>
  <2> HIDE DEF a, p
  <2>1. << p >> # <<>>
    OBVIOUS
  <2> QED
    BY <1>11, <2>1 DEF Batched, InClear
<1> HIDE DEF p, a, sent
<1>13. n = a
  BY <1>8, <1>10, <1>11, ClearSends
<1>14. after = << sent >>
  <2>1. after = <<>> \o << sent >>
    BY <1>1, <1>8, <1>10, <1>12
  <2> QED
    BY <2>1
<1>15. LoggingIn(l, v, n, after, rest)
  BY <1>1, <1>13, <1>14 DEF LoggingIn, a, sent, p
<1> QED
  BY <1>15

\* The refusal: the session is over for the client.
LEMMA RefusingTakes ==
  ASSUME NEW l \in Logins, NEW v, NEW c, NEW up, NEW down, Refusing(l, v, c, up, down), NEW d, NEW r,
         NEW n, NEW after, Takings(c, Head(down), up, n, after), NEW rest, rest = Tail(down)
  PROVE  Lost(v, n, after, rest, d, r)
<1> DEFINE q == StatusPacket("InvalidTenant")
           m == InClear(EncodeWithMethod(<< q >>))
           k == Len(EncodeWithMethod(<< q >>)) + 1
<1>1. c = LoginClient(l) /\ up = <<>> /\ v = Settled /\ Head(down) = m /\ rest = <<>>
  BY OneRest DEF Refusing
<1>2. q \in Packet /\ q.id = ID_PLAY_STATUS
      /\ Read(PlayStatus, q.body, 1).value.status = 4
  <2>1. "InvalidTenant" \in DOMAIN Status /\ Status["InvalidTenant"] = 4
    BY DEF Status
  <2>2. Speakable(q) /\ q.id = ID_PLAY_STATUS
        /\ Read(PlayStatus, q.body, 1).value.status = Status["InvalidTenant"]
    BY <2>1, StatusTold
  <2> QED
    BY <2>1, <2>2 DEF Speakable
<1>3. m.key = <<>> /\ m.bytes = EncodeWithMethod(<< q >>)
  BY DEF InClear
<1> HIDE DEF q
<1>4. DecodeWithMethod(m.bytes) = Got(<< q >>, k)
  BY <1>2, <1>3, OneBatch
<1> HIDE DEF m, k
<1>5. Opened(c, m) = Got(<< q >>, k)
  <2>1. c.phase = "login" /\ c.key = <<>>
    BY <1>1, LoginClientIs
  <2>2. Readable(c, m)
    BY <1>3, <2>1 DEF Readable
  <2> QED
    BY <1>4, <2>1, <2>2 DEF Opened
<1>6. Heeding(c) = c /\ IsClient(c) /\ c.key = <<>>
  BY <1>1, LoginClientIs, ClearHeeds
<1>7. Takings(c, m, up, n, after)
  BY <1>1
<1>8. PICK x \in Reactions(c, q) :
        /\ after = up \o Batched(x.next, x.packets)
        /\ n = Sending(x.next, Batched(x.next, x.packets))
  BY <1>5, <1>6, <1>7, TakesOne
<1>9. x \in OnStatus(c, 4)
  <2>1. x \in OnStatus(c, Read(PlayStatus, q.body, 1).value.status)
    BY <1>2, <1>8, ReactionsBy
  <2> QED
    BY <1>2, <2>1
<1>10. x \in Just(As(c, "refused"), <<>>)
  BY <1>9 DEF OnStatus, Status
<1> DEFINE a == As(c, "refused")
<1>11. x.next = a /\ x.packets = <<>>
  BY <1>10 DEF Just
<1>12. Same(c, a) /\ a.phase = "refused"
  BY <1>6, PhaseSet
<1> HIDE DEF a
<1>13. n = a /\ after = <<>>
  <2>1. Batched(a, <<>>) = <<>>
    BY DEF Batched
  <2>2. IsClient(a) /\ a.key = <<>>
    BY <1>6, <1>12 DEF Same
  <2>3. n = a
    BY <1>8, <1>11, <2>2, ClearSends
  <2>4. after = <<>> \o <<>>
    BY <1>1, <1>8, <1>11, <2>1
  <2> QED
    BY <2>3, <2>4
<1>14. v.cipher = <<>>
  BY <1>1, SettledIs
<1> QED
  BY <1>1, <1>12, <1>13, <1>14 DEF Lost

KeyedTo(c, key) == [c EXCEPT !.phase = "keyed", !.key = key]

LEMMA KeyedSet ==
  ASSUME NEW c, IsClient(c), NEW key, NEW n, n = KeyedTo(c, key)
  PROVE  /\ IsClient(n) /\ n.phase = "keyed" /\ n.key = key /\ n.login = c.login /\ n.taken = c.taken
         /\ n.sent = c.sent /\ n.area = c.area /\ n.columns = c.columns /\ n.trips = c.trips
<1>1. n = [phase |-> "keyed", key |-> key, login |-> c.login, taken |-> c.taken, sent |-> c.sent,
           at |-> c.at, area |-> c.area, columns |-> c.columns, trips |-> c.trips]
  BY DEF KeyedTo, IsClient
<1>2. /\ n.phase = "keyed" /\ n.key = key /\ n.login = c.login /\ n.taken = c.taken
      /\ n.sent = c.sent /\ n.area = c.area /\ n.columns = c.columns /\ n.trips = c.trips
      /\ n.at = c.at
  BY <1>1
<1> QED
  BY <1>1, <1>2 DEF IsClient

LEMMA HelloFits ==
  Fit(<< Hello >>) /\ << Hello >> # <<>>
<1>1. Hello \in Packet /\ Asks(Hello)
  BY OthersAsked
<1> DEFINE p == Hello
<1>2. p \in Packet /\ Asks(p)
  BY <1>1
<1> HIDE DEF p, Packet
<1>3. Fit(<< p >>) /\ << p >> # <<>>
  BY <1>2, FitOne
<1> QED
  BY <1>3 DEF p

\* A cipher just made, at both ends.
LEMMA OpenedNow ==
  ASSUME NEW l, NEW v, NEW o, NEW c, NEW up, NEW down, Greeting(l, v, c, up, down, o),
         NEW n, n = KeyedTo(c, Shared(l, o)), Shared(l, o) # <<>>, NEW d
  PROVE  UpOpen(l, v, n, <<>>, o) /\ DownOpen(v, n, <<>>, d)
<1>1. /\ c = LoginClient(l) /\ v.settled /\ v.player = <<>> /\ Vouched(l)
  BY DEF Greeting
<1> DEFINE key == Shared(l, o)
           yes == TRUE
<1>2. v.cipher = << [key |-> key, sent |-> 0, received |-> 0, aligned |-> yes] >>
  BY DEF Greeting, Greeted
<1> HIDE DEF key, yes
<1>3. v.cipher # <<>> /\ v.cipher[1].key = key /\ v.cipher[1].aligned = yes
      /\ v.cipher[1].sent = 0 /\ v.cipher[1].received = 0
  BY <1>2
<1>4. IsClient(c) /\ c.taken = 0 /\ c.sent = 0 /\ c.login = << l >> /\ c.area = <<>>
  BY <1>1, LoginClientIs
<1>5. /\ IsClient(n) /\ n.phase = "keyed" /\ n.key = key /\ n.login = << l >> /\ n.taken = 0
      /\ n.sent = 0 /\ n.area = <<>>
  <2>1. n = KeyedTo(c, key)
    BY DEF key
  <2> QED
    BY <1>4, <2>1, KeyedSet
<1>6. IsSeq(<<>>) /\ Len(<<>>) = 0 /\ DOMAIN <<>> = {}
  BY DEF IsSeq
<1>7. Numbered(<<>>, n.key, 0)
  BY <1>6 DEF Numbered
<1>8. UpOpen(l, v, n, <<>>, o)
  BY <1>1, <1>3, <1>5, <1>6, <1>7 DEF UpOpen, key, yes
<1>9. InArea(n.area, <<>>) /\ Led(n.columns, <<>>)
  BY <1>6 DEF InArea, Led
<1>10. Heeded(n, <<>>)
  BY <1>5, <1>9 DEF Heeded
<1>11. InStep(v, n, <<>>)
  BY <1>1, <1>3, <1>5, <1>6, <1>7 DEF InStep
<1>12. DownOpen(v, n, <<>>, d)
  BY <1>6, <1>10, <1>11 DEF DownOpen
<1> QED
  BY <1>8, <1>12

\* The key: the session opens, if the client holds the one its token names.
LEMMA GreetingTakes ==
  ASSUME NEW l \in Logins, NEW v, NEW o \in Byte, NEW c, NEW up, NEW down, Greeting(l, v, c, up, down, o),
         NEW d, NEW n, NEW after, Takings(c, Head(down), up, n, after), NEW rest, rest = Tail(down)
  PROVE  Apart(l, v, n, after, rest, o) \/ Open(l, v, n, after, rest, d, o)
<1> DEFINE q == ServerToClientHandshake(<< o >>)
           m == InClear(EncodeWithMethod(<< q >>))
           k == Len(EncodeWithMethod(<< q >>)) + 1
<1>1. c = LoginClient(l) /\ up = <<>> /\ Head(down) = m /\ rest = <<>>
      /\ v.settled /\ v.player = <<>> /\ Vouched(l) /\ v.cipher = Greeted(l, o)
  BY OneRest DEF Greeting
<1>2. q \in Packet /\ q.id = ID_SERVER_TO_CLIENT_HANDSHAKE
      /\ Read(HandshakeToken, q.body, 1).value.token = << o >>
  <2> DEFINE rec == [token |-> << o >>]
  <2>1. Says(q, ID_SERVER_TO_CLIENT_HANDSHAKE, HandshakeToken, rec)
    BY HandshakeSays
  <2>2. rec.token = << o >>
    OBVIOUS
  <2> HIDE DEF q, rec
  <2>3. Len(HandshakeToken) >= 1 /\ HandshakeToken[1][1] = "token" /\ ~ IsLiteral(HandshakeToken[1])
    <3>1. HandshakeToken[1] = << "token", Prefixed >> /\ Len(HandshakeToken) = 1
      BY DEF HandshakeToken
    <3>2. Prefixed.of = "prefixed"
      BY DEF Prefixed
    <3> QED
      BY <3>1, <3>2 DEF IsLiteral
  <2>4. 1 \in 1 .. Len(HandshakeToken)
    BY DEF HandshakeToken
  <2>5. Read(HandshakeToken, q.body, 1).value["token"] = rec["token"]
    BY <2>1, <2>3, <2>4 DEF Says
  <2> QED
    BY <2>1, <2>2, <2>5 DEF Says
<1>3. m.key = <<>> /\ m.bytes = EncodeWithMethod(<< q >>)
  BY DEF InClear
<1> HIDE DEF q
<1>4. DecodeWithMethod(m.bytes) = Got(<< q >>, k)
  BY <1>2, <1>3, OneBatch
<1> HIDE DEF m, k
<1>5. /\ IsClient(c) /\ c.phase = "login" /\ c.key = <<>> /\ c.taken = 0 /\ c.sent = 0
      /\ c.login = << l >> /\ c.area = <<>>
  BY <1>1, LoginClientIs
<1>6. Opened(c, m) = Got(<< q >>, k)
  <2>1. Readable(c, m)
    BY <1>3, <1>5 DEF Readable
  <2> QED
    BY <1>4, <1>5, <2>1 DEF Opened
<1>7. Heeding(c) = c
  BY <1>5, ClearHeeds
<1>8. Takings(c, m, up, n, after)
  BY <1>1
<1>9. PICK r \in Reactions(c, q) :
        /\ after = up \o Batched(r.next, r.packets)
        /\ n = Sending(r.next, Batched(r.next, r.packets))
  <2>1. \E r \in Reactions(Heeding(c), q) :
           /\ after = up \o Batched(r.next, r.packets)
           /\ n = Sending(r.next, Batched(r.next, r.packets))
    BY <1>6, <1>8, TakesOne
  <2> QED
    BY <1>7, <2>1
<1> DEFINE key == Agree(o, l.holds)
           p == Hello
           a == KeyedTo(c, key)
           out == Batched(a, << p >>)
<1>10. r.next = a /\ r.packets = << p >>
  <2>1. Read(HandshakeToken, q.body, 1).value.token[1] = o /\ c.login[1] = l
    BY <1>2, <1>5
  <2>2. r \in Just([c EXCEPT !.phase = "keyed",
                             !.key = Agree(Read(HandshakeToken, q.body, 1).value.token[1], c.login[1].holds)],
                   << NewPacket(ID_CLIENT_TO_SERVER_HANDSHAKE, <<>>) >>)
    BY <1>2, <1>9, ReactionsBy
  <2>3. r \in Just(a, << p >>)
    BY <2>1, <2>2 DEF KeyedTo, Hello
  <2> QED
    BY <2>3 DEF Just
<1>11. Fit(<< p >>) /\ << p >> # <<>>
  BY HelloFits
<1>12. after = up \o out /\ n = Sending(a, out)
  BY <1>9, <1>10
<1>13. a = KeyedTo(c, key)
  OBVIOUS
<1> HIDE DEF a, p, key
<1>14. /\ IsClient(a) /\ a.phase = "keyed" /\ a.key = key /\ a.login = << l >> /\ a.taken = 0 /\ a.sent = 0
  BY <1>5, <1>13, KeyedSet
<1>15. CASE Shared(l, o) # <<>> /\ key = Shared(l, o)
  <2>1. a = KeyedTo(c, Shared(l, o))
    BY <1>13, <1>15
  <2>2. UpOpen(l, v, a, <<>>, o) /\ DownOpen(v, a, <<>>, d)
    BY <1>15, <2>1, OpenedNow
  <2> DEFINE packets == << p >>
  <2>3. Fit(packets) /\ out = Batched(a, packets)
    BY <1>11
  <2> HIDE DEF out, packets
  <2>4. UpOpen(l, v, n, after, o) /\ Still(a, n)
    BY <1>1, <1>12, <2>2, <2>3, OpenSends
  <2>5. DownOpen(v, n, rest, d)
    BY <1>1, <2>2, <2>4, StillDown
  <2> QED
    BY <2>4, <2>5 DEF Open
<1>16. CASE ~ (Shared(l, o) # <<>> /\ key = Shared(l, o))
  <2> DEFINE t == [key |-> key, n |-> 0, bytes |-> EncodeWithMethod(<< p >>)]
  <2>1. out = << t >>
    <3>1. (IF a.key = <<>> THEN 0 ELSE a.sent) = 0
      BY <1>14
    <3> QED
      BY <1>11, <1>14, <3>1 DEF Batched
  <2> HIDE DEF t, out
  <2>2. after = << t >>
    BY <1>1, <1>12, <2>1
  <2>3. Len(out) = 1
    BY <2>1
  <2> DEFINE sent == IF a.key = <<>> THEN a.sent ELSE a.sent + Len(out)
  <2>4. n = SentTo(a, sent) /\ sent \in Nat
    BY <1>12, <1>14, <2>3 DEF Sending
  <2> HIDE DEF sent
  <2>5. IsClient(n) /\ Still(a, n)
    BY <1>14, <2>4, SentSet
  <2>6. n.phase = "keyed" /\ n.login = << l >> /\ n.key = key
    BY <1>14, <2>5 DEF Still
  <2>7. v.cipher # <<>> => v.cipher[1].key = Shared(l, o) /\ n.key # Shared(l, o)
    <3> SUFFICES ASSUME v.cipher # <<>> PROVE v.cipher[1].key = Shared(l, o) /\ n.key # Shared(l, o)
      OBVIOUS
    <3> DEFINE shared == Shared(l, o)
               yes == TRUE
    <3>1. shared # <<>> /\ v.cipher = << [key |-> shared, sent |-> 0, received |-> 0, aligned |-> yes] >>
      BY <1>1 DEF Greeted
    <3> HIDE DEF shared, yes
    <3>2. v.cipher[1].key = shared
      BY <3>1
    <3> QED
      BY <1>16, <2>6, <3>1, <3>2 DEF shared
  <2>8. after = << [key |-> n.key, n |-> 0, bytes |-> EncodeWithMethod(<< Hello >>)] >>
    BY <2>2, <2>6 DEF t, p
  <2> QED
    BY <1>1, <2>6, <2>7, <2>8 DEF Apart
<1> QED
  BY <1>15, <1>16

LEMMA OpensAreBytes ==
  ASSUME NEW o \in Nat, o <= MaxOpens
  PROVE  o \in Byte
<1>1. MaxOpens \in Nat /\ MaxOpens < 256
  BY ServerAssumption
<1> QED
  BY <1>1 DEF Byte

\* A payload is read by the client, at whatever stage.
LEMMA StageTakes ==
  ASSUME NEW v, NEW c, NEW up, NEW down, NEW d, NEW r, NEW o \in Nat, o <= MaxOpens,
         InStage(v, c, up, down, d, r, o), down # <<>>,
         NEW n, NEW after, Takings(c, Head(down), up, n, after), NEW rest, rest = Tail(down)
  PROVE  InStage(v, n, after, rest, d, r, o)
<1>1. CASE Answering(v, c, up, down)
  <2>1. PICK l \in Logins : LoggingIn(l, v, n, after, rest)
    BY <1>1, AnsweringTakes
  <2> QED
    BY <2>1 DEF InStage
<1>2. ASSUME NEW l \in Logins, Refusing(l, v, c, up, down)
      PROVE  InStage(v, n, after, rest, d, r, o)
  <2>1. Lost(v, n, after, rest, d, r)
    BY <1>2, RefusingTakes
  <2> QED
    BY <2>1 DEF InStage
<1>3. ASSUME NEW l \in Logins, Greeting(l, v, c, up, down, o)
      PROVE  InStage(v, n, after, rest, d, r, o)
  <2>1. o \in Byte
    BY OpensAreBytes
  <2>2. Apart(l, v, n, after, rest, o) \/ Open(l, v, n, after, rest, d, o)
    BY <1>3, <2>1, GreetingTakes
  <2> QED
    BY <2>2 DEF InStage
<1>4. ASSUME NEW l \in Logins, Open(l, v, c, up, down, d, o)
      PROVE  InStage(v, n, after, rest, d, r, o)
  <2>1. UpOpen(l, v, c, up, o) /\ DownOpen(v, c, down, d)
    BY <1>4 DEF Open
  <2>2. UpOpen(l, v, n, after, o) /\ DownOpen(v, n, rest, d)
    BY <2>1, OpenTakes
  <2> QED
    BY <2>2 DEF InStage, Open
<1>5. ~ Asked(v, c, up, down, d, r) /\ ~ Lost(v, c, up, down, d, r)
  BY DEF Asked, Lost
<1>6. \A l \in Logins : ~ LoggingIn(l, v, c, up, down) /\ ~ Apart(l, v, c, up, down, o)
  BY DEF LoggingIn, Apart
<1>7. \/ Answering(v, c, up, down)
      \/ \E l \in Logins : Refusing(l, v, c, up, down) \/ Greeting(l, v, c, up, down, o)
                             \/ Open(l, v, c, up, down, d, o)
  BY <1>5, <1>6 DEF InStage
<1> QED
  BY <1>1, <1>2, <1>3, <1>4, <1>7

-----------------------------------------------------------------------------
(* A player in the world.                                                   *)

TripTo(c, x) == [c EXCEPT !.trips = @ + 1, !.at = x]
Trip(c) == [c EXCEPT !.trips = @ + 1]

Acting(c, up, n, after) ==
  \/ \E x \in Places : /\ after = up \o Batched(c, << Moved(x) >>)
                       /\ n = Sending(TripTo(c, x), Batched(c, << Moved(x) >>))
  \/ \E r \in Radii : /\ after = up \o Batched(c, << RadiusWanted(r) >>)
                      /\ n = Sending(Trip(c), Batched(c, << RadiusWanted(r) >>))

Tripped(c, n) ==
  /\ IsClient(n) /\ n.phase = c.phase /\ n.key = c.key /\ n.login = c.login /\ n.taken = c.taken
  /\ n.sent = c.sent /\ n.area = c.area /\ n.columns = c.columns

LEMMA TripSet ==
  ASSUME NEW c, IsClient(c)
  PROVE  Tripped(c, Trip(c)) /\ \A x \in Places : Tripped(c, TripTo(c, x))
<1>1. c.trips \in Nat /\ c.trips + 1 \in Nat /\ c.trips + 1 # 0
  BY DEF IsClient
<1>2. ASSUME NEW x \in {0, 50} \cup Places, NEW n,
             n = [c EXCEPT !.trips = @ + 1, !.at = x]
      PROVE  Tripped(c, n)
  <2> DEFINE more == c.trips + 1
  <2>1. n = [phase |-> c.phase, key |-> c.key, login |-> c.login, taken |-> c.taken, sent |-> c.sent,
             at |-> x, area |-> c.area, columns |-> c.columns, trips |-> more]
    BY <1>2 DEF IsClient
  <2>2. more \in Nat /\ more # 0
    BY <1>1
  <2> HIDE DEF more
  <2>3. /\ n.phase = c.phase /\ n.key = c.key /\ n.login = c.login /\ n.taken = c.taken
        /\ n.sent = c.sent /\ n.area = c.area /\ n.columns = c.columns /\ n.at = x /\ n.trips = more
    BY <2>1
  <2>4. n = [phase |-> n.phase, key |-> n.key, login |-> n.login, taken |-> n.taken, sent |-> n.sent,
             at |-> n.at, area |-> n.area, columns |-> n.columns, trips |-> n.trips]
    BY <2>1, <2>3
  <2>5. c.taken \in Nat /\ c.sent \in Nat
    BY DEF IsClient
  <2>6. IsClient(n)
    BY <1>2, <2>2, <2>3, <2>4, <2>5 DEF IsClient
  <2> QED
    BY <2>3, <2>6 DEF Tripped
<1>3. \A x \in Places : Tripped(c, TripTo(c, x))
  BY <1>2 DEF TripTo
<1>4. Tripped(c, Trip(c))
  <2> DEFINE x == c.at
  <2>1. x \in {0, 50} \cup Places
    BY DEF IsClient
  <2>2. Trip(c) = [c EXCEPT !.trips = @ + 1, !.at = x]
    BY DEF Trip, IsClient
  <2> HIDE DEF x
  <2> QED
    BY <1>2, <2>1, <2>2
<1> QED
  BY <1>3, <1>4

LEMMA SameDown ==
  ASSUME NEW v, NEW c, NEW down, NEW d, DownOpen(v, c, down, d), NEW n, Tripped(c, n)
  PROVE  DownOpen(v, n, down, d)
BY DEF DownOpen, Heeded, InStep, Tripped

\* A packet that answers nothing.
LEMMA OpenActs ==
  ASSUME NEW l, NEW v, NEW c, NEW up, NEW down, NEW d, NEW o, Open(l, v, c, up, down, d, o),
         NEW a, Tripped(c, a), NEW q \in Packet, Asks(q),
         NEW n, NEW after, after = up \o Batched(c, << q >>), n = Sending(a, Batched(c, << q >>))
  PROVE  Open(l, v, n, after, down, d, o)
<1>1. UpOpen(l, v, c, up, o) /\ DownOpen(v, c, down, d)
  BY DEF Open
<1>2. DownOpen(v, a, down, d)
  BY <1>1, SameDown
<1>3. c.phase \in {"keyed", "packs", "world", "spawned", "refused", "stuck"}
  BY <1>1 DEF UpOpen
<1>4. UpOpen(l, v, a, up, o)
  BY <1>1, <1>3, SameUp DEF Tripped
<1> DEFINE packets == << q >>
           out == Batched(a, packets)
<1>5. Fit(packets)
  <2> HIDE DEF Packet
  <2> QED
    BY FitOne
<1> HIDE DEF packets
<1>6. Batched(c, packets) = out
  BY DEF Batched, Tripped
<1>7. after = up \o out /\ n = Sending(a, out)
  BY <1>6 DEF packets
<1>8. out = Batched(a, packets)
  OBVIOUS
<1> HIDE DEF out
<1>9. UpOpen(l, v, n, after, o) /\ Still(a, n)
  BY <1>4, <1>5, <1>7, <1>8, OpenSends
<1>10. DownOpen(v, n, down, d)
  BY <1>2, <1>9, StillDown
<1> QED
  BY <1>9, <1>10 DEF Open

\* A player in the world walks, or asks for a radius.
LEMMA StageActs ==
  ASSUME NEW v, NEW c, NEW up, NEW down, NEW d, NEW r, NEW o, InStage(v, c, up, down, d, r, o),
         c.phase = "spawned", NEW n, NEW after, Acting(c, up, n, after)
  PROVE  InStage(v, n, after, down, d, r, o)
<1>1. ~ Asked(v, c, up, down, d, r) /\ ~ Answering(v, c, up, down) /\ ~ Lost(v, c, up, down, d, r)
  BY AwayIs DEF Asked, Answering, Lost
<1>2. \A l \in Logins : /\ ~ LoggingIn(l, v, c, up, down) /\ ~ Refusing(l, v, c, up, down)
                        /\ ~ Greeting(l, v, c, up, down, o) /\ ~ Apart(l, v, c, up, down, o)
  BY LoginClientIs DEF LoggingIn, Refusing, Greeting, Apart
<1>3. PICK l \in Logins : Open(l, v, c, up, down, d, o)
  BY <1>1, <1>2 DEF InStage
<1>4. IsClient(c)
  BY <1>3 DEF Open, UpOpen
<1>5. ASSUME NEW x \in Places, after = up \o Batched(c, << Moved(x) >>),
             n = Sending(TripTo(c, x), Batched(c, << Moved(x) >>))
      PROVE  Open(l, v, n, after, down, d, o)
  <2> DEFINE a == TripTo(c, x)
             q == Moved(x)
  <2>1. Tripped(c, a)
    BY <1>4, TripSet
  <2>2. q \in Packet /\ Asks(q)
    BY MovedAsked
  <2>3. after = up \o Batched(c, << q >>) /\ n = Sending(a, Batched(c, << q >>))
    BY <1>5
  <2> HIDE DEF a, q, Packet
  <2> QED
    BY <1>3, <2>1, <2>2, <2>3, OpenActs
<1>6. ASSUME NEW x \in Radii, after = up \o Batched(c, << RadiusWanted(x) >>),
             n = Sending(Trip(c), Batched(c, << RadiusWanted(x) >>))
      PROVE  Open(l, v, n, after, down, d, o)
  <2> DEFINE a == Trip(c)
             q == RadiusWanted(x)
  <2>1. Tripped(c, a)
    BY <1>4, TripSet
  <2>2. q \in Packet /\ Asks(q)
    BY RadiusAsked
  <2>3. after = up \o Batched(c, << q >>) /\ n = Sending(a, Batched(c, << q >>))
    BY <1>6
  <2> HIDE DEF a, q, Packet
  <2> QED
    BY <1>3, <2>1, <2>2, <2>3, OpenActs
<1>7. Open(l, v, n, after, down, d, o)
  BY <1>5, <1>6 DEF Acting
<1> QED
  BY <1>7 DEF InStage

-----------------------------------------------------------------------------
(* From one peer to all of them.                                            *)

Stand(p) == OfSession(peer[p], client[p], toServer[p], toClient[p],
                      p \in sessions, p \in dropped, p \in carried, opens[p])

LEMMA ReplacedAt ==
  ASSUME NEW f, DOMAIN f = Peers, NEW p \in Peers, NEW x, NEW g, g = [f EXCEPT ![p] = x]
  PROVE  DOMAIN g = Peers /\ g[p] = x /\ \A q \in Peers : q # p => g[q] = f[q]
OBVIOUS

\* Booleans that agree are the same to a session.
LEMMA SameFlags ==
  ASSUME NEW v, NEW c, NEW up, NEW down, NEW o, NEW s, NEW d, NEW r, OfSession(v, c, up, down, s, d, r, o),
         NEW t, t <=> s, NEW e, e <=> d, NEW k, k <=> r
  PROVE  OfSession(v, c, up, down, t, e, k, o)
<1>1. ASSUME Asked(v, c, up, down, d, r) PROVE Asked(v, c, up, down, e, k)
  BY <1>1 DEF Asked
<1>2. ASSUME Lost(v, c, up, down, d, r) PROVE Lost(v, c, up, down, e, k)
  BY <1>2 DEF Lost
<1>3. ASSUME NEW l, Open(l, v, c, up, down, d, o) PROVE Open(l, v, c, up, down, e, o)
  BY <1>3 DEF Open, DownOpen
<1>4. ASSUME InStage(v, c, up, down, d, r, o) PROVE InStage(v, c, up, down, e, k, o)
  BY <1>1, <1>2, <1>3, <1>4 DEF InStage
<1> QED
  BY <1>4 DEF OfSession

\* A peer nothing was done for.
Left(q) ==
  /\ peer'[q] = peer[q] /\ client'[q] = client[q] /\ toServer'[q] = toServer[q]
  /\ toClient'[q] = toClient[q] /\ opens'[q] = opens[q]
  /\ q \in sessions' <=> q \in sessions
  /\ q \in dropped' <=> q \in dropped
  /\ q \in carried' <=> q \in carried

\* Such a peer stands where it stood.
LEMMA LeftStands ==
  ASSUME NEW q, Stand(q), Left(q)
  PROVE  Stand(q)'
<1> DEFINE s == q \in sessions
           d == q \in dropped
           r == q \in carried
           t == q \in sessions'
           e == q \in dropped'
           k == q \in carried'
<1>1. OfSession(peer[q], client[q], toServer[q], toClient[q], s, d, r, opens[q])
  BY DEF Stand
<1>2. (t <=> s) /\ (e <=> d) /\ (k <=> r)
  BY DEF Left
<1>3. peer'[q] = peer[q] /\ client'[q] = client[q] /\ toServer'[q] = toServer[q]
      /\ toClient'[q] = toClient[q] /\ opens'[q] = opens[q]
  BY DEF Left
<1> HIDE DEF s, d, r, t, e, k
<1>4. OfSession(peer[q], client[q], toServer[q], toClient[q], t, e, k, opens[q])
  BY <1>1, <1>2, SameFlags
<1>5. OfSession(peer'[q], client'[q], toServer'[q], toClient'[q], t, e, k, opens'[q])
  BY <1>3, <1>4
<1> QED
  BY <1>5 DEF Stand, t, e, k

\* What it is to stand.
LEMMA StandIs ==
  ASSUME NEW p
  PROVE  Stand(p) <=>
           /\ Kept(peer[p]) /\ Len(toClient[p]) <= Window /\ opens[p] \in Nat /\ opens[p] <= MaxOpens
           /\ p \in sessions => InStage(peer[p], client[p], toServer[p], toClient[p],
                                        p \in dropped, p \in carried, opens[p])
           /\ p \notin sessions => client[p] = Away /\ toServer[p] = <<>> /\ toClient[p] = <<>>
BY DEF Stand, OfSession

\* The server receives.
LEMMA ReceiveStands ==
  ASSUME ServerInvariant, NEW p \in Peers, Receive(p)
  PROVE  Maps' /\ Stand(p)' /\ \A q \in Peers : q # p => Left(q)
<1>1. /\ sessions \subseteq Peers
      /\ DOMAIN peer = Peers /\ DOMAIN toClient = Peers /\ DOMAIN toServer = Peers
      /\ DOMAIN client = Peers /\ DOMAIN opens = Peers
      /\ identityKeys \in {<<>>} \cup {<< keys >> : keys \in KeySets}
      /\ Stand(p) /\ Maps
  BY DEF ServerInvariant, Maps, Stand
<1>2. PICK now \in Clocks : Commit(p, OnPayload(peer[p], opens[p], now, Head(toServer[p])))
  BY DEF Receive
<1>3. /\ toServer[p] # <<>> /\ toServer' = [toServer EXCEPT ![p] = Tail(toServer[p])]
      /\ sessions' = sessions
      /\ UNCHANGED << identityKeys, client, opens, carried >>
  BY DEF Receive, FromClient
<1> DEFINE v == peer[p]
           c == client[p]
           up == toServer[p]
           down == toClient[p]
           o == opens[p]
           d == p \in dropped
           r == p \in carried
           e == p \in dropped'
           w == OnPayload(v, o, now, Head(up))
           z == Emptied(w)
           all == Onward(w, down)
           rest == Tail(up)
<1>4. peer' = [peer EXCEPT ![p] = z] /\ toClient' = [toClient EXCEPT ![p] = all]
      /\ dropped' = IF Room(down) < Len(w.out) THEN dropped \cup {p} ELSE dropped
  <2>1. Commit(p, w)
    BY <1>2
  <2> HIDE DEF w
  <2> QED
    BY <2>1 DEF Commit, Emptied, Onward, Admitted, Room
<1>5. Drops(d, e, down, w)
  <2> HIDE DEF w
  <2>1. e <=> (d \/ Room(down) < Len(w.out))
    BY <1>4
  <2> QED
    BY <2>1 DEF Drops
<1>6. /\ Kept(v) /\ Len(down) <= Window /\ o \in Nat /\ o <= MaxOpens /\ up # <<>>
      /\ p \in sessions /\ InStage(v, c, up, down, d, r, o)
  BY <1>1, <1>3, StandIs
<1>7. w = OnPayload(v, o, now, Head(up)) /\ z = Emptied(w) /\ all = Onward(w, down) /\ rest = Tail(up)
  OBVIOUS
<1>8. peer'[p] = z /\ DOMAIN peer' = Peers /\ \A q \in Peers : q # p => peer'[q] = peer[q]
  <2> HIDE DEF z
  <2> QED
    BY <1>1, <1>4, ReplacedAt
<1>9. toClient'[p] = all /\ DOMAIN toClient' = Peers /\ \A q \in Peers : q # p => toClient'[q] = toClient[q]
  <2> HIDE DEF all
  <2> QED
    BY <1>1, <1>4, ReplacedAt
<1>10. toServer'[p] = rest /\ DOMAIN toServer' = Peers /\ \A q \in Peers : q # p => toServer'[q] = toServer[q]
  BY <1>1, <1>3, ReplacedAt
<1>11. \A q \in Peers : q # p => (q \in dropped' <=> q \in dropped)
  <2> HIDE DEF w
  <2> QED
    BY <1>4
<1>12. Staged(z, c, rest, all, e, r, o)
  <2> HIDE DEF v, c, up, down, o, d, r, e, w, z, all, rest
  <2> QED
    BY <1>1, <1>5, <1>6, <1>7, StageReceives
<1>13. Maps'
  BY <1>1, <1>3, <1>8, <1>9, <1>10 DEF Maps
<1>14. \A q \in Peers : q # p => Left(q)
  <2> HIDE DEF z, all, rest
  <2> QED
    BY <1>3, <1>8, <1>9, <1>10, <1>11 DEF Left
<1>15. client' = client /\ opens' = opens /\ carried' = carried /\ sessions' = sessions
  BY <1>3
<1>16. Stand(p)'
  <2>1. Kept(peer'[p]) /\ Len(toClient'[p]) <= Window
        /\ InStage(peer'[p], client'[p], toServer'[p], toClient'[p], p \in dropped', p \in carried', opens'[p])
    <3> HIDE DEF z, all, rest
    <3>1. Kept(z) /\ Len(all) <= Window /\ InStage(z, c, rest, all, e, r, o)
      BY <1>12 DEF Staged
    <3>2. InStage(peer'[p], c, toServer'[p], toClient'[p], e, r, o)
      BY <1>8, <1>9, <1>10, <3>1
    <3> QED
      BY <1>8, <1>9, <1>15, <3>1, <3>2
  <2> HIDE DEF z, all, rest
  <2> QED
    BY <1>6, <1>15, <2>1 DEF Stand, OfSession
<1> QED
  BY <1>13, <1>14, <1>16

Replaced(g, f, p, x) == DOMAIN g = Peers /\ g[p] = x /\ \A q \in Peers : q # p => g[q] = f[q]

\* What a client makes of a payload, as a function of what it and the channel hold.
LEMMA TakesIs ==
  ASSUME NEW p \in Peers, DOMAIN client = Peers, DOMAIN toServer = Peers,
         Takes(p, Opened(client[p], Head(toClient[p])))
  PROVE  \E n, after : /\ Replaced(client', client, p, n)
                      /\ Replaced(toServer', toServer, p, after)
                      /\ Takings(client[p], Head(toClient[p]), toServer[p], n, after)
<1> DEFINE c == client[p]
           up == toServer[p]
           m == Head(toClient[p])
           got == Opened(c, m)
<1>1. Takes(p, got)
  OBVIOUS
<1>2. CASE got.ok /\ Len(got.value) = 1
  <2>1. Heeding(c) = [client[p] EXCEPT !.taken = IF @ = 0 /\ client[p].key = <<>> THEN 0 ELSE @ + 1]
    BY DEF Heeding, TakenTo
  <2> HIDE DEF got
  <2>2. PICK r \in Reactions(Heeding(c), got.value[1]) : Answers(p, r.next, Batched(r.next, r.packets))
    BY <1>1, <1>2, <2>1 DEF Takes
  <2> DEFINE out == Batched(r.next, r.packets)
             n == Sending(r.next, out)
             after == up \o out
  <2>3. client' = [client EXCEPT ![p] = n] /\ toServer' = [toServer EXCEPT ![p] = after]
    <3> DEFINE next == r.next
    <3>1. Answers(p, next, out)
      BY <2>2
    <3> HIDE DEF next, out
    <3> QED
      BY <3>1 DEF Answers, Sending, SentTo, next
  <2>4. \E x \in Reactions(Heeding(c), got.value[1]) :
          /\ after = up \o Batched(x.next, x.packets)
          /\ n = Sending(x.next, Batched(x.next, x.packets))
    OBVIOUS
  <2> HIDE DEF n, after, out
  <2>5. Takings(c, m, up, n, after)
    BY <1>2, <2>4 DEF Takings, got
  <2>6. Replaced(client', client, p, n) /\ Replaced(toServer', toServer, p, after)
    BY <2>3, ReplacedAt DEF Replaced
  <2> QED
    BY <2>5, <2>6
<1>3. CASE ~ (got.ok /\ Len(got.value) = 1)
  <2> DEFINE n == As(c, "stuck")
  <2> HIDE DEF got
  <2>1. client' = [client EXCEPT ![p] = n] /\ toServer' = toServer
    BY <1>1, <1>3 DEF Takes, As
  <2>2. Replaced(toServer', toServer, p, up)
    BY <2>1 DEF Replaced
  <2>4. Replaced(client', client, p, n)
    <3> HIDE DEF n
    <3> QED
      BY <2>1, ReplacedAt DEF Replaced
  <2>3. Takings(c, m, up, n, up)
    BY <1>3 DEF Takings, got
  <2> HIDE DEF n
  <2> QED
    BY <2>2, <2>3, <2>4
<1> QED
  BY <1>2, <1>3

\* There is no less room than before.
LEMMA Shorter ==
  ASSUME NEW v, NEW c, NEW up, NEW down, NEW d, NEW r, NEW o, InStage(v, c, up, down, d, r, o),
         down # <<>>, Len(down) <= Window
  PROVE  Len(Tail(down)) <= Window
<1>1. CASE IsSeq(down)
  <2> DEFINE k == Len(down)
  <2>1. Len(Tail(down)) = k - 1 /\ k \in Nat
    BY <1>1, Untailed
  <2>2. Window \in Nat
    BY WindowIs
  <2> HIDE DEF k
  <2>3. k <= Window
    BY DEF k
  <2> QED
    BY <2>1, <2>2, <2>3
<1>2. CASE \E m : down = << m >>
  BY <1>2, OneRest, WindowIs
<1>3. \A l \in Logins : Open(l, v, c, up, down, d, o) => IsSeq(down)
  BY DEF Open, DownOpen
<1>4. \A l \in Logins : /\ Refusing(l, v, c, up, down) => \E m : down = << m >>
                        /\ Greeting(l, v, c, up, down, o) => \E m : down = << m >>
                        /\ ~ LoggingIn(l, v, c, up, down) /\ ~ Apart(l, v, c, up, down, o)
  BY DEF Refusing, Greeting, LoggingIn, Apart
<1>5. /\ ~ Asked(v, c, up, down, d, r) /\ ~ Lost(v, c, up, down, d, r)
      /\ Answering(v, c, up, down) => \E m : down = << m >>
  BY DEF Asked, Lost, Answering
<1>6. IsSeq(down) \/ \E m : down = << m >>
  BY <1>3, <1>4, <1>5 DEF InStage
<1> QED
  BY <1>1, <1>2, <1>6

\* The client receives.
LEMMA ClientTakesStands ==
  ASSUME ServerInvariant, NEW p \in Peers, ClientTakes(p)
  PROVE  Maps' /\ Stand(p)' /\ \A q \in Peers : q # p => Left(q)
<1>1. /\ sessions \subseteq Peers
      /\ DOMAIN peer = Peers /\ DOMAIN toClient = Peers /\ DOMAIN toServer = Peers
      /\ DOMAIN client = Peers /\ DOMAIN opens = Peers
      /\ identityKeys \in {<<>>} \cup {<< keys >> : keys \in KeySets}
      /\ Stand(p)
  BY DEF ServerInvariant, Maps, Stand
<1>2. /\ toClient[p] # <<>> /\ toClient' = [toClient EXCEPT ![p] = Tail(toClient[p])]
      /\ sessions' = sessions
      /\ UNCHANGED << identityKeys, peer, opens, dropped, carried >>
      /\ Takes(p, Opened(client[p], Head(toClient[p])))
  BY DEF ClientTakes, FromServer
<1>3. PICK n, after : /\ Replaced(client', client, p, n)
                      /\ Replaced(toServer', toServer, p, after)
                      /\ Takings(client[p], Head(toClient[p]), toServer[p], n, after)
  BY <1>1, <1>2, TakesIs
<1> DEFINE v == peer[p]
           c == client[p]
           up == toServer[p]
           down == toClient[p]
           o == opens[p]
           d == p \in dropped
           r == p \in carried
           rest == Tail(down)
<1>4. client'[p] = n /\ DOMAIN client' = Peers /\ \A q \in Peers : q # p => client'[q] = client[q]
  BY <1>3 DEF Replaced
<1>5. toServer'[p] = after /\ DOMAIN toServer' = Peers
      /\ \A q \in Peers : q # p => toServer'[q] = toServer[q]
  BY <1>3 DEF Replaced
<1>6. toClient'[p] = rest /\ DOMAIN toClient' = Peers
      /\ \A q \in Peers : q # p => toClient'[q] = toClient[q]
  BY <1>1, <1>2, ReplacedAt
<1>7. /\ Kept(v) /\ Len(down) <= Window /\ o \in Nat /\ o <= MaxOpens /\ down # <<>>
      /\ p \in sessions /\ InStage(v, c, up, down, d, r, o)
  BY <1>1, <1>2, StandIs
<1>8. rest = Tail(down) /\ Takings(c, Head(down), up, n, after)
  BY <1>3
<1>9. InStage(v, n, after, rest, d, r, o)
  <2> HIDE DEF v, c, up, down, o, d, r, rest
  <2> QED
    BY <1>7, <1>8, StageTakes
<1>10. Len(rest) <= Window
  <2> HIDE DEF v, c, up, down, o, d, r
  <2> QED
    BY <1>7, Shorter
<1>11. Maps'
  BY <1>1, <1>2, <1>4, <1>5, <1>6 DEF Maps
<1>12. \A q \in Peers : q # p => Left(q)
  <2> HIDE DEF rest
  <2> QED
    BY <1>2, <1>4, <1>5, <1>6 DEF Left
<1>13. Stand(p)'
  <2> HIDE DEF rest
  <2>1. InStage(peer'[p], client'[p], toServer'[p], toClient'[p], p \in dropped', p \in carried', opens'[p])
    BY <1>2, <1>4, <1>5, <1>6, <1>9
  <2> QED
    BY <1>2, <1>6, <1>7, <1>10, <2>1 DEF Stand, OfSession
<1> QED
  BY <1>11, <1>12, <1>13

\* What a client does by itself.
LEMMA ActsIs ==
  ASSUME NEW p \in Peers, DOMAIN client = Peers, DOMAIN toServer = Peers, ClientActs(p)
  PROVE  \E n, after : /\ Replaced(client', client, p, n)
                       /\ Replaced(toServer', toServer, p, after)
                       /\ Acting(client[p], toServer[p], n, after)
<1> DEFINE c == client[p]
           up == toServer[p]
<1>1. ASSUME NEW next, NEW out, Answers(p, next, out), NEW n, n = Sending(next, out),
             NEW after, after = up \o out
      PROVE  Replaced(client', client, p, n) /\ Replaced(toServer', toServer, p, after)
  <2>1. client' = [client EXCEPT ![p] = n] /\ toServer' = [toServer EXCEPT ![p] = after]
    BY <1>1 DEF Answers, Sending, SentTo
  <2> QED
    BY <2>1, ReplacedAt DEF Replaced
<1>2. CASE \E x \in Places : Answers(p, TripTo(c, x), Batched(c, << Moved(x) >>))
  <2>1. PICK x \in Places : Answers(p, TripTo(c, x), Batched(c, << Moved(x) >>))
    BY <1>2
  <2> DEFINE next == TripTo(c, x)
             out == Batched(c, << Moved(x) >>)
             n == Sending(next, out)
             after == up \o out
  <2>2. Acting(c, up, n, after)
    BY DEF Acting
  <2>3. Answers(p, next, out)
    BY <2>1
  <2> HIDE DEF next, out
  <2>4. n = Sending(next, out) /\ after = up \o out
    OBVIOUS
  <2> HIDE DEF n, after
  <2>5. Replaced(client', client, p, n) /\ Replaced(toServer', toServer, p, after)
    BY <1>1, <2>3, <2>4
  <2> QED
    BY <2>2, <2>5
<1>3. CASE \E r \in Radii : Answers(p, Trip(c), Batched(c, << RadiusWanted(r) >>))
  <2>1. PICK r \in Radii : Answers(p, Trip(c), Batched(c, << RadiusWanted(r) >>))
    BY <1>3
  <2> DEFINE next == Trip(c)
             out == Batched(c, << RadiusWanted(r) >>)
             n == Sending(next, out)
             after == up \o out
  <2>2. Acting(c, up, n, after)
    BY DEF Acting
  <2>3. Answers(p, next, out)
    BY <2>1
  <2> HIDE DEF next, out
  <2>4. n = Sending(next, out) /\ after = up \o out
    OBVIOUS
  <2> HIDE DEF n, after
  <2>5. Replaced(client', client, p, n) /\ Replaced(toServer', toServer, p, after)
    BY <1>1, <2>3, <2>4
  <2> QED
    BY <2>2, <2>5
<1> QED
  BY <1>2, <1>3 DEF ClientActs, TripTo, Trip

\* The client acts.
LEMMA ClientActsStands ==
  ASSUME ServerInvariant, NEW p \in Peers, ClientActs(p)
  PROVE  Maps' /\ Stand(p)' /\ \A q \in Peers : q # p => Left(q)
<1>1. /\ sessions \subseteq Peers
      /\ DOMAIN peer = Peers /\ DOMAIN toClient = Peers /\ DOMAIN toServer = Peers
      /\ DOMAIN client = Peers /\ DOMAIN opens = Peers
      /\ identityKeys \in {<<>>} \cup {<< keys >> : keys \in KeySets}
      /\ Stand(p)
  BY DEF ServerInvariant, Maps, Stand
<1>2. /\ client[p].phase = "spawned"
      /\ UNCHANGED << identityKeys, peer, sessions, toClient, opens, dropped, carried >>
  BY DEF ClientActs
<1>3. PICK n, after : /\ Replaced(client', client, p, n)
                      /\ Replaced(toServer', toServer, p, after)
                      /\ Acting(client[p], toServer[p], n, after)
  BY <1>1, ActsIs
<1> DEFINE v == peer[p]
           c == client[p]
           up == toServer[p]
           down == toClient[p]
           o == opens[p]
           d == p \in dropped
           r == p \in carried
<1>4. p \in sessions
  <2>1. client[p] # Away
    BY <1>2 DEF Away
  <2> QED
    BY <1>1, <2>1, StandIs
<1>5. Kept(v) /\ Len(down) <= Window /\ o \in Nat /\ o <= MaxOpens /\ InStage(v, c, up, down, d, r, o)
  BY <1>1, <1>4, StandIs
<1>6. c.phase = "spawned" /\ Acting(c, up, n, after)
  BY <1>2, <1>3
<1>7. InStage(v, n, after, down, d, r, o)
  <2> HIDE DEF v, c, up, down, o, d, r
  <2> QED
    BY <1>5, <1>6, StageActs
<1>8. Maps'
  BY <1>1, <1>2, <1>3 DEF Maps, Replaced
<1>9. \A q \in Peers : q # p => Left(q)
  BY <1>2, <1>3 DEF Left, Replaced
<1>10. Stand(p)'
  <2>1. InStage(peer'[p], client'[p], toServer'[p], toClient'[p], p \in dropped', p \in carried', opens'[p])
    BY <1>2, <1>3, <1>7 DEF Replaced
  <2> QED
    BY <1>2, <1>4, <1>5, <2>1 DEF Stand, OfSession
<1> QED
  BY <1>8, <1>9, <1>10

-----------------------------------------------------------------------------
(* Sessions begin and end.                                                  *)

\* A session opens, with whatever an earlier one left.
LEMMA ConnectStands ==
  ASSUME ServerInvariant, NEW p \in Peers, Connect(p)
  PROVE  Maps' /\ Stand(p)' /\ \A q \in Peers : q # p => Left(q)
<1>1. /\ sessions \subseteq Peers
      /\ DOMAIN peer = Peers /\ DOMAIN toClient = Peers /\ DOMAIN toServer = Peers
      /\ DOMAIN client = Peers /\ DOMAIN opens = Peers
      /\ identityKeys \in {<<>>} \cup {<< keys >> : keys \in KeySets}
      /\ Stand(p)
  BY DEF ServerInvariant, Maps, Stand
<1> DEFINE v == peer[p]
           c == AskedClient
           up == << InClear(Request) >>
           more == opens[p] + 1
           d == p \in dropped'
           r == p \in carried'
<1>2. /\ p \notin sessions /\ opens[p] < MaxOpens
      /\ sessions' = sessions \cup {p}
      /\ dropped' = dropped \ {p}
      /\ carried' = IF peer[p] # Nothing THEN carried \cup {p} ELSE carried \ {p}
      /\ peer' = peer /\ identityKeys' = identityKeys
  BY DEF Connect
<1>3. Kept(v) /\ opens[p] \in Nat
  BY <1>1, StandIs
<1>4. more \in Nat /\ more <= MaxOpens
  <2>1. MaxOpens \in Nat
    BY ServerAssumption
  <2> QED
    BY <1>2, <1>3, <2>1
<1>5. client' = [client EXCEPT ![p] = c] /\ toServer' = [toServer EXCEPT ![p] = up]
      /\ toClient' = [toClient EXCEPT ![p] = <<>>] /\ opens' = [opens EXCEPT ![p] = more]
  BY DEF Connect, AskedClient
<1>6. ~ d /\ (r <=> v # Nothing) /\ p \in sessions'
  BY <1>2
<1>7. Asked(v, c, up, <<>>, d, r)
  BY <1>6 DEF Asked
<1> HIDE DEF c, up, more
<1>8. Replaced(client', client, p, c)
  BY <1>1, <1>5, ReplacedAt DEF Replaced
<1>9. Replaced(toServer', toServer, p, up)
  BY <1>1, <1>5, ReplacedAt DEF Replaced
<1>10. Replaced(toClient', toClient, p, <<>>)
  BY <1>1, <1>5, ReplacedAt DEF Replaced
<1>11. Replaced(opens', opens, p, more)
  BY <1>1, <1>5, ReplacedAt DEF Replaced
<1>12. Maps'
  BY <1>1, <1>2, <1>8, <1>9, <1>10, <1>11 DEF Maps, Replaced
<1>13. \A q \in Peers : q # p => Left(q)
  <2>1. \A q \in Peers : q # p =>
          /\ q \in sessions' <=> q \in sessions
          /\ q \in dropped' <=> q \in dropped
          /\ q \in carried' <=> q \in carried
    BY <1>2
  <2> QED
    BY <1>2, <1>8, <1>9, <1>10, <1>11, <2>1 DEF Left, Replaced
<1>14. Stand(p)'
  <2>1. InStage(peer'[p], client'[p], toServer'[p], toClient'[p], p \in dropped', p \in carried', opens'[p])
    <3>1. InStage(v, c, up, <<>>, d, r, opens'[p])
      BY <1>7 DEF InStage
    <3>2. peer'[p] = v /\ client'[p] = c /\ toServer'[p] = up /\ toClient'[p] = <<>>
      BY <1>2, <1>8, <1>9, <1>10 DEF Replaced
    <3> QED
      BY <3>1, <3>2
  <2>2. Len(toClient'[p]) <= Window /\ opens'[p] = more
    BY <1>10, <1>11, WindowIs DEF Replaced
  <2> QED
    BY <1>2, <1>3, <1>4, <1>6, <2>1, <2>2 DEF Stand, OfSession
<1> QED
  BY <1>12, <1>13, <1>14

\* A session ends, and something is kept, or nothing.
LEMMA EndsStands ==
  ASSUME ServerInvariant, NEW p \in Peers, SessionEnds(p),
         NEW v, Kept(v), Replaced(peer', peer, p, v)
  PROVE  Maps' /\ Stand(p)' /\ \A q \in Peers : q # p => Left(q)
<1>1. /\ sessions \subseteq Peers
      /\ DOMAIN peer = Peers /\ DOMAIN toClient = Peers /\ DOMAIN toServer = Peers
      /\ DOMAIN client = Peers /\ DOMAIN opens = Peers
      /\ identityKeys \in {<<>>} \cup {<< keys >> : keys \in KeySets}
      /\ Stand(p)
  BY DEF ServerInvariant, Maps, Stand
<1>2. /\ sessions' = sessions \ {p}
      /\ client' = [client EXCEPT ![p] = Away]
      /\ toServer' = [toServer EXCEPT ![p] = <<>>]
      /\ toClient' = [toClient EXCEPT ![p] = <<>>]
      /\ UNCHANGED << identityKeys, opens, dropped, carried >>
  BY DEF SessionEnds
<1>3. opens[p] \in Nat /\ opens[p] <= MaxOpens
  BY <1>1, StandIs
<1>4. Replaced(client', client, p, Away)
  BY <1>1, <1>2, ReplacedAt DEF Replaced
<1>5. Replaced(toServer', toServer, p, <<>>)
  BY <1>1, <1>2, ReplacedAt DEF Replaced
<1>6. Replaced(toClient', toClient, p, <<>>)
  BY <1>1, <1>2, ReplacedAt DEF Replaced
<1>7. Maps'
  BY <1>1, <1>2, <1>4, <1>5, <1>6 DEF Maps, Replaced
<1>8. \A q \in Peers : q # p => Left(q)
  <2>1. \A q \in Peers : q # p => (q \in sessions' <=> q \in sessions)
    BY <1>2
  <2> QED
    BY <1>2, <1>4, <1>5, <1>6, <2>1 DEF Left, Replaced
<1>9. Stand(p)'
  <2>1. p \notin sessions' /\ client'[p] = Away /\ toServer'[p] = <<>> /\ toClient'[p] = <<>>
        /\ peer'[p] = v /\ opens'[p] = opens[p] /\ Len(toClient'[p]) <= Window
    BY <1>2, <1>4, <1>5, <1>6, WindowIs DEF Replaced
  <2> QED
    BY <1>3, <2>1 DEF Stand, OfSession
<1> QED
  BY <1>7, <1>8, <1>9

\* By a farewell,
LEMMA DisconnectedStands ==
  ASSUME ServerInvariant, NEW p \in Peers, Disconnected(p)
  PROVE  Maps' /\ Stand(p)' /\ \A q \in Peers : q # p => Left(q)
<1>1. SessionEnds(p) /\ peer' = [peer EXCEPT ![p] = Nothing]
  BY DEF Disconnected, Forgotten
<1>2. DOMAIN peer = Peers
  BY DEF ServerInvariant, Maps
<1>3. Replaced(peer', peer, p, Nothing)
  BY <1>1, <1>2, ReplacedAt DEF Replaced
<1> QED
  BY <1>1, <1>3, KeptNothing, EndsStands

\* or by silence.
LEMMA TimedOutStands ==
  ASSUME ServerInvariant, NEW p \in Peers, TimedOut(p)
  PROVE  Maps' /\ Stand(p)' /\ \A q \in Peers : q # p => Left(q)
<1>1. SessionEnds(p) /\ peer' = peer
  BY DEF TimedOut
<1>2. DOMAIN peer = Peers /\ Stand(p)
  BY DEF ServerInvariant, Maps, Stand
<1>3. Kept(peer[p])
  BY <1>2, StandIs
<1>4. Replaced(peer', peer, p, peer[p])
  BY <1>1, <1>2 DEF Replaced
<1> QED
  BY <1>1, <1>3, <1>4, EndsStands

-----------------------------------------------------------------------------
\* No session, at first.
LEMMA InitStands == Init => ServerInvariant
<1> SUFFICES ASSUME Init PROVE ServerInvariant
  OBVIOUS
<1>1. Maps
  BY DEF Init, Maps
<1>2. ASSUME NEW p \in Peers PROVE Stand(p)
  <2>1. peer[p] = Nothing /\ client[p] = Away /\ toServer[p] = <<>> /\ toClient[p] = <<>>
        /\ opens[p] = 0 /\ p \notin sessions
    BY DEF Init
  <2>2. 0 <= MaxOpens /\ 0 \in Nat
    BY ServerAssumption
  <2> QED
    BY <2>1, <2>2, KeptNothing, WindowIs, StandIs
<1> QED
  BY <1>1, <1>2 DEF ServerInvariant, Stand

\* A step of one peer is one of all.
LEMMA OneStands ==
  ASSUME ServerInvariant, NEW p \in Peers, Maps', Stand(p)', \A q \in Peers : q # p => Left(q)
  PROVE  ServerInvariant'
<1>1. ASSUME NEW q \in Peers PROVE Stand(q)'
  <2>1. CASE q = p
    BY <2>1
  <2>2. CASE q # p
    <3>1. Stand(q)
      BY DEF ServerInvariant, Stand
    <3> QED
      BY <2>2, <3>1, LeftStands
  <2> QED
    BY <2>1, <2>2
<1> QED
  BY <1>1 DEF ServerInvariant, Stand

\* The invariant is inductive.
LEMMA NextStands == ServerInvariant /\ [Next]_vars => ServerInvariant'
<1> SUFFICES ASSUME ServerInvariant, [Next]_vars PROVE ServerInvariant'
  OBVIOUS
<1>1. CASE SetIdentityKeys
  <2>1. Maps
    BY DEF ServerInvariant
  <2>2. /\ \E keys \in KeySets : identityKeys' = << keys >>
        /\ UNCHANGED << peer, sessions, toClient, toServer, client, opens, dropped, carried >>
    BY <1>1 DEF SetIdentityKeys, wires
  <2>3. Maps'
    BY <2>1, <2>2 DEF Maps
  <2>4. ASSUME NEW q \in Peers PROVE Stand(q)'
    <3>1. Stand(q)
      BY DEF ServerInvariant, Stand
    <3>2. Left(q)
      BY <2>2 DEF Left
    <3> QED
      BY <3>1, <3>2, LeftStands
  <2> QED
    BY <2>3, <2>4 DEF ServerInvariant, Stand
<1>2. CASE UNCHANGED vars
  <2>1. Maps
    BY DEF ServerInvariant
  <2>2. UNCHANGED << identityKeys, peer, sessions, toClient, toServer, client, opens, dropped, carried >>
    BY <1>2 DEF vars, wires
  <2>3. Maps'
    BY <2>1, <2>2 DEF Maps
  <2>4. ASSUME NEW q \in Peers PROVE Stand(q)'
    <3>1. Stand(q)
      BY DEF ServerInvariant, Stand
    <3>2. Left(q)
      BY <2>2 DEF Left
    <3> QED
      BY <3>1, <3>2, LeftStands
  <2> QED
    BY <2>3, <2>4 DEF ServerInvariant, Stand
<1>3. ASSUME NEW p \in Peers,
             Receive(p) \/ Disconnected(p) \/ TimedOut(p) \/ Connect(p) \/ ClientTakes(p) \/ ClientActs(p)
      PROVE  ServerInvariant'
  <2>1. CASE Receive(p)
    BY <2>1, ReceiveStands, OneStands
  <2>2. CASE Disconnected(p)
    BY <2>2, DisconnectedStands, OneStands
  <2>3. CASE TimedOut(p)
    BY <2>3, TimedOutStands, OneStands
  <2>4. CASE Connect(p)
    BY <2>4, ConnectStands, OneStands
  <2>5. CASE ClientTakes(p)
    BY <2>5, ClientTakesStands, OneStands
  <2>6. CASE ClientActs(p)
    BY <2>6, ClientActsStands, OneStands
  <2> QED
    BY <1>3, <2>1, <2>2, <2>3, <2>4, <2>5, <2>6
<1> QED
  BY <1>1, <1>2, <1>3 DEF Next

\* Server, whatever its clients send: every session stands at one of the stages
\* of the sequence (settings, login, key or refusal, world), and at each of them
\* what the server keeps for the peer, what its client holds and what is on its
\* way between the two fit together, for any number of peers and any constants.
THEOREM SessionsAgree == Spec => []ServerInvariant
BY InitStands, NextStands, PTL DEF Spec

-----------------------------------------------------------------------------
(* What the invariant says.                                                 *)

InBytes(q) == \A m \in Range(q) : Range(m.bytes) \subseteq Byte

\* What is sent is bytes.
LEMMA SealedBytes ==
  ASSUME NEW q \in Packet
  PROVE  EncodeWithMethod(<< q >>) \in Seq(Byte) /\ Encode(<< q >>) \in Seq(Byte)
<1>1. << q >> \in Seq(Packet)
  <2> HIDE DEF Packet
  <2> QED
    OBVIOUS
<1> HIDE DEF Packet
<1>2. EncodeWithMethod(<< q >>) \in Seq(Byte)
  BY <1>1, BatchIs
<1>3. EncodePackets(<< q >>) \in Seq(Byte)
  BY <1>1, BatchBytes
<1>4. Encode(<< q >>) = << MARKER >> \o EncodePackets(<< q >>)
  BY DEF Encode
<1>5. << MARKER >> \in Seq(Byte)
  BY DEF MARKER, Byte
<1> DEFINE e == EncodePackets(<< q >>)
<1> HIDE DEF e, Byte
<1>6. << MARKER >> \o e \in Seq(Byte)
  BY <1>3, <1>5 DEF e
<1> QED
  BY <1>2, <1>4, <1>6 DEF e

LEMMA OneInBytes ==
  ASSUME NEW m, m.bytes \in Seq(Byte)
  PROVE  InBytes(<< m >>)
<1>1. Range(<< m >>) = {m}
  BY DEF Range
<1>2. Range(m.bytes) \subseteq Byte
  <2> HIDE DEF Byte
  <2> QED
    BY DEF Range
<1> QED
  BY <1>1, <1>2 DEF InBytes

LEMMA EachInBytes ==
  ASSUME NEW q, \A i \in DOMAIN q : q[i].bytes \in Seq(Byte)
  PROVE  InBytes(q)
<1> SUFFICES ASSUME NEW m \in Range(q) PROVE Range(m.bytes) \subseteq Byte
  BY DEF InBytes
<1>1. m.bytes \in Seq(Byte)
  BY DEF Range
<1> HIDE DEF Byte
<1> QED
  BY <1>1 DEF Range

LEMMA NoneInBytes == InBytes(<<>>)
BY EachInBytes

\* So is what is on its way.
LEMMA StageInBytes ==
  ASSUME NEW v, NEW c, NEW up, NEW down, NEW d, NEW r, NEW o \in Nat, o <= MaxOpens,
         InStage(v, c, up, down, d, r, o)
  PROVE  InBytes(up) /\ InBytes(down)
<1>1. ASSUME NEW q \in Packet
      PROVE  /\ InBytes(<< InClear(EncodeWithMethod(<< q >>)) >>) /\ InBytes(<< InClear(Encode(<< q >>)) >>)
             /\ \A key : InBytes(<< [key |-> key, n |-> 0, bytes |-> EncodeWithMethod(<< q >>)] >>)
  <2> DEFINE e == EncodeWithMethod(<< q >>)
             f == Encode(<< q >>)
  <2>1. e \in Seq(Byte) /\ f \in Seq(Byte)
    BY SealedBytes
  <2> HIDE DEF e, f
  <2>2. InClear(e).bytes = e /\ InClear(f).bytes = f
    BY DEF InClear
  <2>3. InBytes(<< InClear(e) >>) /\ InBytes(<< InClear(f) >>)
    BY <2>1, <2>2, OneInBytes
  <2>4. ASSUME NEW key PROVE InBytes(<< [key |-> key, n |-> 0, bytes |-> e] >>)
    <3> DEFINE m == [key |-> key, n |-> 0, bytes |-> e]
    <3>1. m.bytes = e
      OBVIOUS
    <3> HIDE DEF m
    <3>2. InBytes(<< m >>)
      BY <2>1, <3>1, OneInBytes
    <3> QED
      BY <3>2 DEF m
  <2> QED
    BY <2>3, <2>4 DEF e, f
<1>2. CASE Asked(v, c, up, down, d, r)
  <2>1. Request \in Seq(Byte)
    BY RequestIs
  <2>2. InClear(Request).bytes = Request
    BY DEF InClear
  <2>3. InBytes(<< InClear(Request) >>)
    BY <2>1, <2>2, OneInBytes
  <2> QED
    BY <1>2, <2>3, NoneInBytes DEF Asked
<1>3. CASE Answering(v, c, up, down)
  <2> DEFINE q == Uncompressed
  <2>1. q \in Packet
    BY UncompressedSays DEF Says
  <2> HIDE DEF q, Packet
  <2>2. InBytes(<< InClear(Encode(<< q >>)) >>)
    BY <1>1, <2>1
  <2> QED
    BY <1>3, <2>2, NoneInBytes DEF Answering, q
<1>4. CASE Lost(v, c, up, down, d, r)
  BY <1>4, NoneInBytes DEF Lost
<1>5. ASSUME NEW l \in Logins, LoggingIn(l, v, c, up, down) PROVE InBytes(up) /\ InBytes(down)
  <2> DEFINE q == LoginPacket(l)
  <2>1. q \in Packet
    BY LoginRead
  <2> HIDE DEF q, Packet
  <2>2. InBytes(<< InClear(EncodeWithMethod(<< q >>)) >>)
    BY <1>1, <2>1
  <2> QED
    BY <1>5, <2>2, NoneInBytes DEF LoggingIn, q
<1>6. ASSUME NEW l \in Logins, Refusing(l, v, c, up, down) PROVE InBytes(up) /\ InBytes(down)
  <2> DEFINE q == StatusPacket("InvalidTenant")
  <2>1. q \in Packet
    <3>1. "InvalidTenant" \in DOMAIN Status
      BY DEF Status
    <3> QED
      BY <3>1, StatusTold DEF Speakable
  <2> HIDE DEF q, Packet
  <2>2. InBytes(<< InClear(EncodeWithMethod(<< q >>)) >>)
    BY <1>1, <2>1
  <2> QED
    BY <1>6, <2>2, NoneInBytes DEF Refusing, q
<1>7. ASSUME NEW l \in Logins, Greeting(l, v, c, up, down, o) PROVE InBytes(up) /\ InBytes(down)
  <2> DEFINE q == ServerToClientHandshake(<< o >>)
  <2>1. q \in Packet
    BY OpensAreBytes, HandshakeSays DEF Says
  <2> HIDE DEF q, Packet
  <2>2. InBytes(<< InClear(EncodeWithMethod(<< q >>)) >>)
    BY <1>1, <2>1
  <2> QED
    BY <1>7, <2>2, NoneInBytes DEF Greeting, q
<1>8. ASSUME NEW l \in Logins, Apart(l, v, c, up, down, o) PROVE InBytes(up) /\ InBytes(down)
  <2> DEFINE q == Hello
  <2>1. q \in Packet
    BY OthersAsked
  <2> HIDE DEF q, Packet
  <2>2. \A key : InBytes(<< [key |-> key, n |-> 0, bytes |-> EncodeWithMethod(<< q >>)] >>)
    BY <1>1, <2>1
  <2>3. down = <<>> /\ (up = <<>> \/ up = << [key |-> c.key, n |-> 0, bytes |-> EncodeWithMethod(<< q >>)] >>)
    BY <1>8 DEF Apart, q
  <2> QED
    BY <2>2, <2>3, NoneInBytes
<1>9. ASSUME NEW l \in Logins, Open(l, v, c, up, down, d, o) PROVE InBytes(up) /\ InBytes(down)
  <2>1. \A i \in DOMAIN up : Wanted(up[i])
    BY <1>9 DEF Open, UpOpen
  <2>2. \A i \in DOMAIN down : Spoken(down[i])
    BY <1>9 DEF Open, DownOpen
  <2>3. \A i \in DOMAIN up : up[i].bytes \in Seq(Byte)
    <3> HIDE DEF Byte
    <3> QED
      BY <2>1 DEF Wanted
  <2>4. \A i \in DOMAIN down : down[i].bytes \in Seq(Byte)
    <3> HIDE DEF Byte
    <3> QED
      BY <2>2 DEF Spoken
  <2> QED
    BY <2>3, <2>4, EachInBytes
<1> QED
  BY <1>2, <1>3, <1>4, <1>5, <1>6, <1>7, <1>8, <1>9 DEF InStage

\* What is kept of a peer, one entry of each map at most.
LEMMA KeptIs ==
  ASSUME NEW v, Kept(v)
  PROVE  /\ v.out = <<>>
         /\ v.player # <<>> => v.cipher # <<>> /\ DOMAIN v.player = {1} /\ IsPlayer(v.player[1])
                               /\ Viewed(v.player[1])
         /\ v.cipher # <<>> => v.key /\ DOMAIN v.cipher = {1}
         /\ v.key = (v.protocol # <<>>)
         /\ v.player = <<>> => DOMAIN v.player = {}
         /\ v.cipher = <<>> => DOMAIN v.cipher = {}
<1>1. ASSUME NEW s, IsOne(s) PROVE DOMAIN s = {1}
  <2> DEFINE x == s[1]
  <2>1. s = << x >>
    BY <1>1 DEF IsOne
  <2> HIDE DEF x
  <2> QED
    BY <2>1
<1>2. v.key = (v.protocol # <<>>)
  <2>1. v.key \in BOOLEAN /\ (v.key <=> v.protocol # <<>>)
    BY DEF Kept
  <2> QED
    BY <2>1
<1> QED
  BY <1>1, <1>2 DEF Kept

LEMMA TypesHold == ServerInvariant => TypeOK
<1> SUFFICES ASSUME ServerInvariant PROVE TypeOK
  OBVIOUS
<1>1. sessions \subseteq Peers
  BY DEF ServerInvariant, Maps
<1>2. ASSUME NEW p \in Peers
      PROVE  /\ peer[p].out = <<>> /\ Len(toClient[p]) <= Window
             /\ peer[p].player # <<>> => peer[p].cipher # <<>>
             /\ peer[p].cipher # <<>> => peer[p].key
             /\ peer[p].key = (peer[p].protocol # <<>>)
             /\ \A m \in Range(toClient[p]) \cup Range(toServer[p]) : Range(m.bytes) \subseteq Byte
  <2>1. Stand(p)
    BY DEF ServerInvariant, Stand
  <2> DEFINE v == peer[p]
             c == client[p]
             up == toServer[p]
             down == toClient[p]
             o == opens[p]
             d == p \in dropped
             r == p \in carried
  <2>2. /\ Kept(v) /\ Len(down) <= Window /\ o \in Nat /\ o <= MaxOpens
        /\ p \in sessions => InStage(v, c, up, down, d, r, o)
        /\ p \notin sessions => up = <<>> /\ down = <<>>
    BY <2>1, StandIs
  <2>3. InBytes(up) /\ InBytes(down)
    <3>1. CASE p \in sessions
      <4>1. InStage(v, c, up, down, d, r, o)
        BY <2>2, <3>1
      <4> HIDE DEF v, c, up, down, d, r, o
      <4> QED
        BY <2>2, <4>1, StageInBytes
    <3>2. CASE p \notin sessions
      BY <2>2, <3>2, NoneInBytes
    <3> QED
      BY <3>1, <3>2
  <2>4. \A m \in Range(down) \cup Range(up) : Range(m.bytes) \subseteq Byte
    <3> HIDE DEF Byte
    <3> QED
      BY <2>3 DEF InBytes
  <2>5. /\ v.out = <<>>
        /\ v.player # <<>> => v.cipher # <<>>
        /\ v.cipher # <<>> => v.key
        /\ v.key = (v.protocol # <<>>)
    <3>1. v.out = <<>>
      BY <2>2, KeptIs
    <3>2. v.player # <<>> => v.cipher # <<>>
      BY <2>2, KeptIs
    <3>3. v.cipher # <<>> => v.key
      BY <2>2, KeptIs
    <3>4. v.key = (v.protocol # <<>>)
      BY <2>2, KeptIs
    <3> QED
      BY <3>1, <3>2, <3>3, <3>4
  <2> QED
    BY <2>2, <2>4, <2>5
<1> QED
  BY <1>1, <1>2 DEF TypeOK

\* Where a session stands that has a cipher and nothing to reproach itself with.
LEMMA CleanStage ==
  ASSUME NEW v, NEW c, NEW up, NEW down, NEW d, NEW r, NEW o, InStage(v, c, up, down, d, r, o),
         ~ d, ~ r, v.cipher # <<>>
  PROVE  \E l \in Logins : \/ Greeting(l, v, c, up, down, o)
                           \/ Apart(l, v, c, up, down, o)
                           \/ Open(l, v, c, up, down, d, o)
<1>1. Settled.cipher = <<>>
  BY SettledIs
<1>2. Nothing.cipher = <<>>
  BY DEF Nothing
<1>3. ~ Asked(v, c, up, down, d, r) /\ ~ Answering(v, c, up, down) /\ ~ Lost(v, c, up, down, d, r)
  BY <1>1, <1>2 DEF Asked, Answering, Lost
<1>4. \A l \in Logins : ~ LoggingIn(l, v, c, up, down) /\ ~ Refusing(l, v, c, up, down)
  BY <1>1 DEF LoggingIn, Refusing
<1> QED
  BY <1>3, <1>4 DEF InStage

\* A cipher as it is made.
LEMMA GreetedIs ==
  ASSUME NEW l, NEW o, Greeted(l, o) # <<>>, NEW cipher, cipher = Greeted(l, o)[1]
  PROVE  /\ cipher.key = Shared(l, o) /\ cipher.key # <<>> /\ cipher.sent = 0 /\ cipher.received = 0
         /\ cipher.aligned
<1> DEFINE shared == Shared(l, o)
           yes == TRUE
<1>1. Greeted(l, o) = << [key |-> shared, sent |-> 0, received |-> 0, aligned |-> yes] >>
      /\ shared # <<>>
  BY DEF Greeted
<1> HIDE DEF shared, yes
<1>2. cipher = [key |-> shared, sent |-> 0, received |-> 0, aligned |-> yes]
  BY <1>1
<1>3. cipher.key = shared /\ cipher.sent = 0 /\ cipher.received = 0 /\ cipher.aligned = yes
  BY <1>2
<1>4. cipher.aligned
  BY <1>3 DEF yes
<1> QED
  BY <1>1, <1>3, <1>4 DEF shared

LEMMA ClearPayload ==
  ASSUME NEW bytes
  PROVE  OnItsWay(<< InClear(bytes) >>) = 0
<1> DEFINE m == InClear(bytes)
<1>1. m.key = <<>>
  BY DEF InClear
<1> HIDE DEF m
<1>2. \A i \in DOMAIN << m >> : << m >>[i].key = <<>>
  BY <1>1
<1>3. OnItsWay(<< m >>) = 0
  BY <1>2, ClearCount
<1> QED
  BY <1>3 DEF m

Stepped(cipher, c, up, down) ==
  /\ cipher.aligned
  /\ cipher.sent = c.taken + OnItsWay(down)
  /\ cipher.received + OnItsWay(up) = c.sent
  /\ c.phase # "stuck"

\* Its counters, at any stage.
LEMMA StageInStep ==
  ASSUME NEW v, NEW c, NEW up, NEW down, NEW d, NEW r, NEW o, InStage(v, c, up, down, d, r, o),
         ~ d, ~ r, v.cipher # <<>>, c.phase = "keyed" => v.cipher[1].key = c.key
  PROVE  Stepped(v.cipher[1], c, up, down)
<1>1. PICK l \in Logins : \/ Greeting(l, v, c, up, down, o)
                          \/ Apart(l, v, c, up, down, o)
                          \/ Open(l, v, c, up, down, d, o)
  BY CleanStage
<1>2. ~ Apart(l, v, c, up, down, o)
  BY DEF Apart
<1>3. CASE Greeting(l, v, c, up, down, o)
  <2> DEFINE cipher == v.cipher[1]
             k == EncodeWithMethod(<< ServerToClientHandshake(<< o >>) >>)
  <2>1. /\ c = LoginClient(l) /\ up = <<>> /\ down = << InClear(k) >>
        /\ v.cipher = Greeted(l, o)
    BY <1>3 DEF Greeting
  <2>2. cipher.sent = 0 /\ cipher.received = 0 /\ cipher.aligned
    BY <2>1, GreetedIs
  <2>3. c.taken = 0 /\ c.sent = 0 /\ c.phase = "login"
    BY <2>1, LoginClientIs
  <2> HIDE DEF k, cipher
  <2>4. OnItsWay(down) = 0
    BY <2>1, ClearPayload
  <2>5. OnItsWay(up) = 0
    <3>1. \A i \in DOMAIN <<>> : <<>>[i].key = <<>>
      OBVIOUS
    <3>2. OnItsWay(<<>>) = 0
      BY <3>1, ClearCount
    <3> QED
      BY <2>1, <3>2
  <2>6. Stepped(cipher, c, up, down)
    BY <2>2, <2>3, <2>4, <2>5 DEF Stepped
  <2> QED
    BY <2>6 DEF cipher
<1>4. CASE Open(l, v, c, up, down, d, o)
  <2>1. /\ c.key # <<>> /\ IsClient(c) /\ v.cipher[1].aligned = TRUE
        /\ v.cipher[1].received \in Nat /\ v.cipher[1].sent \in Nat
        /\ IsSeq(up) /\ v.cipher[1].received + Len(up) = c.sent
        /\ Numbered(up, c.key, v.cipher[1].received)
    BY <1>4 DEF Open, UpOpen
  <2>2. /\ IsSeq(down) /\ (\A i \in DOMAIN down : down[i].key = c.key)
        /\ c.phase # "stuck" /\ v.cipher[1].sent = c.taken + Len(down)
    BY <1>4 DEF Open, DownOpen, InStep
  <2>3. \A i \in DOMAIN up : up[i].key # <<>>
    BY <2>1 DEF Numbered
  <2>4. OnItsWay(up) = Len(up)
    BY <2>1, <2>3, SealedCount
  <2>5. \A i \in DOMAIN down : down[i].key # <<>>
    BY <2>1, <2>2
  <2>6. OnItsWay(down) = Len(down)
    BY <2>2, <2>5, SealedCount
  <2> QED
    BY <2>1, <2>2, <2>4, <2>6 DEF Stepped
<1> QED
  BY <1>1, <1>2, <1>3, <1>4

LEMMA CountersHold == ServerInvariant => CountersInStep
<1> SUFFICES ASSUME ServerInvariant, NEW p \in Peers, NEW k \in DOMAIN peer[p].cipher, Clean(p),
                    client[p].phase = "keyed" => Agreed(p)
             PROVE  Stepped(peer[p].cipher[k], client[p], toServer[p], toClient[p])
  BY DEF CountersInStep, Stepped
<1>1. Stand(p)
  BY DEF ServerInvariant, Stand
<1> DEFINE v == peer[p]
           c == client[p]
           up == toServer[p]
           down == toClient[p]
           o == opens[p]
           d == p \in dropped
           r == p \in carried
<1>2. Kept(v) /\ (p \in sessions => InStage(v, c, up, down, d, r, o))
  BY <1>1, StandIs
<1>3. p \in sessions /\ ~ d /\ ~ r
  BY DEF Clean
<1>4. v.cipher = <<>> => DOMAIN v.cipher = {}
  BY <1>2, KeptIs
<1>5. v.cipher # <<>> => DOMAIN v.cipher = {1}
  BY <1>2, KeptIs
<1>6. v.cipher # <<>> /\ k = 1 /\ DOMAIN v.cipher = {1}
  BY <1>4, <1>5
<1>7. c.phase = "keyed" => v.cipher[1].key = c.key
  BY <1>6 DEF Agreed
<1>8. InStage(v, c, up, down, d, r, o)
  BY <1>2, <1>3
<1> HIDE DEF v, c, up, down, o, d, r
<1>9. Stepped(v.cipher[1], c, up, down)
  BY <1>3, <1>6, <1>7, <1>8, StageInStep
<1> QED
  BY <1>6, <1>9 DEF v, c, up, down

LEMMA VouchersHold == ServerInvariant => VouchedFor
<1> SUFFICES ASSUME ServerInvariant, NEW p \in Peers, NEW k \in DOMAIN peer[p].cipher, Clean(p)
             PROVE  LET token == Tokens[client[p].login[1].token]
                    IN /\ peer[p].cipher[k].key = << opens[p], PointFromDer(token.cpk) >>
                       /\ token.iss = TOKEN_ISSUER /\ token.aud = TOKEN_AUDIENCE
                       /\ \E keys \in KeySets : \E j \in DOMAIN keys : keys[j].pair = token.pair
  BY DEF VouchedFor
<1>1. Stand(p)
  BY DEF ServerInvariant, Stand
<1> DEFINE v == peer[p]
           c == client[p]
           up == toServer[p]
           down == toClient[p]
           o == opens[p]
           d == p \in dropped
           r == p \in carried
<1>2. Kept(v) /\ (p \in sessions => InStage(v, c, up, down, d, r, o))
  BY <1>1, StandIs
<1>3. p \in sessions /\ ~ d /\ ~ r
  BY DEF Clean
<1>4. v.cipher = <<>> => DOMAIN v.cipher = {}
  BY <1>2, KeptIs
<1>5. v.cipher # <<>> => DOMAIN v.cipher = {1}
  BY <1>2, KeptIs
<1>6. v.cipher # <<>> /\ k = 1
  BY <1>4, <1>5
<1>7. InStage(v, c, up, down, d, r, o)
  BY <1>2, <1>3
<1>8. \E l \in Logins : \/ Greeting(l, v, c, up, down, o)
                        \/ Apart(l, v, c, up, down, o)
                        \/ Open(l, v, c, up, down, d, o)
  <2> HIDE DEF v, c, up, down, o, d, r
  <2> QED
    BY <1>3, <1>6, <1>7, CleanStage
<1>9. PICK l \in Logins : c.login = << l >> /\ Vouched(l) /\ v.cipher[1].key = Shared(l, o)
                          /\ Shared(l, o) # <<>>
  <2>1. PICK l \in Logins : \/ Greeting(l, v, c, up, down, o)
                            \/ Apart(l, v, c, up, down, o)
                            \/ Open(l, v, c, up, down, d, o)
    BY <1>8
  <2>2. v.cipher[1].key # <<>>
    BY <1>2, <1>6 DEF Kept, IsCipher
  <2>3. CASE Greeting(l, v, c, up, down, o)
    <3>1. c = LoginClient(l) /\ Vouched(l) /\ v.cipher = Greeted(l, o)
      BY <2>3 DEF Greeting
    <3>2. c.login = << l >>
      BY <3>1, LoginClientIs
    <3>3. v.cipher[1].key = Shared(l, o)
      BY <1>6, <3>1, GreetedIs
    <3> QED
      BY <2>2, <3>1, <3>2, <3>3
  <2>4. CASE Apart(l, v, c, up, down, o)
    BY <1>6, <2>2, <2>4 DEF Apart
  <2>5. CASE Open(l, v, c, up, down, d, o)
    BY <2>2, <2>5 DEF Open, UpOpen
  <2> QED
    BY <2>1, <2>3, <2>4, <2>5
<1>10. c.login[1] = l
  BY <1>9
<1>11. Shared(l, o) = << o, PointFromDer(Tokens[l.token].cpk) >>
  BY <1>9 DEF Shared, Agree
<1>12. /\ Tokens[l.token].iss = TOKEN_ISSUER /\ Tokens[l.token].aud = TOKEN_AUDIENCE
       /\ \E keys \in KeySets : \E j \in DOMAIN keys : keys[j].pair = Tokens[l.token].pair
  BY <1>9 DEF Vouched
<1> QED
  BY <1>6, <1>9, <1>10, <1>11, <1>12

LEMMA ColumnsHold == ServerInvariant => ColumnsArrive
<1> SUFFICES ASSUME ServerInvariant, NEW p \in Peers, NEW k \in DOMAIN peer[p].player, Clean(p),
                    toClient[p] = <<>>
             PROVE  peer[p].player[k].sent \subseteq client[p].columns
  BY DEF ColumnsArrive
<1>1. Stand(p)
  BY DEF ServerInvariant, Stand
<1> DEFINE v == peer[p]
           c == client[p]
           up == toServer[p]
           down == toClient[p]
           o == opens[p]
           d == p \in dropped
           r == p \in carried
<1>2. Kept(v) /\ (p \in sessions => InStage(v, c, up, down, d, r, o))
  BY <1>1, StandIs
<1>3. p \in sessions /\ ~ d /\ ~ r
  BY DEF Clean
<1>4. v.player = <<>> => DOMAIN v.player = {}
  BY <1>2, KeptIs
<1>5. v.player # <<>> => v.cipher # <<>> /\ DOMAIN v.player = {1}
  BY <1>2, KeptIs
<1>6. v.cipher # <<>> /\ k = 1 /\ v.player # <<>>
  BY <1>4, <1>5
<1>7. InStage(v, c, up, down, d, r, o)
  BY <1>2, <1>3
<1>8. PICK l \in Logins : \/ Greeting(l, v, c, up, down, o)
                          \/ Apart(l, v, c, up, down, o)
                          \/ Open(l, v, c, up, down, d, o)
  <2> HIDE DEF v, c, up, down, o, d, r
  <2> QED
    BY <1>3, <1>6, <1>7, CleanStage
<1>9. Open(l, v, c, up, down, d, o)
  <2> HIDE DEF v, c, up, down, o, d, r
  <2> QED
    BY <1>6, <1>8 DEF Greeting, Apart
<1>10. v.player[1].sent \subseteq c.columns \cup Drawn(down)
  <2> HIDE DEF v, c, up, down, o, d, r
  <2> QED
    BY <1>3, <1>6, <1>9 DEF Open, DownOpen, InStep
<1>11. Drawn(<<>>) = {}
  BY DEF Drawn
<1> QED
  BY <1>6, <1>10, <1>11

LEMMA ViewHolds == ServerInvariant => ViewCovered
<1> SUFFICES ASSUME ServerInvariant, NEW p \in Peers, NEW k \in DOMAIN peer[p].player
             PROVE  LET player == peer[p].player[k]
                    IN /\ player.x - 1600 * player.center \in 0 .. 1599
                       /\ Around(player.center, player.radius) \subseteq player.sent
                       /\ player.sent \subseteq Around(player.center, player.radius + Margin)
  BY DEF ViewCovered
<1>1. Stand(p)
  BY DEF ServerInvariant, Stand
<1> DEFINE v == peer[p]
           player == v.player[1]
<1>2. Kept(v)
  BY <1>1, StandIs
<1>3. v.player = <<>> => DOMAIN v.player = {}
  BY <1>2, KeptIs
<1>4. v.player # <<>> => DOMAIN v.player = {1} /\ IsPlayer(v.player[1]) /\ Viewed(v.player[1])
  BY <1>2, KeptIs
<1>5. k = 1 /\ IsPlayer(player) /\ Viewed(player)
  BY <1>3, <1>4
<1> HIDE DEF player
<1>6. player.x \in Int /\ player.center \in Int /\ player.center = ColumnOf(player.x)
  BY <1>5 DEF IsPlayer, Viewed
<1>7. player.x - 1600 * player.center \in 0 .. 1599
  <2> DEFINE x == player.x
             n == player.center
  <2>1. x \in Int /\ n = (x \div 100) \div 16
    BY <1>6 DEF ColumnOf, CHUNK_WIDTH
  <2> HIDE DEF x, n
  <2>2. x - 1600 * n \in 0 .. 1599
    BY <2>1
  <2> QED
    BY <2>2 DEF x, n
<1>8. /\ Around(player.center, player.radius) \subseteq player.sent
      /\ player.sent \subseteq Around(player.center, player.radius + Margin)
  BY <1>5 DEF Viewed
<1>9. peer[p].player[k] = player
  BY <1>5 DEF player
<1> QED
  BY <1>7, <1>8, <1>9

LEMMA SpawnsHold == ServerInvariant => SpawnsIntoWorld
<1> SUFFICES ASSUME ServerInvariant, NEW p \in Peers, client[p].phase = "spawned", client[p].trips = 0
             PROVE  Around(ColumnOf(client[p].at), 1) \subseteq client[p].columns
  BY DEF SpawnsIntoWorld
<1>1. Stand(p)
  BY DEF ServerInvariant, Stand
<1> DEFINE v == peer[p]
           c == client[p]
           up == toServer[p]
           down == toClient[p]
           o == opens[p]
           d == p \in dropped
           r == p \in carried
<1>2. (p \in sessions => InStage(v, c, up, down, d, r, o)) /\ (p \notin sessions => c = Away)
  BY <1>1, StandIs
<1>3. InStage(v, c, up, down, d, r, o) /\ c.phase = "spawned"
  BY <1>2 DEF Away
<1> HIDE DEF v, up, down, o, d, r
<1>4. ~ Asked(v, c, up, down, d, r) /\ ~ Answering(v, c, up, down) /\ ~ Lost(v, c, up, down, d, r)
  BY <1>3, AwayIs DEF Asked, Answering, Lost
<1>5. \A l \in Logins : /\ ~ LoggingIn(l, v, c, up, down) /\ ~ Refusing(l, v, c, up, down)
                        /\ ~ Greeting(l, v, c, up, down, o) /\ ~ Apart(l, v, c, up, down, o)
  BY <1>3, LoginClientIs DEF LoggingIn, Refusing, Greeting, Apart
<1>6. PICK l \in Logins : Open(l, v, c, up, down, d, o)
  BY <1>3, <1>4, <1>5 DEF InStage
<1>7. IsClient(c) /\ {-1, 0, 1} \subseteq c.columns
  BY <1>3, <1>6 DEF Open, UpOpen, DownOpen, Heeded
<1>8. c.at \in {0, 50}
  BY <1>7 DEF IsClient
<1>9. ColumnOf(c.at) = 0
  BY <1>8 DEF ColumnOf, CHUNK_WIDTH
<1>10. Around(0, 1) \subseteq {-1, 0, 1}
  BY DEF Around
<1> QED
  BY <1>7, <1>9, <1>10

-----------------------------------------------------------------------------
\* The maps of Server: a player has a cipher and a cipher a key that was derived,
\* nothing is left to send between two calls, a session holds no more payloads
\* than its window, and what is on its way is bytes.
THEOREM TypesCorrect == Spec => []TypeOK
BY SessionsAgree, TypesHold, PTL

\* Cipher, at both ends: while nothing is refused, each side's packet counter is
\* ahead of the other's by exactly the packets on their way, so every packet
\* decrypts at either end.
THEOREM CountersAgree == Spec => []CountersInStep
BY SessionsAgree, CountersHold, PTL

\* on_login, jwt.rs, agreement.rs: a stream is encrypted under the key derived from
\* the public key of a token the issuer signed, for this audience and of this
\* login, whatever the tokens, key sets and clocks.
THEOREM KeysAreVouchedFor == Spec => []VouchedFor
BY SessionsAgree, VouchersHold, PTL

\* stream_around, level_chunk: while nothing is refused, a client that has read
\* everything holds every column the server remembers as sent to it.
THEOREM NoColumnIsLost == Spec => []ColumnsArrive
BY SessionsAgree, ColumnsHold, PTL

\* on_player_moved, stream_around, FORGET_MARGIN: the columns around the one the
\* player stands in have been sent, and none is remembered past the margin.
THEOREM ViewIsSent == Spec => []ViewCovered
BY SessionsAgree, ViewHolds, PTL

\* stream_world: a client is told to spawn after the columns around where StartGame
\* put it, so it spawns onto ground, in any session and whatever was refused.
THEOREM WorldBeforeSpawn == Spec => []SpawnsIntoWorld
BY SessionsAgree, SpawnsHold, PTL
=============================================================================

----------------------------- MODULE GamePackets -----------------------------
(***************************************************************************)
(* The packets of the game as bytes (bedrock-protocol): the batch that     *)
(* frames them and the layout of each packet the server reads or writes.   *)
(* Text is a sequence of bytes like any other.                             *)
(***************************************************************************)
EXTENDS Bytes

-----------------------------------------------------------------------------
(* The batch. A packet is [id, sender, target, body].                       *)

MARKER == 254
MethodNone == 255

NewPacket(id, body) == [id |-> id, sender |-> 0, target |-> 0, body |-> body]

\* Ten bits of id, two of each subclient.
Header(packet) == (packet.id % 1024) + 1024 * (packet.sender % 4) + 4096 * (packet.target % 4)

EncodePackets(packets) ==
  Concat([k \in DOMAIN packets |-> PutField(Prefixed, Varint[Header(packets[k])] \o packets[k].body)])

Encode(packets) == <<MARKER>> \o EncodePackets(packets)

\* From NetworkSettings on.
EncodeWithMethod(packets) == <<MARKER, MethodNone>> \o EncodePackets(packets)

PacketOf(inner, header, next) ==
  IF ~ header.ok THEN Failed
  ELSE Got([id     |-> header.value % 1024,
            sender |-> (header.value \div 1024) % 4,
            target |-> (header.value \div 4096) % 4,
            body   |-> SubSeq(inner, header.next, Len(inner))], next)

TakePacket(got) ==
  IF got.ok THEN PacketOf(got.value, TakeVarint(got.value, 1, 5), got.next) ELSE Failed

\* decode_packets: packets from start to the end.
DecodePackets(buf, start) ==
  LET from[at \in Nat \ {0}] ==
        LET onwards(one) == IF one.ok THEN Before(one, from[one.next]) ELSE Failed
        IN IF at > Len(buf) THEN Got(<<>>, at) ELSE onwards(TakePacket(TakeField(Prefixed, buf, at)))
  IN from[start]

Decode(bytes) ==
  IF bytes # <<>> /\ bytes[1] = MARKER THEN DecodePackets(bytes, 2) ELSE Failed

\* A compressed batch is told apart from a broken one, and yields as little.
DecodeWithMethod(bytes) ==
  IF Len(bytes) > 1 /\ bytes[1] = MARKER /\ bytes[2] = MethodNone
    THEN DecodePackets(bytes, 3)
    ELSE Failed

-----------------------------------------------------------------------------
(* handshake.rs.                                                            *)

ID_REQUEST_NETWORK_SETTINGS == 193
ID_NETWORK_SETTINGS == 143
ID_SERVER_TO_CLIENT_HANDSHAKE == 3
ID_CLIENT_TO_SERVER_HANDSHAKE == 4

RequestNetworkSettings == <<<<"protocol", Big(4)>>>>

NetworkSettings ==
  <<<<"compression_threshold", Little(2)>>, <<"compression", Little(2)>>,
    <<"client_throttle_enabled", U8>>, <<"client_throttle_threshold", U8>>,
    <<"client_throttle_scalar", Float>>>>

\* Compression::None is 2.
Uncompressed ==
  NewPacket(ID_NETWORK_SETTINGS,
    Write(NetworkSettings,
          [compression_threshold |-> 0, compression |-> 2, client_throttle_enabled |-> 0,
           client_throttle_threshold |-> 0, client_throttle_scalar |-> 0]))

HandshakeToken == <<<<"token", Prefixed>>>>

ServerToClientHandshake(token) ==
  NewPacket(ID_SERVER_TO_CLIENT_HANDSHAKE, Write(HandshakeToken, [token |-> token]))

-----------------------------------------------------------------------------
(* login.rs. The two lengths inside the blob are little-endian, the version *)
(* before it is not.                                                        *)

ID_LOGIN == 1
Limits == [max_identity |-> 64 * 1024, max_client_data |-> 2 * 1024 * 1024]

Login == <<<<"protocol", Big(4)>>, <<"blob", Prefixed>>>>
LoginBlob ==
  <<<<"identity", Section(Limits.max_identity)>>, <<"client_data", Section(Limits.max_client_data)>>>>

LoginOf(outer, inner) ==
  IF inner.ok THEN Got(With(inner.value, "protocol", outer.value.protocol), outer.next) ELSE Failed

\* Login::decode: what follows the two sections in the blob is not looked at.
FromBlob(outer) ==
  IF outer.ok THEN LoginOf(outer, Read(LoginBlob, outer.value.blob, 1)) ELSE Failed

DecodeLogin(body) == FromBlob(Read(Login, body, 1))

EncodeLogin(protocol, identity, clientData) ==
  NewPacket(ID_LOGIN,
    Write(Login, [protocol |-> protocol,
                  blob |-> Write(LoginBlob, [identity |-> identity, client_data |-> clientData])]))

-----------------------------------------------------------------------------
(* play_status.rs.                                                          *)

ID_PLAY_STATUS == 2
Status == [LoginSuccess |-> 0, ClientOutdated |-> 1, ServerOutdated |-> 2, PlayerSpawn |-> 3,
           InvalidTenant |-> 4]

PlayStatus == <<<<"status", Big(4)>>>>

StatusPacket(name) == NewPacket(ID_PLAY_STATUS, Write(PlayStatus, [status |-> Status[name]]))

\* Which side is behind; LoginSuccess when neither is.
ForVersionMismatch(client, server) ==
  IF client < server THEN "ClientOutdated"
  ELSE IF client > server THEN "ServerOutdated" ELSE "LoginSuccess"

-----------------------------------------------------------------------------
(* resource_packs.rs and registries.rs: nothing is offered, nothing          *)
(* overridden.                                                              *)

ID_RESOURCE_PACKS_INFO == 6
ID_RESOURCE_PACK_STACK == 7
ID_RESOURCE_PACK_CLIENT_RESPONSE == 8
ID_ITEM_REGISTRY == 162
ID_AVAILABLE_ACTOR_IDENTIFIERS == 119
ID_BIOME_DEFINITION_LIST == 122

\* The wire values start at one.
Responses == [Refused |-> 1, SendPacks |-> 2, HaveAllPacks |-> 3, Completed |-> 4]
ClientResponse == <<<<"response", U8>>>>

Zeros(n) == [k \in 1 .. n |-> 0]

\* Four flags, a nil template with an empty version, no packs.
PacksInfoEmpty == NewPacket(ID_RESOURCE_PACKS_INFO, Zeros(4) \o Zeros(16) \o <<0>> \o Zeros(2))

\* A flag, no texture packs, the version, no experiments, no editor packs.
PackStackEmpty(version) ==
  NewPacket(ID_RESOURCE_PACK_STACK,
    <<0, 0>> \o PutField(Prefixed, version) \o Zeros(4) \o <<0>> \o <<0>>)

EMPTY_NBT == <<10, 0, 0>>

AllEmpty ==
  <<NewPacket(ID_ITEM_REGISTRY, <<0>>),
    NewPacket(ID_AVAILABLE_ACTOR_IDENTIFIERS, EMPTY_NBT),
    NewPacket(ID_BIOME_DEFINITION_LIST, <<0, 0>>)>>

-----------------------------------------------------------------------------
(* player.rs and chunk_radius.rs. Positions are in hundredths of a block.   *)

ID_PLAYER_AUTH_INPUT == 144
ID_SET_LOCAL_PLAYER_AS_INITIALIZED == 113
ID_REQUEST_CHUNK_RADIUS == 69
ID_CHUNK_RADIUS_UPDATED == 70
ID_SERVERBOUND_LOADING_SCREEN == 312
POSITION_OFFSET == 162

\* The head of the packet; what follows is not looked at.
AuthInput == <<<<"pitch", Float>>, <<"yaw", Float>>, <<"x", Float>>, <<"y", Float>>, <<"z", Float>>>>

RadiusRequest == <<<<"radius", Zig(5)>>, <<"max_radius", U8>>>>
RadiusUpdated == <<<<"radius", Zig(5)>>>>

RadiusGranted(radius) == NewPacket(ID_CHUNK_RADIUS_UPDATED, Write(RadiusUpdated, [radius |-> radius]))

Grant(request, most) ==
  LET top == IF most < 1 THEN 1 ELSE most
  IN IF request.radius < 1 THEN 1 ELSE IF request.radius > top THEN top ELSE request.radius

-----------------------------------------------------------------------------
(* start_game.rs.                                                           *)

ID_START_GAME == 11
Flat == 2
Creative == 1

\* The level settings block: literals are the fields this server never sets.
LevelSettings ==
  <<<<"seed", Little(8)>>, Fixed(Zeros(2) \o <<6, 112, 108, 97, 105, 110, 115>> \o <<0>>),
    <<"generator", Zig(5)>>, <<"world_game_type", Zig(5)>>, Fixed(<<0, 2>>),
    <<"spawn_x", Zig(5)>>, <<"spawn_y", Zig(5)>>, <<"spawn_z", Zig(5)>>,
    Fixed(<<1>> \o Zeros(7)), Fixed(Zeros(8) \o <<0, 1, 1, 0, 0, 1, 0>>),
    Fixed(<<0>> \o Zeros(4) \o <<0>>), Fixed(<<0, 0, 2>>), <<"tick_radius", Little(4)>>,
    Fixed(Zeros(10)), <<"vanilla_version", Prefixed>>, Fixed(Zeros(8) \o <<1>>),
    Fixed(<<0, 0>> \o <<0>> \o Zeros(4))>>

StartGame ==
  <<<<"entity_id", Zig(10)>>, <<"runtime_id", Var(10)>>, <<"game_type", Zig(5)>>,
    <<"x", Float>>, <<"y", Float>>, <<"z", Float>>, <<"pitch", Float>>, <<"yaw", Float>>>>
    \o LevelSettings \o
  <<Fixed(<<0>>), <<"world_name", Prefixed>>, Fixed(<<0>> \o <<0>>), Fixed(<<0, 1>>),
    <<"tick", Little(8)>>, <<"enchantment_seed", Zig(5)>>, <<"palette_len", Var(5)>>,
    Fixed(<<0, 1>>), <<"server_version", Prefixed>>, Fixed(EMPTY_NBT), Fixed(Zeros(8 + 16)),
    Fixed(<<0, 0, 1, 1>> \o <<0>> \o Zeros(4))>>

\* StartGame::flat: a position on the wire is POSITION_OFFSET above the feet.
FlatWorld(name, vanilla, build, surface) ==
  [entity_id |-> 1, runtime_id |-> 1, game_type |-> Creative, world_game_type |-> Creative,
   x |-> 50, y |-> 100 * surface + POSITION_OFFSET, z |-> 50, pitch |-> 0, yaw |-> 0,
   seed |-> 0, generator |-> Flat, spawn_x |-> 0, spawn_y |-> surface, spawn_z |-> 0,
   tick_radius |-> 4, tick |-> 0, enchantment_seed |-> 0, palette_len |-> 0,
   world_name |-> name, vanilla_version |-> vanilla, server_version |-> build]

StartGamePacket(world) == NewPacket(ID_START_GAME, Write(StartGame, world))

-----------------------------------------------------------------------------
(* level_chunk.rs. Subchunks of more than one block are WriteSubchunk's, in *)
(* Section.tla.                                                             *)

ID_LEVEL_CHUNK == 58
ID_NETWORK_CHUNK_PUBLISHER_UPDATE == 121
CHUNK_WIDTH == 16
OVERWORLD_SUBCHUNKS == 24
BIOME_PLAINS == 1
RUNTIME_ID_STONE == 2706

\* write_subchunk's version and layer count, then write_uniform_storage.
UniformSubchunk == <<Fixed(<<8, 1>>), Fixed(<<1>>), <<"block", Zig(5)>>>>

UniformBiome == <<Fixed(<<1>>), <<"biome", Zig(5)>>>>

\* column_payload: subchunks bottom first, a biome for every one the dimension
\* has, no border blocks.
ColumnPayload(blocks) ==
  Concat([k \in DOMAIN blocks |-> Write(UniformSubchunk, [block |-> blocks[k]])])
    \o Concat([k \in 1 .. OVERWORLD_SUBCHUNKS |-> Write(UniformBiome, [biome |-> BIOME_PLAINS])])
    \o <<0>>

LevelChunk ==
  <<<<"x", Zig(5)>>, <<"z", Zig(5)>>, Fixed(<<0>>), <<"subchunks", Var(5)>>, Fixed(<<0>>),
    <<"payload", Prefixed>>>>

LevelChunkPacket(x, z, subchunks, payload) ==
  NewPacket(ID_LEVEL_CHUNK,
    Write(LevelChunk, [x |-> x, z |-> z, subchunks |-> subchunks, payload |-> payload]))

PublisherUpdate ==
  <<<<"x", Zig(5)>>, <<"y", Zig(5)>>, <<"z", Zig(5)>>, <<"radius", Var(5)>>, Fixed(Zeros(4))>>

PublisherPacket(x, y, z, radius) ==
  NewPacket(ID_NETWORK_CHUNK_PUBLISHER_UPDATE,
    Write(PublisherUpdate, [x |-> x, y |-> y, z |-> z, radius |-> radius]))
=============================================================================

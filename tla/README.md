# TLA+ models of bedrock-runtime

bedrock-runtime is a Minecraft Bedrock server: a RakNet transport written
without I/O (`bedrock-raknet`), the packets (`bedrock-protocol`), the identity
and encryption layer (`bedrock-crypto`), a server that runs the login and world
sequence (`bedrock-server`), a world (`bedrock-world`) and a command line that
owns the socket and the loop (`bedrock-cli`). One thread owns everything; what
is hard is what the network, the peers and the clock may do between two calls.

## The system

| Component | State | Operations | What makes it correct |
|---|---|---|---|
| `order.rs` Ordering | next index awaited, payloads held ahead | `push` | in order, once, bounded |
| `order.rs` Dedup | floor, indices seen above it | `accept` | a duplicate is really one; bounded |
| `split.rs` Splitter, Reassembler | next id; partial payloads, bytes held | `split`, `push`, `expire` | pieces of one payload only; count equals content |
| `retransmit.rs` | datagrams in flight, estimate of the round trip, dead flag | `track`, `on_ack`, `on_nack`, `due` | nothing in flight for ever; live peers kept, dead ones given up |
| `session.rs` Session | all of the above, state, outbox, pending ACKs, three counters | `send`, `receive`, `tick`, `close` | a pair of sessions is a pair of reliable ordered channels |
| `listener.rs` Listener | sessions by address, outbox, last ping by source | `receive`, `send`, `tick` | events tell each session's life; slots and pongs bounded |
| `server.rs` Server | per peer: settled, keys, ciphers, protocols, players | `receive`, `tick`, `set_identity_keys` | counters agree; the client gets into a world it has; nothing is left behind |
| `cipher.rs` Cipher | a counter and a keystream per direction | `encrypt`, `decrypt` | both ends agree on what comes next |
| `world.rs`, `chunk.rs`, `section.rs`, `generator.rs` | columns held, each a stack of sections with a palette | `chunk`, `block_at`, `set_block`, `unload` | what was placed is read back, at negative coordinates too, until unloaded |
| `columns.rs`, `level_chunk.rs`, `palette.rs` | none | `column_packet` | the client draws the column that is there |
| `wire.rs`, `frame.rs`, `datagram.rs`, `offline.rs`, `online.rs`, `connect.rs` | none | encode, decode, sizes | what is read is what was written; nothing is larger than the path |
| `examples/connect.rs`, `examples/ping.rs` | how far the probe is, its next index | the two programs | a pong comes only from a peer that is joined |
| `batch.rs` and the game's packets | none | encode, decode | the server reads what the client said |
| `jwt.rs`, `agreement.rs`, `handshake.rs` | none | `verify`, `derive`, `handshake_token` | a cipher is started only for who an issuer vouches for |

They interact by calls only. The command line reads a datagram with a timeout,
calls `Server::receive`, then `Server::tick`, then sends what `poll_transmit`
returns. `Server` calls `Listener`, `Listener` calls the `Session` of the
address and moves that session's outbox to its own after every call. Errors of
a session's `receive` end in the listener (`unwrap_or_default`); errors of
`send` end in the server (`let _ =`).

The hard behaviour: datagrams lost, repeated, late and out of order; an error in
the middle of a datagram that has already been queued for acknowledgement;
windows that overtake each other; timers that race answers; a handshake of which
any step may be lost; a stream cipher that cannot lose a packet over a session
that may refuse one; per-peer state that outlives its session. `PROJECT.json`
lists each of these at its line with the properties that watch it.

## The modules

| Module | Models | Form |
|---|---|---|
| `Order` | `Ordering::push`, `Dedup::accept` | operators on records |
| `Intake` | `Session::receive` for unsplit frames, under any network | state machine |
| `Session` | one `Session`: splitting, numbering, in-flight window, reassembly, internal packets, tick, close | operators from a session record to the next one |
| `Link` | two sessions, their callers and the network | state machine |
| `Channel` | what the sessions at the two ends promise their callers | abstract specification |
| `Retransmit` | `Rtt`, `Retransmitter` and the part of `Session::tick` that reads a clock, with time | state machine |
| `Listener` | `Listener::receive`, `offline`, `allow_ping`, `tick` and their clients | state machine |
| `Bytes` | readers and writers: integers, varints, prefixed fields, addresses (`wire.rs`, `bytes.rs`, `address.rs`) | operators on sequences of bytes |
| `Datagram` | frames, datagrams, ACK ranges, the payload limit, the capacity of a fragment (`frame.rs`, `datagram.rs`, `split.rs`) | operators |
| `RakPackets` | the layouts of `offline.rs` and `online.rs` | operators |
| `Probe` | `examples/connect.rs` and `examples/ping.rs` against the listener and one session, byte for byte | state machine |
| `GamePackets` | the batch and each packet the server reads or writes | operators |
| `Identity` | tokens, their verification, the key agreed (`jwt.rs`, `agreement.rs`, `handshake.rs`) | operators |
| `Server` | `Server` and the client it talks to | state machine |
| `Section` | `Section`, and how one is written to a client and read by it | operators |
| `World` | `World`, `Chunk`, `Flat`, `column_packet` | state machine |
| `LinkProofs` | | theorems about `Session` and `Link` |
| `IntakeProofs`, `RetransmitProofs`, `ListenerProofs` | | theorems about those state machines |
| `CodecProofs` | | theorems about `Bytes`, `Datagram`, batches, and each packet `Server` and its client exchange |
| `ServerProofs` | | theorems about `Server`, over `CodecProofs` |
| `WorldProofs` | | theorems about `Section` and `World` |
| `Folding` | a loop over a sequence, for any step | theorems the others take instances of |
| `MC*` | | constants for TLC |

Each layer takes the one below as its properties show it: `Link` implements
`Channel`; `Listener` and `Server` use a session as a channel; `Probe` joins
`Session`, `Datagram` and `RakPackets`, and `Server` is over `GamePackets` and
`Identity`, both over `Bytes`. Definitions named `...` after a code name model that function; those marked *Mutant* are a
plausible mistake in the definition that follows, kept to show that the
properties notice it. No property or theorem mentions them.

### How state and actions correspond

*Session.* A record with a field per field of the struct. `Send`, `Receive`,
`Tick` and `Close` are the four methods, each with all it calls. A payload is
its kind (what its first byte means to `handle_internal`), an identity and a
length in fragments; one fragment is the unit of size. `PerDatagram` is how many
fit a datagram: more than one is possible since the MTU a client asks for is not
clamped to what a fragment may fill. Clocks are not kept: which datagrams are
due, which reassemblies are too old, whether the peer has been silent and whether
a ping is due are arguments of `Tick`, and `Link` passes any of them. The history
field `log` is what `send` accepted and `faults` the kinds of error after which
something acknowledged was dropped.

*Link.* `CallSend`, `Deliver`, `DeliverNack`, `CallTick`, `CallClose` are the
calls of a caller that empties the outbox after each (`Listener::drain`). The
network loses a datagram when it is transmitted, repeats it by keeping a copy
when it delivers one, and reorders by being a set. No session sends NACKs but
`receive` answers them, so they may arrive from outside. A NACK is a sequence of
ranges, which may overlap: `on_nack` goes through them one after another and
counts and sends a datagram once for each range that names it (`OnNack` folds
`SendMissing` over them). Neither `receive` nor `on_nack` asks whether the
session has been marked dead, so this goes on until the next tick, and in the code
nothing bounds how often: `retries` runs past `max_retries` by as much as NACKs
make it. In the runs `MaxRanges` bounds the ranges of one NACK, and `MaxResends`
the retries up to which a NACK is still delivered. `Allowed` says what may
happen at each end in a run; `MaxNet` and `MaxLog` bound what is on its way and
what pings add. `MaxOutbox` is small enough to be met: in `handshake` it is one,
so that the ACK of a tick leaves no room for the datagram due in it, whose retry
is counted and which is not sent.

*Retransmit.* One action per method, `Advance` for time. Ages stand for instants,
slots for sequence numbers. A copy on the link is acknowledged between `MinTrip`
and `MaxTrip` after it was sent or is lost, and the trip is measured by the
caller's clock (it reads `now` before it waits for a datagram). `OnNack` counts and
sends again in a window already marked dead too, up to `MaxResends`, which is past
the limit in the run. `TickGap` bounds the time between ticks: the command line's socket has a read timeout of 50 ms.

*Listener.* `OnRequest` and `Ping` are the arms of `offline`; `ReceiveRequest`
and `Receive` the two ways into a session; `Tick` ticks and removes. A session
is a channel whose datagram releases any number of the payloads its client sent,
or fails in the middle and returns nothing. Payloads are numbers: a connection
request, a new incoming connection, those of the application, a farewell. The
clients are external: ask, ask again, read a reply, send their payloads in order,
or vanish. `told`, `broken`, `sincePong` and `crowded` are histories: the events
of each last session, which of them have dropped payloads, and which sources got
a pong too early.

*Bytes, Datagram, RakPackets, GamePackets.* A layout is a sequence of named
fields, `Write` and `Read` go through it, and a read returns its value and where
it stopped, or failed. The reason of a failure is not told apart, as no caller
does. Where a reader does not mirror its writer (`ConnectionRequest`, the padding
of a request, an IPv6 address, which has no layout) there are two definitions.

*Probe.* `SendPing` to `GiveUp` are the steps of the two programs in their order;
`ServerReceivesOffline`, `ServerReceives`, `ServerGreets` and `ServerTicks` those
of the other end, which holds a session of `Session.tla` and translates it to
bytes and back (`Encoded`, `Decoded`). The path drops what is larger than
`setup.path`. The probe waits for an answer for any time, as nothing in it
depends on how long.

*Server.* `Receive` handles one payload and all that follows from it, through
`OnPayload`, `OnClear`, `OnPlaintext` and the functions they name. `Disconnected`
is the listener's event in `receive`; `TimedOut` is the same event in `tick`;
`SetIdentityKeys` is the method, called with any of `KeySets`. Payloads are
bytes, batches of packets in either direction; a sealed one carries its key and
counter besides, and decrypts only in step: AES and SHA-256 are perfect, and an
agreed key is the pair of what went into it. A token is a record, named on the
wire by one byte, and the clock it is checked at is any of `Clocks`. Positions
are hundredths of a block and columns have one axis. `Window` is how many unread
payloads a session takes before it refuses.

*World.* `Chunk`, `SetBlock` and `Unload` are the methods of those names;
`block_at` is `Chunk` followed by a read. `placed` and `refused` are histories:
what `set_block` answered. A section is a palette and, when it is not uniform,
one index per cell. The order in which the code stores cells is private to it, so
a cell indexes the array; the order in which `write_subchunk` writes them is the
client's and is kept, with the words, the width of an index and the partial last
word. One horizontal axis stands for `x` and `z`, which every function treats
alike. Sections are shared by `Arc` and never changed, so they are values.
`CutSection` is stated as its result; TLC checks against `FromFn`, the loop, that
`from_fn` returns it (`CutAssumption`).

## What the runs show

| Run | Question | Size |
|---|---|---|
| `intake` | Are frames released in order and once, is memory bounded, does all that keeps arriving come out? | 7 frames, windows 3 and 4: both overflow |
| `one_way` | Do sender and receiver lose nothing, with fragments, NACKs, a dead peer and a reassembler that fills up or gives up? | payloads of three and of two fragments, two to a datagram, room for three; no retry before a session is dead, NACKs of two ranges up to two resends; 851 000 states |
| `handshake` | Requests, pings, answers and a close, against a window and an outbox of one: is each answered once, and does all in flight settle? | one request, pings, one retry; 246 000 states |
| `listener` | Do events, slots and pongs hold? | two clients for one slot, two sources for a map of one; 1 144 000 states |
| `probe` | Do two writers and two readers mean the same, on a path that does not carry all? | a ladder of two sizes, four setups, one repeat, one tick; 225 000 states |
| `server` | Does a client get into a world it has, at any stage, with any login, and no one else? | nine logins with six tokens, two key sets, two clocks, three places, two sessions, three trips; 170 000 states |
| `timers` | Is the estimate true, is a dead peer given up in time and no live one? | two datagrams, one retry, NACKs up to four, trips of 1 to 2; 2.3 million states |
| `world` | Is what was placed read back and drawn, and only a full palette refused? | two columns of two sections of 3 by 3, five palette indices, four writes; 27 000 states |
| `replies`, `stream`, `server_tick`, `server_refusal` | Does the code do what its documentation says? | it does not; see below |

In `Intake`, `Link`, `Retransmit`, `Listener`, `Probe` and `Server` every bound is a constant
of the module and appears in a guard. The bounds are enough when the windows
overflow, retries run out, the reassembler refuses and expires, the slot is taken
and every kind of event occurs; TLC's coverage shows every action taken in each
of the passing runs that allow it. In `one_way` a datagram sent again once marks its
session dead (`MaxRetries` is zero), and the session goes on receiving and sending
until its next tick: one NACK whose two ranges both name a datagram takes it from
no retries to two. Sessions that live on after a retry are those of `handshake` and
`timers`. `Link`'s counters do not wrap in these runs:
`IndexSpace` is larger than anything sent. `CHECK_DEADLOCK FALSE` stands where a
script or a session comes to its end. In `listener` a client starts once, one of
the two only asks for sessions and never sends (`Speakers`), and a session is
silent for one tick before it ends; a second start, more ticks or more sources
multiply with the pings, which share nothing with the sessions but the dispatch in
`receive`. The theorems
about `Listener` have none of these bounds.

In `probe` each setup has a reason: the ping program; a peer of another RakNet
version; a path that carries the first size of the ladder, and one that only
carries the second, from a server bound to an IPv6 address. The greeting is
longer than a fragment on all paths but the widest, so it comes in pieces. In
`server` the six tokens are a good one, one whose key is no key, one edited after
it was signed, one for another audience, one of the key the issuer rotates to and
one that names its own algorithm; the two clocks are in time and one second past
the leeway; the places are on either side of zero, where a division that
truncates would take one column for another, and far enough to need all columns
anew.

In `world` four writes are what it takes to name more blocks than the indices
`0 .. MaxIndex` in a section that starts with two. Words of five bits hold five
indices, two or one, so that nine cells leave the last word partly empty at one
and two bits. The surfaces lie below the world, inside a section and between two; the positions
are on both sides of zero in both directions. Blocks that have no runtime id and
are not named air are interchangeable, so the run permutes them.

*Refinement.* `Channel` has a channel towards each end. `IsTwoChannels` is its
specification under the mapping that takes the log of a channel to be what the
peer's `send` accepted, what has left it to be the index `Ordering` awaits, and
its admission of a loss to be an error that `receive` returned or an assembly that
expired. Every step of the link is then a step of each channel or none: payloads
leave in order, the caller gets its own among them, each once, and a gap must have
been admitted. TLC checks it on `one_way`; `ImplementsChannels` proves it.

*Fairness.* `handshake` assumes what the loop in `bedrock-cli` does: it goes on
ticking, and a timer that has been set runs out, so a tick finds each unsettled
datagram due. `listener` assumes ticks under which silence adds
up, and not that any tick finds a peer unreachable. `server` assumes that both ends go on
reading: the session under it is a reliable channel, and the two weak fairness
conditions are on taking the next payload of each direction. `intake` assumes that a frame which keeps being sent arrives in the end.
None assumes that any particular datagram arrives, except the last.

`set_block` and `Chunk::set_block` say they return whether the position was inside
the world or the column. They also answer false where the palette is full:
`RefusedWhenFull` is the rule the code follows. In a section of 4096 blocks that
takes 65536 different block states placed one after the other, as the palette
keeps those that are gone.

### What the four failing runs show

1. `replies`: when a datagram completes a payload together with a ping, and the
   pong finds the window full, `receive` fails and the payload is never returned,
   though it has been acknowledged (`session.rs:391-396`).
2. `stream`: Dedup remembers `dedup_window` fragments below the highest, Ordering
   holds `order_window` payloads. With payloads of several fragments the first
   can run out before the second, and then a late first copy is acknowledged and
   skipped as a duplicate (`order.rs:110-125`). The stream stops without an error.
   The run keeps the proportion of the defaults, two to one.
3. `server_tick`: `Server::tick` reports a lost peer and forgets nothing about
   it (`server.rs:372-381`). In the trace a client logs in, enters the world and is
   sent three columns; then its session times out. Its player stays, with the
   columns recorded as sent (`PlayersTakenAlong` fails), and so do its cipher, its
   key, its protocol and the mark that it settled. What a next session from that
   address would meet is not part of the trace.
4. `server_refusal`: `send_encrypted` advances the cipher and then ignores the
   refusal of the session (`server.rs:658-670`). In the trace two payloads that answer a
   walk are unread when the client asks for a radius a second time, which takes six
   more; the window has room for seven, and the last is refused. The client cannot
   open the answer to its next walk, and the session is not closed.

## What is proved

*IntakeProofs*, for every window and number of frames. The inductive invariant
`IInv` joins the types with what is held (`HeldAhead`), what was released
(`ReleasedInOrder`) and how far Dedup remembers (`SeenBounded`): that the drain
loop releases the right payloads depends on each held payload lying under its own
index inside the window, which is what makes `FirstGap` exist. `MemoriesBounded`
is the same fact counted: at most `OrderWindow` payloads held and `DedupWindow`
indices remembered. `RefusalIsFinal`
and `NothingDroppedUnread` add where refused frames are, and that an index below
the floor is below `expected` too. The second needs
`OrderWindow <= DedupWindow + 1`, which the defaults have and the code does not
enforce; it is about unsplit frames, and the run `stream` shows why.

*RetransmitProofs*, for any number of datagrams, limits, trips and tick gap. The
invariant has two parts beside the types. An entry that was never sent again has
one copy at most, as old as the entry: hence an acknowledgement that `on_ack`
measures is a true round trip, and averages of true trips stay among them
(`KarnHolds`). And in an open session every entry has waited
`retries * (max_rto + gap)` plus the time since it was last sent, at most. `retries`
itself has no bound: NACKs go on counting in a session marked dead, until the tick
that closes it. What does have one is the time: an entry that is past its limit has
marked the session dead (`TypeCorrect`), so at each tick that leaves the session
open every entry is within the limit, and its age within
`(max_retries + 1) * (max_rto + gap)` and the time since that tick (`GivesUp`). The sum of the waits is no invariant by itself: it takes the time
since the last tick. From the other side, `BacksOff`: what nobody asked for by NACK
has waited at least `LeastWait`, the doubling series from `min_rto` up to `max_rto`.
`AliveIsKept` needs both sides. While the link loses nothing, the first copy of
each datagram is on it and younger than `MaxTrip`, so no entry gets through its
retries; and either something was heard since the last ping, or a datagram that was
in flight at that ping still is. Its hypothesis `Patient` says that the retries take
longer than `MaxTrip` and that the timeout exceeds keepalive, one tick and
`MaxTrip`: with the defaults (100 ms, 2 s, 8 retries; 5 s, 20 s) any link with round
trips under 11 s, and `MCRetransmit` satisfies it with its few units.

*ListenerProofs*, for any number of clients, sources and payloads and any limits.
The invariant says of each session the listener has what its events so far are
(`Going`), and of each it had that they are closed (`Over`): both are kept by the
datagram that joins, tells and ends in one call, which is where the order of
events is decided. What the events are takes the number of the last payload taken
and, unless payloads were dropped, that all up to it were told. A client cannot
be ahead of its session in any other way: its requests, replies and phase are the
third part. For pongs, a source whose last one is more recent than the interval is
still in the map with its time, whatever was pruned since; `PongsSpaced` follows.

*CodecProofs*, for every packet, payload and payload limit. `BodyLengthSurvives`: the
length of a frame's payload in bits fits its 16-bit field up to 8191 bytes.
`FrameLength`: a frame is as long as `encoded_len`, which the packing counts with,
says. `FragmentFits`: a datagram with one frame of a fragment of
`fragment_capacity` is within the payload limit, at any limit that leaves room
for a byte, which is what `Probe` shows for its sizes as `FitsPath`.
`WrittenReadsBack` is the round trip of every packet that has a layout without
addresses and without a rest: along any layout, for any record whose values fit
their fields (`FitsLayout`: a fixed-width number below 2^31 - 256, a varint below
2^31 - 128, as the readers here saturate there), Read returns what Write was given,
wherever it stands and whatever follows. `BatchReadsBack` is the same for
`batch.rs`: any number of packets, any bodies. Both are inductions over data,
which the proofs make by the least element of a set of numbers: the recursive
functions of `Bytes` are shown to exist and to be loops (`UpToIsLoop`), `Varint` by
the series of its approximations, `DecodePackets` from the end of the buffer, where
what matters is that a packet always takes a byte (`PacketMoves`).

Its second half goes through the packets one by one, as *ServerProofs* has to know
what each end hears. `LayoutSays` takes a layout and a record to what is read of
the packet; a packet has then only to be shown to fit its layout: the login with
its token (`LoginRead`), the greeting with the server's key (`HandshakeSays`), the
world with its long runs of constant fields (`WorldSays`), columns (`ColumnSays`), the area
published, the radius, moves. Numbers fit because of `WireAssumption`, see below.

*LinkProofs*, for any two ends, scripts, windows and limits.
There are two invariants. `LinkOK` is of each session by itself: the types of its
fields; that the order and reliable indices spent are those of the payloads
accepted, each whole (`SendingOK`); that the window keeps its bound and an entry
past its retries, whether timers or NACKs took it there, is in a session that is
marked dead, with no bound on how far past (`WindowOK`); and that the
reassembler counts what it holds (`PendingOK`). Its first half shows that every
method keeps it, loop by loop: batches flushed, datagrams resent (for NACKs, range
by range, a datagram as often as ranges name it), frames taken, payloads handled, assemblies expired. `TypeCorrect`, `WholePayloads` and
`BoundedBuffers` follow, under no hypothesis.

`LinkAgrees` is of each session and its peer. Which payload a fragment is of is not
written on it: it has a split id, which the sender forgets. So the invariant says
that for each end there are numbers `ids`, one for each payload it has logged,
such that all that it has in flight, all that is on the network, all that the peer
holds back and every piece of a partial payload there carries the order index, the
split id and the body of one logged payload. A logged payload gets its number when
it is cut, and never another. With it go what the peer has released and answered
(`Received`), that a farewell is the last payload (`ClosedLast`), and what the
caller was handed (`HandedOver`). The receiving side is a function of one datagram
that may fail half way; it is shown frame by frame that what it had done by then
agrees with the log. `SkipsNothing`, `BuffersAgree`, `AnswersOnce`,
`FarewellCloses` and `ImplementsChannels` follow.

The theorems of the second kind say `Fits`: no end has logged more than
`IndexSpace` payloads (order indices have 24 bits on the wire) or called `send`
more than `SplitSpace` times (split ids have 16). `LinkAgreement` itself does not: only
what a receiver makes of an index needs it. Past it they are false: the receiver
compares a wrapped index with whole numbers, see *What is not modelled*. For split
ids the hypothesis is more than needed, as an id may be used again once the payload
that had it is complete everywhere; what would do in its place is a bound on the
age of a copy on the network, which no code states. Every state of
`one_way` and of `handshake` satisfies `Fits`.

Two of the runs' properties of `Link` are left. `AckedIsKept` is false in general,
as the run `stream` shows, and true in `one_way` because its dedup window is wide
enough. `InFlightSettles` is liveness.

*ServerProofs*, for any peers, tokens, key sets, logins, clocks, radii, places,
window and stage. A session is not described by one formula: before there is a key
neither counters nor columns mean anything, and what is on its way is then
exactly one packet. `ServerInvariant` therefore says of each session at which stage
it stands (`InStage`): the client has asked; it is answered; it logs in; it is
refused; it is greeted; the two are apart, as the client holds another key than its
token names or the token names none; it is lost, nothing being on its way any
more, since the login or a payload was refused or an earlier session's cipher met the
first packet; or it is open. `Open` has a part for each
direction. What goes up is numbered from what the server has received, and reads as
something a client may ask (`Wanted`). What comes down reads as one packet a client
past its login may be sent (`Spoken`); every column in it lies in the area published
last before it (`InArea`), and the spawn comes after the columns around it (`Led`);
this holds even after payloads were refused, because a call that draws publishes the
area first, a call that spawns sends the columns around the spawn first, and what
gets through of a call to a session that fills up is a beginning of what it sent. Only when nothing was refused are the counters equal and each column
remembered either drawn or on its way (`InStep`). None of the six properties is
inductive alone: a column arrives only because it is on its way, in the area and
under the counter that the client will open it with.

A call of the server is followed packet by packet: each handler leaves what is kept
and what is to be sent such that the session stays open (`Works`); a loop over
columns, packets of a batch or packets to send keeps that by `FoldKeeps`; then the
listener takes a beginning of it. Reading the greeting makes a session open or
apart, according to the key the client holds (`GreetingTakes`). The client is followed in the same way, what it
has heard being what was shown to be read, and a step at one peer leaves the others as
they stand. `ViewCovered` and `SpawnsIntoWorld` hold in every session. `CountersInStep`,
`VouchedFor` and `ColumnsArrive` say `Clean`, nothing refused and nothing left over
from an earlier session, since without it they are false: `server_refusal` and
`server_tick` show how it comes to that. `GetsIn` is liveness and stays with TLC, where
also the invariant was checked, on the states of `server`, before it was proved.

*Folding* is how those proofs go through loops. A fold is a recursive function on
the subsets of its domain; that there is such a function is shown by induction,
and the induction by the least element of a set of natural numbers rather than by
an induction theorem, which would take an operator. A module that needs a loop
takes an instance of `Folding` with the step and the invariant of the loop as its
constants, and cites `FoldKeeps`. `SeriesIs` does the same for a recursive function
of `Nat`, such as `LeastWait`.

*WorldProofs*, for sections, worlds, palettes and surfaces of any size.
`WithBlockPlaces` and `WithBlockRefuses` say what a write does to one section.
That a section stays well formed (each block named once, every index inside the
palette) is what the first rests on: with a block named twice, or an index past the
end, a cell would read another block. `World`'s invariant is
`TypeOK /\ ReadsBack /\ RefusedWhenFull`: `ReadsBack` needs that each position of a
column has one cell of its own, which the lemmas on division give for negative
coordinates as well, and `RefusedWhenFull` that a palette never shrinks while its
column is held. `WorldIsDrawn` follows from the same invariant, for `ColumnDraws`
holds of any column of well-formed sections: the words of `write_subchunk` are
numbers whose digits to the base `2 ^ bits` are the indices. The loop that packs a
word keeps "the word is below `2 ^ (k * bits)` and digit `s < k` is index `s`"
(`WordReads`, by `FoldKeeps`), which needs that an index fits its bits (`BitsFit`,
from the table of `bits_per_block`). Powers of two are known to the provers as numbers of subsets, so `PowerNext` and
`PowerSum` are proved from those.

Assumptions are those the modules name: constants are natural numbers, limits are
in order, windows are positive; in `World`, sections have an edge of at least
one, stone and air are different blocks, and `WidthsAssumption` says that no index
is wider than its slot or its word (`u16` and 16 bits of 32 in the code). In
`Server`, `WireAssumption` says what can stand on the wire at all: places, radii, the
protocol and the blocks of the ground are below what the readers of `Bytes` take for
huge (2^31 less a few hundred), heights and radius are at most a million, a column has no more subchunks than the dimension, and
a token's key is bytes. It also says that a login's client data is within
`max_client_data`: the decoder refuses a longer one, so such a client never gets past
its login. `ServerAssumption` has fewer than 256 tokens and sessions per address, as a
byte names each. TLC evaluates both on the runs of `Server`.
`CutAssumption` is an assumption of the proofs as well, though they do not use it:
that the loop of `from_fn` returns `CutSection` is an induction over its visits.

*Model-checked only.* Liveness (`AllReleased`, `InFlightSettles`, `SlotsFreed`,
`GetsIn`), as the prover has no fairness; `AckedIsKept` of `Link`; all of
`Probe`. Addresses and their list in `ConnectionRequestAccepted`, ACK ranges and
the frames of a datagram are read back in the runs only.

## What is not modelled

- Advertisement strings and `bedrock-nbt` (an empty crate);
  `Block::with_properties` and its sorting.
- Compression, of which the code has none but the method byte; AES, SHA-256 and
  the curve themselves, which are perfect in `Server`; base64 and JSON.
- The reasons of decode errors: every reader fails in one way.
- Sockets, arguments, the download of the issuer's keys and logs in
  `bedrock-cli`. Its loop is the caller in `Link`, `Retransmit` and `Server`.
- Peers that do not behave as a `Session` or as the probe does, beyond a network
  that can do anything to their datagrams, and NACKs. Only reliable ordered
  frames are sent by a `Session`; unreliable and sequenced ones, and a fragment
  count of zero, are read by `Datagram` and meet no session.
- What the listener answers to a request of another protocol version and to one it
  cannot decode (`listener.rs:207-225`, `242-253`): a reply or silence, and no state
  changes. A ping cut short is modelled: it counts against its source's interval and
  gets no pong.
- A refusal in `Server` keeps a beginning of what a call sends, counted in payloads.
  The code refuses each payload by the datagrams it needs, so a smaller one may pass
  behind a larger one refused. The peer has lost the stream by then either way.
- The branch of `split` for a capacity of zero (`split.rs:37-39`), which no MTU the
  listener agrees to reaches; the truncation of an ACK at 65535 ranges
  (`datagram.rs:51-52`); the wrap of the 16-bit split id.
- That an idle peer with nothing in flight is timed out, as liveness:
  `InFlightSettles` is of what is in flight.
- The wrap of 24-bit indices (a hazard without a property): the sender compares
  whole numbers with what came over the wire in 24 bits. `Session` has it, as
  `IndexSpace`, and no run reaches it: every property here is of the time before,
  and after it the session closes as if the peer were gone. It takes sixteen
  million frames, which `order.rs` calls out of a session's reach.

## Plan

1. *(done)* `Order`, `Intake`, and its proofs: the rule the transport rests on.
2. *(done)* `Session`, `Link` against `Channel`: the transport as a whole.
3. *(done)* `Retransmit` and its proofs; `Listener`; `Server`; `Section`, `World`
   and their proofs.
4. *(done)* The encodings (`Bytes`, `Datagram`, `RakPackets`, `GamePackets`) and
   what runs over them: `Probe`, `Identity`, `Server` with payloads as bytes. The
   outbox that fills up inside `tick`. Left: two peers in `Server`; `Server` over a
   `World`; a second start per client in `Listener`.
5. *(done)* `ListenerProofs`, `CodecProofs`; `LinkProofs` with the refinement of
   `Channel`; `ServerProofs`.
6. Left: `AckedIsKept` under a dedup window that covers the order window; the
   properties of `Probe`.

------------------------------ MODULE Session ------------------------------
(***************************************************************************)
(* One peer's connection as a value: the fields of the Rust struct Session *)
(* in a record, and its methods as operators from a record to a record.    *)
(* Link.tla puts two of them on a lossy network.                           *)
(*                                                                         *)
(* Data abstraction. A payload is a record [kind, id, parts]: what its     *)
(* first byte makes of it, which one it is, and how many fragments it      *)
(* fills. One fragment is the unit of size. Clocks are not kept here: what *)
(* a timer has decided (which datagrams are due, which reassemblies are    *)
(* too old, whether the peer was silent too long, whether a ping is due)   *)
(* is an argument of Tick, and any combination of them may be passed.      *)
(*                                                                         *)
(* The fields log and faults are history: the payloads send has accepted,  *)
(* and the kinds of error after which the code dropped something that it   *)
(* acknowledges all the same.                                              *)
(***************************************************************************)
EXTENDS Order, FiniteSets, SequencesExt

CONSTANTS
  IndexSpace,    \* values of a u24 on the wire (2^24)
  SplitSpace,    \* values of a split id (2^16)
  PerDatagram,   \* fragments that fit one datagram: 1 up to an MTU of 8 KiB
  MaxInFlight,   \* retransmit::Limits::max_in_flight (512)
  MaxRetries,    \* retransmit::Limits::max_retries (8)
  MaxOutbox,     \* Config::max_outbox (256)
  MaxFragments,  \* split::Limits::max_fragments (4096)
  MaxPending,    \* split::Limits::max_pending (8)
  MaxBuffered    \* split::Limits::max_payload, in fragments (4 MiB)

ASSUME SessionAssumption ==
  /\ {IndexSpace, SplitSpace, PerDatagram} \subseteq Nat \ {0}
  /\ {MaxInFlight, MaxRetries, MaxOutbox, MaxFragments, MaxPending, MaxBuffered}
       \subseteq Nat

\* Frame.split when it is None.
NoSplit == [id |-> 0, count |-> 0, index |-> 0]

\* Writer::u24: only the low 24 bits of an index are written.
Wire(i) == i % IndexSpace

Reasons == {"ByPeer", "Timeout", "Unreachable", "ByUs"}
IsClosed(s) == s.state \in Reasons

EmptyMap == [x \in {} |-> {}]

\* Session::new
NewSession ==
  [state |-> "Connecting",
   nextSeq |-> 0, nextRel |-> 0, nextOrd |-> 0, nextSplit |-> 0,
   inFlight |-> EmptyMap, dead |-> FALSE, outbox |-> <<>>,
   pending |-> EmptyMap, buffered |-> 0,
   ordering |-> NewOrdering, dedup |-> NewDedup, pendingAcks |-> {},
   log |-> <<>>, faults |-> {}]

-----------------------------------------------------------------------------
(* Sending: Splitter::split, send_frames, flush_batch, Retransmitter::track *)

\* Mutant: every fragment takes an order index of its own.
FramesOrderedApart(s, p) ==
  [k \in 1 .. p.parts |->
     [rel |-> Wire(s.nextRel + k - 1), ord |-> Wire(s.nextOrd + k - 1), payload |-> p,
      split |-> IF p.parts = 1 THEN NoSplit
                ELSE [id |-> s.nextSplit, count |-> p.parts, index |-> k - 1]]]

\* The frames of payload p, numbered: one reliable index each, one order
\* index for all of them.
Frames(s, p) ==
  [k \in 1 .. p.parts |->
     [rel |-> Wire(s.nextRel + k - 1), ord |-> Wire(s.nextOrd), payload |-> p,
      split |-> IF p.parts = 1 THEN NoSplit
                ELSE [id |-> s.nextSplit, count |-> p.parts, index |-> k - 1]]]

\* datagrams_needed, for fragments of which PerDatagram fit the budget.
DatagramsNeeded(p) == (p.parts + PerDatagram - 1) \div PerDatagram

\* The frames of each datagram, as the packing loop cuts them.
Batches(frames) ==
  [b \in 1 .. ((Len(frames) + PerDatagram - 1) \div PerDatagram) |->
     SubSeq(frames, (b - 1) * PerDatagram + 1,
            IF b * PerDatagram < Len(frames) THEN b * PerDatagram ELSE Len(frames))]

\* Mutant: only the outbox is asked, not the window.
HasRoomToQueue(s, p) == Len(s.outbox) + DatagramsNeeded(p) <= MaxOutbox

\* The reservation: the whole payload fits the outbox and the window.
HasRoom(s, p) ==
  /\ Len(s.outbox) + DatagramsNeeded(p) <= MaxOutbox
  /\ Cardinality(DOMAIN s.inFlight) + DatagramsNeeded(p) <= MaxInFlight

\* Mutant: the datagram keeps the number of the one before it.
NumberedTwice(s) == s
Numbered(s) == [s EXCEPT !.nextSeq = @ + 1]

\* flush_batch: a full window refuses the datagram after its number is spent,
\* and ends the payload there.
FlushBatch(acc, batch) ==
  LET seq      == acc.s.nextSeq
      datagram == [type |-> "frames", seq |-> Wire(seq), frames |-> batch]
      numbered == Numbered(acc.s)
      tracked  == [k \in DOMAIN acc.s.inFlight \cup {seq} |->
                     IF k = seq THEN [datagram |-> datagram, retries |-> 0]
                     ELSE acc.s.inFlight[k]]
  IN IF ~ acc.ok THEN acc
     ELSE IF Cardinality(DOMAIN acc.s.inFlight) >= MaxInFlight
       THEN [acc EXCEPT !.s = numbered, !.ok = FALSE]
     ELSE [s |-> [numbered EXCEPT !.inFlight = tracked, !.outbox = Append(@, datagram)],
           ok |-> TRUE, flushed |-> acc.flushed + 1]

\* send_frames, once the payload has its room: a full batch is flushed when
\* the frame after it is numbered, the last one after the order index is.
SendFrames(s, p) ==
  LET batches  == Batches(Frames(s, p))
      packed   == FoldLeft(FlushBatch, [s |-> s, ok |-> TRUE, flushed |-> 0], batches)
      numbered == (packed.flushed + 1) * PerDatagram + 1
  IN [s |-> [packed.s EXCEPT
               !.nextRel = @ + IF numbered < p.parts THEN numbered ELSE p.parts,
               !.nextOrd = IF packed.flushed + 1 >= Len(batches) THEN @ + 1 ELSE @,
               !.log = IF packed.ok THEN Append(@, p) ELSE @],
      ok |-> packed.ok]

NextSplit(s, p) == IF p.parts = 1 THEN s.nextSplit ELSE (s.nextSplit + 1) % SplitSpace

\* send: the split id is spent before the reservation can refuse the payload.
Send(s, p) ==
  LET cut == [s EXCEPT !.nextSplit = NextSplit(s, p)]
  IN IF IsClosed(s) THEN [s |-> s, ok |-> FALSE]
     ELSE IF ~ HasRoom(s, p) THEN [s |-> cut, ok |-> FALSE]
     ELSE [SendFrames(s, p) EXCEPT !.s.nextSplit = cut.nextSplit]

-----------------------------------------------------------------------------
(* Retransmission: Retransmitter::on_ack, on_nack, due, check_retries       *)

\* Mutant: an acknowledgement clears everything up to the highest it names.
OnAckCumulative(s, seqs) ==
  [s EXCEPT !.inFlight = [k \in {j \in DOMAIN @ : \A q \in seqs : q < j} |-> @[k]]]

OnAck(s, seqs) ==
  [s EXCEPT !.inFlight = [k \in DOMAIN @ \ seqs |-> @[k]]]

SpendRetryNever(entry) == entry   \* mutant: the retry is not counted
SpendRetry(entry) == [entry EXCEPT !.retries = @ + 1]

Exhausted(entry) == entry.retries > MaxRetries

\* The numbers in S, lowest first.
Ascending(S) ==
  CHOOSE f \in [1 .. Cardinality(S) -> S] : \A i, j \in DOMAIN f : i < j => f[i] < f[j]

\* Sends the datagrams seqs again, lowest first. One that finds the outbox
\* full is dropped; its retry counts all the same.
Resend(s, seqs) ==
  LET ordered  == Ascending(seqs)
      room     == MaxOutbox - Len(s.outbox)
      queued   == SubSeq(ordered, 1, IF room < Len(ordered) THEN room ELSE Len(ordered))
      inFlight == [k \in DOMAIN s.inFlight |->
                     IF k \in seqs THEN SpendRetry(s.inFlight[k]) ELSE s.inFlight[k]]
  IN [s EXCEPT !.inFlight = inFlight,
               !.outbox = @ \o [j \in 1 .. Len(queued) |-> inFlight[queued[j]].datagram],
               !.dead = @ \/ \E k \in DOMAIN inFlight : Exhausted(inFlight[k])]

\* What one range of a NACK names, for a range the set of its numbers.
SendMissing(s, range) == Resend(s, range \cap DOMAIN s.inFlight)

\* Every range counts and sends by itself, what another has named already
\* included, and the retry limit stops none of it.
OnNack(s, ranges) == FoldLeft(SendMissing, s, ranges)

-----------------------------------------------------------------------------
(* Reassembly: Reassembler::push and expire                                 *)

\* A payload put together from pieces of different payloads is no payload.
Joined(pieces) ==
  IF \E p \in Range(pieces) : \A q \in Range(pieces) : q = p
    THEN CHOOSE p \in Range(pieces) : TRUE
    ELSE [kind |-> "garbled", id |-> 0, parts |-> Cardinality(DOMAIN pieces)]

FragmentRefused(s, f) ==
  LET isNew == f.split.id \notin DOMAIN s.pending
  IN \/ f.split.index >= f.split.count
     \/ f.split.count > MaxFragments
     \/ isNew /\ Cardinality(DOMAIN s.pending) >= MaxPending
     \/ s.buffered + 1 > MaxBuffered
     \/ ~ isNew /\ \/ s.pending[f.split.id].count # f.split.count
                   \/ f.split.index \in DOMAIN s.pending[f.split.id].pieces

\* The fragment is stored; the last one takes the reassembly out and yields
\* the payload, as a sequence of at most one.
PushFragment(s, f) ==
  LET id     == f.split.id
      old    == IF id \in DOMAIN s.pending THEN s.pending[id].pieces ELSE EmptyMap
      pieces == [k \in DOMAIN old \cup {f.split.index} |->
                   IF k = f.split.index THEN f.payload ELSE old[k]]
      others == DOMAIN s.pending \ {id}
  IN IF f.split = NoSplit THEN [s |-> s, whole |-> <<f.payload>>, refused |-> FALSE]
     ELSE IF FragmentRefused(s, f) THEN [s |-> s, whole |-> <<>>, refused |-> TRUE]
     ELSE IF Cardinality(DOMAIN pieces) < f.split.count
       THEN [s |-> [s EXCEPT !.buffered = @ + 1,
                             !.pending = [k \in others \cup {id} |->
                                IF k = id THEN [count |-> f.split.count, pieces |-> pieces]
                                ELSE @[k]]],
             whole |-> <<>>, refused |-> FALSE]
     ELSE [s |-> [s EXCEPT !.buffered = @ - Cardinality(DOMAIN old),
                           !.pending = [k \in others |-> @[k]]],
           whole |-> <<Joined(pieces)>>, refused |-> FALSE]

\* Mutant: the bytes of what expired are not given back.
ExpireKeepingCount(s, ids) ==
  [s EXCEPT !.pending = [k \in DOMAIN @ \ ids |-> @[k]],
            !.faults = IF ids = {} THEN @ ELSE @ \cup {"expired"}]

Expire(s, ids) ==
  [s EXCEPT !.pending = [k \in DOMAIN @ \ ids |-> @[k]],
            !.buffered = @ - MapThenSumSet(LAMBDA k : Cardinality(DOMAIN s.pending[k].pieces), ids),
            !.faults = IF ids = {} THEN @ ELSE @ \cup {"expired"}]

-----------------------------------------------------------------------------
(* Receiving: receive and handle_internal. The accumulator of the two loops *)
(* carries the session, the payloads for the caller and whether an error    *)
(* ended the datagram.                                                      *)

Fail(acc, s, fault) ==
  [acc EXCEPT !.s = [s EXCEPT !.faults = @ \cup {fault}], !.failed = TRUE]

\* Mutant: a refused answer is ignored, as tick ignores a refused ping.
AnswerIfRoom(acc, kind, id) ==
  [acc EXCEPT !.s = Send(@, [kind |-> kind, id |-> id, parts |-> 1]).s]

Answer(acc, kind, id) ==
  LET sent == Send(acc.s, [kind |-> kind, id |-> id, parts |-> 1])
  IN IF sent.ok THEN [acc EXCEPT !.s = sent.s] ELSE Fail(acc, sent.s, "reply")

\* Mutant: a disconnect before the handshake is done is ignored.
ClosedByPeerOnceConnected(s) == IF s.state = "Connected" THEN [s EXCEPT !.state = "ByPeer"] ELSE s
ClosedByPeer(s) == [s EXCEPT !.state = "ByPeer"]

Return(acc, p) == [acc EXCEPT !.out = Append(@, p)]

\* handle_internal
HandleInternal(acc, p) ==
  IF acc.failed THEN acc
  ELSE CASE p.kind = "user"       -> Return(acc, p)
         [] p.kind = "request"    -> Answer(acc, "accepted", p.id)
         [] p.kind = "incoming"   -> [acc EXCEPT !.s.state = "Connected"]
         [] p.kind = "ping"       -> Answer(acc, "pong", p.id)
         [] p.kind = "disconnect" -> [acc EXCEPT !.s = ClosedByPeer(@)]
         [] OTHER                 -> acc

\* Mutant: only the payload that filled the gap is handled.
HandleFirst(acc, ready) ==
  IF ready = <<>> THEN acc ELSE HandleInternal(acc, Head(ready))

HandleAll(acc, ready) == FoldLeft(HandleInternal, acc, ready)

\* The body of receive's loop. The reliable index is marked first; whatever
\* fails after that is not undone.
TakeFrame(acc, f) ==
  LET marked == [acc.s EXCEPT !.dedup = DedupAccept(@, f.rel)]
      got    == PushFragment(marked, f)
      pushed == OrderingPush(got.s.ordering, f.ord, got.whole[1])
      placed == [got.s EXCEPT !.ordering = pushed.ordering]
  IN IF acc.failed \/ IsHandled(acc.s.dedup, f.rel) THEN acc
     ELSE IF got.refused THEN Fail(acc, got.s, "split")
     ELSE IF got.whole = <<>> THEN [acc EXCEPT !.s = got.s]
     ELSE IF pushed.refused THEN Fail(acc, placed, "order")
     ELSE HandleAll([acc EXCEPT !.s = placed], pushed.ready)

\* receive: an error discards the payloads already completed with it.
Receive(s, d) ==
  IF IsClosed(s) THEN [s |-> s, out |-> <<>>]
  ELSE CASE d.type = "ack"  -> [s |-> OnAck(s, d.seqs), out |-> <<>>]
         [] d.type = "nack" -> [s |-> OnNack(s, d.ranges), out |-> <<>>]
         [] d.type = "frames" ->
              LET taken == FoldLeft(TakeFrame,
                             [s |-> [s EXCEPT !.pendingAcks = @ \cup {d.seq}],
                              out |-> <<>>, failed |-> FALSE],
                             d.frames)
              IN [s |-> taken.s, out |-> IF taken.failed THEN <<>> ELSE taken.out]

-----------------------------------------------------------------------------
(* Time: tick, flush_acks, close                                            *)

\* One ACK datagram for every sequence received since the last one. It is
\* dropped, and the sequences forgotten, when the outbox is full.
FlushAcks(s) ==
  IF s.pendingAcks = {} THEN s
  ELSE [s EXCEPT !.pendingAcks = {},
                 !.outbox = IF Len(@) < MaxOutbox
                              THEN Append(@, [type |-> "ack", seqs |-> s.pendingAcks])
                              ELSE @]

Tick(s, due, expired, silent, ping) ==
  LET resent == Expire(Resend(FlushAcks(s), due), expired)
  IN IF IsClosed(s) THEN s
     ELSE IF silent THEN [s EXCEPT !.state = "Timeout"]
     ELSE IF s.dead THEN [s EXCEPT !.state = "Unreachable"]
     ELSE IF ping THEN Send(resent, [kind |-> "ping", id |-> 0, parts |-> 1]).s
     ELSE resent

\* The disconnect may not fit; the session closes all the same.
Close(s) ==
  IF IsClosed(s) THEN s
  ELSE [Send(s, [kind |-> "disconnect", id |-> 0, parts |-> 1]).s EXCEPT !.state = "ByUs"]
=============================================================================

------------------------------ MODULE Datagram ------------------------------
(***************************************************************************)
(* Frames and datagrams as bytes (frame.rs, datagram.rs), and how large    *)
(* they may be: the fragment capacity of split.rs and the payload limit of *)
(* connect.rs. A frame is                                                  *)
(* [reliability, reliable, sequence, order, channel, split, payload], its  *)
(* split <<>> or <<[count, id, index]>>; a datagram is a frame set         *)
(* [type, sequence, frames] or an ACK or NACK [type, ranges].              *)
(***************************************************************************)
EXTENDS Bytes

DATAGRAM_HEADER_LEN == 4
UDP_IP_OVERHEAD == 28
MaxFramePayload == 65535 \div 8

Monus(a, b) == IF a < b THEN 0 ELSE a - b
DivCeil(a, b) == (a + b - 1) \div b

-----------------------------------------------------------------------------
(* Reliability.                                                             *)

ReliableOrdered == 3

IsReliable(r) == r \in {2, 3, 4, 6, 7}
IsSequenced(r) == r \in {1, 4}
IsOrdered(r) == IsSequenced(r) \/ r \in {3, 7}

HeaderLen(r, split) ==
  1 + 2 + (IF IsReliable(r) THEN 3 ELSE 0) + (IF IsSequenced(r) THEN 3 ELSE 0)
        + (IF IsOrdered(r) THEN 4 ELSE 0) + (IF split THEN 10 ELSE 0)

EncodedLen(f) == HeaderLen(f.reliability, f.split # <<>>) + Len(f.payload)

\* payload_limit: the advertised MTU counts the IP and UDP headers.
PayloadLimit(mtu) == Monus(mtu, UDP_IP_OVERHEAD)

FragmentCapacity(limit) ==
  LET body == Monus(Monus(limit, DATAGRAM_HEADER_LEN), HeaderLen(ReliableOrdered, TRUE))
  IN IF body < MaxFramePayload THEN body ELSE MaxFramePayload

-----------------------------------------------------------------------------
(* Frames.                                                                  *)

\* The length field: in bits, and at most what 16 bits say.
Bits(length) == IF length * 8 > 65535 THEN 65535 ELSE length * 8

EncodeFrame(f) ==
  <<32 * f.reliability + (IF f.split = <<>> THEN 0 ELSE 16)>>
    \o BigEndian(Bits(Len(f.payload)), 2)
    \o (IF IsReliable(f.reliability) THEN LittleEndian(f.reliable, 3) ELSE <<>>)
    \o (IF IsSequenced(f.reliability) THEN LittleEndian(f.sequence, 3) ELSE <<>>)
    \o (IF IsOrdered(f.reliability) THEN LittleEndian(f.order, 3) \o <<f.channel>> ELSE <<>>)
    \o (IF f.split = <<>> THEN <<>>
        ELSE BigEndian(f.split[1].count, 4) \o BigEndian(f.split[1].id, 2)
               \o BigEndian(f.split[1].index, 4))
    \o f.payload

\* Mutant: the order index is read with the byte order of everything else.
FrameHeaderBig(r, split) ==
  <<<<"flags", U8>>, <<"bits", Big(2)>>>>
    \o (IF IsReliable(r) THEN <<<<"reliable", Little(3)>>>> ELSE <<>>)
    \o (IF IsSequenced(r) THEN <<<<"sequence", Little(3)>>>> ELSE <<>>)
    \o (IF IsOrdered(r) THEN <<<<"order", Big(3)>>, <<"channel", U8>>>> ELSE <<>>)
    \o (IF split THEN <<<<"count", Big(4)>>, <<"id", Big(2)>>, <<"index", Big(4)>>>> ELSE <<>>)

\* What Frame::decode reads before the body.
FrameHeader(r, split) ==
  <<<<"flags", U8>>, <<"bits", Big(2)>>>>
    \o (IF IsReliable(r) THEN <<<<"reliable", Little(3)>>>> ELSE <<>>)
    \o (IF IsSequenced(r) THEN <<<<"sequence", Little(3)>>>> ELSE <<>>)
    \o (IF IsOrdered(r) THEN <<<<"order", Little(3)>>, <<"channel", U8>>>> ELSE <<>>)
    \o (IF split THEN <<<<"count", Big(4)>>, <<"id", Big(2)>>, <<"index", Big(4)>>>> ELSE <<>>)

FieldOr(rec, name, default) == IF name \in DOMAIN rec THEN rec[name] ELSE default

NewFrame(reliability, payload) ==
  [reliability |-> reliability, reliable |-> 0, sequence |-> 0, order |-> 0, channel |-> 0,
   split |-> <<>>, payload |-> payload]

\* Frame::decode, once the header h is read and the body taken.
FrameOf(r, h, body) ==
  Got([NewFrame(r, body.value) EXCEPT
         !.reliable = FieldOr(h, "reliable", 0), !.sequence = FieldOr(h, "sequence", 0),
         !.order = FieldOr(h, "order", 0), !.channel = FieldOr(h, "channel", 0),
         !.split = IF "count" \in DOMAIN h THEN <<[count |-> h.count, id |-> h.id, index |-> h.index]>>
                   ELSE <<>>],
      body.next)

WithBody(r, h, body) == IF h.bits = 0 \/ ~ body.ok THEN Failed ELSE FrameOf(r, h, body)

AfterHeader(r, header, buf) ==
  IF ~ header.ok THEN Failed
  ELSE WithBody(r, header.value, TakeBytes(buf, header.next, DivCeil(header.value.bits, 8)))

DecodeFrame(buf, at) ==
  LET r == buf[at] \div 32
  IN AfterHeader(r, Read(FrameHeader(r, (buf[at] \div 16) % 2 = 1), buf, at), buf)

-----------------------------------------------------------------------------
(* Datagrams.                                                               *)

AckFlags == [ack |-> 192, nack |-> 160]

EncodeRange(range) ==
  IF range[1] = range[2] THEN <<1>> \o LittleEndian(range[1], 3)
  ELSE <<0>> \o LittleEndian(range[1], 3) \o LittleEndian(range[2], 3)

\* A frame set, from its frames encoded.
FrameSet(sequence, frames) == <<128>> \o LittleEndian(sequence, 3) \o Concat(frames)

EncodeAcks(type, ranges) ==
  <<AckFlags[type]>> \o BigEndian(Len(ranges), 2)
    \o Concat([k \in DOMAIN ranges |-> EncodeRange(ranges[k])])

\* The frames from start to the end.
DecodeFrames(buf, start) ==
  LET from[at \in Nat] ==
        LET onwards(one) == IF one.ok THEN Before(one, from[one.next]) ELSE Failed
        IN IF at > Len(buf) THEN Got(<<>>, at) ELSE onwards(DecodeFrame(buf, at))
  IN from[start]

SingleRange == <<<<"flag", U8>>, <<"start", Little(3)>>>>
WideRange == SingleRange \o <<<<"end", Little(3)>>>>

IsSingle(buf, at) == at <= Len(buf) /\ buf[at] = 1

WithRange(ranges, got) ==
  IF got.ok
    THEN Got(Append(ranges, <<got.value.start, FieldOr(got.value, "end", got.value.start)>>), got.next)
    ELSE Failed

NextRange(before, buf) ==
  IF ~ before.ok THEN Failed
  ELSE WithRange(before.value,
         Read(IF IsSingle(buf, before.next) THEN SingleRange ELSE WideRange, buf, before.next))

DecodeRanges(buf, start, count) ==
  LET upTo[k \in 0 .. count] == IF k = 0 THEN Got(<<>>, start) ELSE NextRange(upTo[k - 1], buf)
  IN upTo[count]

\* As a sequence of at most one: what does not decode is nothing.
FramesOrNot(sequence, frames) ==
  IF sequence.ok /\ frames.ok
    THEN <<[type |-> "frames", sequence |-> sequence.value, frames |-> frames.value]>>
    ELSE <<>>

RangesOrNot(type, ranges) == IF ranges.ok THEN <<[type |-> type, ranges |-> ranges.value]>> ELSE <<>>

DecodeDatagram(buf) ==
  LET counted(count) == IF count.ok THEN DecodeRanges(buf, 4, count.value) ELSE Failed
  IN IF buf = <<>> \/ buf[1] < 128 THEN <<>>
     ELSE IF (buf[1] \div 32) % 4 # 0
       THEN RangesOrNot(IF (buf[1] \div 64) % 2 = 1 THEN "ack" ELSE "nack",
                        counted(TakeField(Big(2), buf, 2)))
     ELSE FramesOrNot(TakeField(Little(3), buf, 2), DecodeFrames(buf, 5))

InRanges(ranges, q) == \E k \in DOMAIN ranges : ranges[k][1] <= q /\ q <= ranges[k][2]

\* flush_acks: the sequences, sorted, as runs.
Ranges(seqs) ==
  LET starts == {q \in seqs : q - 1 \notin seqs}
      Run(q) == <<q, CHOOSE e \in seqs : e >= q /\ e + 1 \notin seqs /\ q .. e \subseteq seqs>>
      from[left \in SUBSET starts] ==
        IF left = {} THEN <<>>
        ELSE LET least == CHOOSE q \in left : \A other \in left : q <= other
             IN <<Run(least)>> \o from[left \ {least}]
  IN from[starts]

-----------------------------------------------------------------------------
(* Splitter::split on the bytes of a payload, for a session that may build  *)
(* datagrams of limit bytes.                                                *)

\* How many frames it takes: none when nothing fits.
Parts(length, limit) ==
  LET capacity == FragmentCapacity(limit)
  IN IF capacity = 0 THEN 0 ELSE IF length <= capacity THEN 1 ELSE DivCeil(length, capacity)

\* The bytes the fragment at index carries.
Chunk(payload, index, limit) ==
  LET capacity == FragmentCapacity(limit)
      end      == (index + 1) * capacity
  IN SubSeq(payload, index * capacity + 1, IF end < Len(payload) THEN end ELSE Len(payload))
=============================================================================

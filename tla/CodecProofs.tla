---------------------------- MODULE CodecProofs ----------------------------
(***************************************************************************)
(* What is written is what is read, for every packet: what a fragment      *)
(* costs on the wire whatever its payload and the limit a peer negotiated, *)
(* that Read returns what Write wrote along any layout without a rest,     *)
(* that a batch decodes to the packets put in it, and, packet by packet,   *)
(* that what the server and its client tell each other fits its layout     *)
(* and so is read as it was meant.                                         *)
(*                                                                         *)
(* A recursive function of Bytes is shown to exist and to be the loop of   *)
(* Folding, whose theorems then say what it returns. Varint has a chain of *)
(* approximations instead, and DecodePackets, whose steps depend on what   *)
(* it reads, an induction from the end of the buffer.                      *)
(***************************************************************************)
EXTENDS Datagram, Server, SequenceTheorems, TLAPS

Frames ==
  [reliability : 0 .. 7, reliable : Nat, sequence : Nat, order : Nat, channel : Byte,
   split : {<<>>} \cup {<<at>> : at \in [count : Nat, id : Nat, index : Nat]}, payload : Seq(Byte)]

IsBytes(s, length) == s \in Seq(Byte) /\ Len(s) = length

-----------------------------------------------------------------------------
(* Lengths.                                                                 *)

\* A byte of a number is a byte.
LEMMA ByteOfIsByte == \A v \in Nat, k \in Nat : ByteOf(v, k) \in Byte
<1> SUFFICES ASSUME NEW v \in Nat, NEW k \in Nat PROVE ByteOf(v, k) \in Byte
  OBVIOUS
<1>1. CASE k > 3
  BY <1>1 DEF ByteOf, Byte
<1>2. CASE k = 0
  <2>1. ByteOf(v, k) = (v \div 1) % 256
    BY <1>2 DEF ByteOf
  <2> QED
    BY <2>1 DEF Byte
<1>3. CASE k = 1
  <2>1. ByteOf(v, k) = (v \div 256) % 256
    BY <1>3 DEF ByteOf
  <2> QED
    BY <2>1 DEF Byte
<1>4. CASE k = 2
  <2>1. ByteOf(v, k) = (v \div 65536) % 256
    BY <1>4 DEF ByteOf
  <2> QED
    BY <2>1 DEF Byte
<1>5. CASE k = 3
  <2>1. ByteOf(v, k) = (v \div 16777216) % 256
    BY <1>5 DEF ByteOf
  <2> QED
    BY <2>1 DEF Byte
<1> QED
  BY <1>1, <1>2, <1>3, <1>4, <1>5

\* A fixed-width number has that many bytes.
LEMMA LittleLength == \A v \in Nat, width \in Nat : IsBytes(LittleEndian(v, width), width)
<1> SUFFICES ASSUME NEW v \in Nat, NEW width \in Nat PROVE IsBytes(LittleEndian(v, width), width)
  OBVIOUS
<1> DEFINE b(k) == ByteOf(v, k - 1)
<1>1. \A k \in 1 .. width : b(k) \in Byte
  <2> SUFFICES ASSUME NEW k \in 1 .. width PROVE ByteOf(v, k - 1) \in Byte
    OBVIOUS
  <2>1. k - 1 \in Nat
    OBVIOUS
  <2> QED
    BY <2>1, ByteOfIsByte
<1>2. LittleEndian(v, width) = [k \in 1 .. width |-> b(k)]
  BY DEF LittleEndian
<1> HIDE DEF b
<1>3. IsBytes([k \in 1 .. width |-> b(k)], width)
  BY <1>1 DEF IsBytes
<1> QED
  BY <1>2, <1>3

\* The same, the highest byte first.
LEMMA BigLength == \A v \in Nat, width \in Nat : IsBytes(BigEndian(v, width), width)
<1> SUFFICES ASSUME NEW v \in Nat, NEW width \in Nat PROVE IsBytes(BigEndian(v, width), width)
  OBVIOUS
<1> DEFINE b(k) == ByteOf(v, width - k)
<1>1. \A k \in 1 .. width : b(k) \in Byte
  <2> SUFFICES ASSUME NEW k \in 1 .. width PROVE ByteOf(v, width - k) \in Byte
    OBVIOUS
  <2>1. width - k \in Nat
    OBVIOUS
  <2> QED
    BY <2>1, ByteOfIsByte
<1>2. BigEndian(v, width) = [k \in 1 .. width |-> b(k)]
  BY DEF BigEndian
<1> HIDE DEF b
<1>3. IsBytes([k \in 1 .. width |-> b(k)], width)
  BY <1>1 DEF IsBytes
<1> QED
  BY <1>2, <1>3

\* Bytes joined are bytes, as many as both.
LEMMA JoinedLength ==
  ASSUME NEW s, NEW m \in Nat, IsBytes(s, m), NEW t, NEW n \in Nat, IsBytes(t, n)
  PROVE  IsBytes(s \o t, m + n)
<1>1. s \in Seq(Byte) /\ t \in Seq(Byte) /\ Len(s) = m /\ Len(t) = n
  BY DEF IsBytes
<1> HIDE DEF Byte
<1>2. s \o t \in Seq(Byte) /\ Len(s \o t) = Len(s) + Len(t)
  BY <1>1, ConcatProperties
<1> QED
  BY <1>1, <1>2 DEF IsBytes

\* The length field says how long a body of at most MaxFramePayload bytes is,
\* and never says zero, which decode refuses.
THEOREM BodyLengthSurvives ==
  ASSUME NEW n \in 1 .. MaxFramePayload
  PROVE  Bits(n) # 0 /\ DivCeil(Bits(n), 8) = n
<1>1. MaxFramePayload = 8191
  BY DEF MaxFramePayload
<1>2. n \in Nat /\ 1 <= n /\ n <= 8191
  BY <1>1
<1>3. Bits(n) = n * 8
  BY <1>2 DEF Bits
<1>4. DivCeil(Bits(n), 8) = (n * 8 + 7) \div 8
  BY <1>2, <1>3 DEF DivCeil
<1> QED
  BY <1>2, <1>3, <1>4

-----------------------------------------------------------------------------
(* Frames.                                                                  *)

\* An optional field: so many bytes when it is there.
LEMMA OptionalLength ==
  ASSUME NEW there \in BOOLEAN, NEW s, NEW m \in Nat, there => IsBytes(s, m)
  PROVE  IsBytes(IF there THEN s ELSE <<>>, IF there THEN m ELSE 0)
<1>1. CASE there
  BY <1>1
<1>2. CASE ~ there
  BY <1>2 DEF IsBytes
<1> QED
  BY <1>1, <1>2

\* How long the order field is.
LEMMA OrderField ==
  ASSUME NEW f \in Frames
  PROVE  IsBytes(LittleEndian(f.order, 3) \o <<f.channel>>, 4)
<1>1. IsBytes(LittleEndian(f.order, 3), 3)
  BY LittleLength DEF Frames
<1>2. IsBytes(<<f.channel>>, 1)
  BY DEF Frames, IsBytes
<1> QED
  BY <1>1, <1>2, JoinedLength

\* How long the split field is.
LEMMA SplitField ==
  ASSUME NEW at \in [count : Nat, id : Nat, index : Nat]
  PROVE  IsBytes(BigEndian(at.count, 4) \o BigEndian(at.id, 2) \o BigEndian(at.index, 4), 10)
<1>1. /\ IsBytes(BigEndian(at.count, 4), 4)
      /\ IsBytes(BigEndian(at.id, 2), 2)
      /\ IsBytes(BigEndian(at.index, 4), 4)
  BY BigLength
<1>2. IsBytes(BigEndian(at.count, 4) \o BigEndian(at.id, 2), 6)
  BY <1>1, JoinedLength
<1> QED
  BY <1>1, <1>2, JoinedLength

\* encode writes exactly the bytes encoded_len counts, whatever the reliability
\* and whether or not the frame is a fragment: what send_frames reserves in a
\* datagram is what the frame takes.
THEOREM FrameLength ==
  ASSUME NEW f \in Frames
  PROVE  IsBytes(EncodeFrame(f), EncodedLen(f))
<1> DEFINE r       == f.reliability
           isSplit == f.split # <<>>
           flags   == 32 * r + (IF f.split = <<>> THEN 0 ELSE 16)
           bits    == BigEndian(Bits(Len(f.payload)), 2)
           rel     == IF IsReliable(r) THEN LittleEndian(f.reliable, 3) ELSE <<>>
           seq     == IF IsSequenced(r) THEN LittleEndian(f.sequence, 3) ELSE <<>>
           ord     == IF IsOrdered(r) THEN LittleEndian(f.order, 3) \o <<f.channel>> ELSE <<>>
           spl     == IF f.split = <<>> THEN <<>>
                      ELSE BigEndian(f.split[1].count, 4) \o BigEndian(f.split[1].id, 2)
                             \o BigEndian(f.split[1].index, 4)
           relN    == IF IsReliable(r) THEN 3 ELSE 0
           seqN    == IF IsSequenced(r) THEN 3 ELSE 0
           ordN    == IF IsOrdered(r) THEN 4 ELSE 0
           splN    == IF isSplit THEN 10 ELSE 0
<1>1. IsBytes(<<flags>>, 1)
  <2> DEFINE mark == IF f.split = <<>> THEN 0 ELSE 16
  <2>1. r \in 0 .. 7
    BY DEF Frames
  <2>2. mark \in {0, 16}
    OBVIOUS
  <2> HIDE DEF r, mark
  <2>3. 32 * r + mark \in Byte
    BY <2>1, <2>2 DEF Byte
  <2>4. flags \in Byte
    BY <2>3 DEF mark
  <2> QED
    BY <2>4 DEF IsBytes
<1>2. IsBytes(bits, 2)
  <2> DEFINE n == Len(f.payload)
  <2>1. n \in Nat
    BY DEF Frames
  <2> HIDE DEF n
  <2>2. Bits(n) \in Nat
    BY <2>1 DEF Bits
  <2>3. IsBytes(BigEndian(Bits(n), 2), 2)
    BY <2>2, BigLength
  <2> QED
    BY <2>3 DEF n
<1>3. IsBytes(rel, relN)
  <2>1. IsBytes(LittleEndian(f.reliable, 3), 3)
    BY LittleLength DEF Frames
  <2> QED
    BY <2>1, OptionalLength DEF IsReliable
<1>4. IsBytes(seq, seqN)
  <2>1. IsBytes(LittleEndian(f.sequence, 3), 3)
    BY LittleLength DEF Frames
  <2> QED
    BY <2>1, OptionalLength DEF IsSequenced
<1>5. IsBytes(ord, ordN)
  <2>1. IsOrdered(r) \in BOOLEAN
    BY DEF IsOrdered, IsSequenced
  <2> QED
    BY <2>1, OrderField, OptionalLength
<1>6. IsBytes(spl, splN)
  <2>1. CASE f.split = <<>>
    BY <2>1 DEF IsBytes
  <2>2. CASE f.split # <<>>
    <3>1. PICK at \in [count : Nat, id : Nat, index : Nat] : f.split = <<at>>
      BY <2>2 DEF Frames
    <3>2. spl = BigEndian(at.count, 4) \o BigEndian(at.id, 2) \o BigEndian(at.index, 4)
      BY <2>2, <3>1
    <3> QED
      BY <2>2, <3>2, SplitField
  <2> QED
    BY <2>1, <2>2
<1>7. IsBytes(f.payload, Len(f.payload)) /\ Len(f.payload) \in Nat
  BY DEF Frames, IsBytes
<1>8. EncodeFrame(f) = <<flags>> \o bits \o rel \o seq \o ord \o spl \o f.payload
  BY DEF EncodeFrame
<1>9. EncodedLen(f) = 1 + 2 + relN + seqN + ordN + splN + Len(f.payload)
  <2>1. HeaderLen(r, isSplit) = 1 + 2 + relN + seqN + ordN + splN
    BY DEF HeaderLen
  <2> QED
    BY <2>1 DEF EncodedLen
<1>10. relN \in Nat /\ seqN \in Nat /\ ordN \in Nat /\ splN \in Nat
  OBVIOUS
<1> HIDE DEF flags, bits, rel, seq, ord, spl, relN, seqN, ordN, splN
<1>11. IsBytes(<<flags>> \o bits, 3)
  BY <1>1, <1>2, JoinedLength
<1>12. IsBytes(<<flags>> \o bits \o rel, 3 + relN)
  BY <1>3, <1>10, <1>11, JoinedLength
<1>13. IsBytes(<<flags>> \o bits \o rel \o seq, 3 + relN + seqN)
  BY <1>4, <1>10, <1>12, JoinedLength
<1>14. IsBytes(<<flags>> \o bits \o rel \o seq \o ord, 3 + relN + seqN + ordN)
  BY <1>5, <1>10, <1>13, JoinedLength
<1>15. IsBytes(<<flags>> \o bits \o rel \o seq \o ord \o spl, 3 + relN + seqN + ordN + splN)
  BY <1>6, <1>10, <1>14, JoinedLength
<1>16. IsBytes(EncodeFrame(f), 3 + relN + seqN + ordN + splN + Len(f.payload))
  <2>1. 3 + relN + seqN + ordN + splN \in Nat
    BY <1>10
  <2> QED
    BY <1>7, <1>8, <1>15, <2>1, JoinedLength
<1>17. EncodedLen(f) = 3 + relN + seqN + ordN + splN + Len(f.payload)
  <2> DEFINE n == Len(f.payload)
  <2>1. n \in Nat
    BY <1>7
  <2>2. EncodedLen(f) = 1 + 2 + relN + seqN + ordN + splN + n
    BY <1>9
  <2> HIDE DEF n
  <2>3. 1 + 2 + relN + seqN + ordN + splN + n = 3 + relN + seqN + ordN + splN + n
    BY <1>10, <2>1
  <2>4. EncodedLen(f) = 3 + relN + seqN + ordN + splN + n
    BY <2>2, <2>3
  <2> QED
    BY <2>4 DEF n
<1> QED
  BY <1>16, <1>17

-----------------------------------------------------------------------------
(* Fragments.                                                               *)

\* What a fragment may carry: with its header and the datagram's it stays
\* within the limit, and its length can be said in the length field.
LEMMA CapacityWithin ==
  ASSUME NEW limit \in Nat, FragmentCapacity(limit) > 0
  PROVE  /\ FragmentCapacity(limit) \in 1 .. MaxFramePayload
         /\ DATAGRAM_HEADER_LEN + HeaderLen(ReliableOrdered, TRUE) + FragmentCapacity(limit) <= limit
<1> DEFINE body == Monus(Monus(limit, 4), 20)
<1>1. HeaderLen(ReliableOrdered, TRUE) = 20
  BY DEF HeaderLen, ReliableOrdered, IsReliable, IsOrdered, IsSequenced
<1>2. FragmentCapacity(limit) = IF body < MaxFramePayload THEN body ELSE MaxFramePayload
  BY <1>1 DEF FragmentCapacity, DATAGRAM_HEADER_LEN
<1>3. MaxFramePayload = 8191
  BY DEF MaxFramePayload
<1>4. body = IF limit < 24 THEN 0 ELSE limit - 24
  BY DEF Monus
<1> HIDE DEF body
<1>5. 0 < body /\ FragmentCapacity(limit) <= body
  BY <1>2, <1>3, <1>4
<1>6. body = limit - 24
  BY <1>4, <1>5
<1>7. FragmentCapacity(limit) \in 1 .. MaxFramePayload
  BY <1>2, <1>3, <1>4
<1>8. 4 + 20 + FragmentCapacity(limit) <= limit
  <2>1. FragmentCapacity(limit) \in Nat
    BY <1>2, <1>3, <1>4
  <2>2. FragmentCapacity(limit) <= limit - 24
    BY <1>5, <1>6
  <2> QED
    BY <2>1, <2>2
<1> QED
  BY <1>1, <1>7, <1>8 DEF DATAGRAM_HEADER_LEN

\* Whatever payload limit a peer negotiated, a datagram that holds one fragment
\* of a reliable ordered payload is no longer than the limit, and the
\* receiver takes as many bytes for its body as were written.
THEOREM FragmentFits ==
  ASSUME NEW limit \in Nat, FragmentCapacity(limit) > 0,
         NEW f \in Frames, f.reliability = ReliableOrdered, f.split # <<>>,
         Len(f.payload) \in 1 .. FragmentCapacity(limit)
  PROVE  /\ DATAGRAM_HEADER_LEN + Len(EncodeFrame(f)) <= limit
         /\ DivCeil(Bits(Len(f.payload)), 8) = Len(f.payload)
<1> DEFINE n == Len(f.payload)
           c == FragmentCapacity(limit)
           h == HeaderLen(ReliableOrdered, TRUE)
<1>1. c \in 1 .. MaxFramePayload /\ DATAGRAM_HEADER_LEN + h + c <= limit
  BY CapacityWithin
<1>2. Len(EncodeFrame(f)) = h + n
  <2>1. IsBytes(EncodeFrame(f), EncodedLen(f))
    BY FrameLength
  <2>2. EncodedLen(f) = h + n
    BY DEF EncodedLen
  <2> QED
    BY <2>1, <2>2 DEF IsBytes
<1>3. h = 20
  BY DEF HeaderLen, ReliableOrdered, IsReliable, IsOrdered, IsSequenced
<1>4. n \in 1 .. c
  OBVIOUS
<1>5. MaxFramePayload = 8191 /\ DATAGRAM_HEADER_LEN = 4
  BY DEF MaxFramePayload, DATAGRAM_HEADER_LEN
<1> HIDE DEF n, c, h
<1>6. DATAGRAM_HEADER_LEN + Len(EncodeFrame(f)) <= limit
  <2>1. c \in Nat /\ n \in Nat /\ n <= c
    BY <1>1, <1>4, <1>5
  <2>2. 4 + 20 + c <= limit
    BY <1>1, <1>3, <1>5
  <2>3. 4 + (20 + n) <= limit
    BY <2>1, <2>2
  <2> QED
    BY <1>2, <1>3, <1>5, <2>3
<1>7. n \in 1 .. MaxFramePayload
  <2> DEFINE most == MaxFramePayload
  <2>1. most \in Nat /\ c \in 1 .. most
    BY <1>1, <1>5
  <2> HIDE DEF most
  <2>2. n \in 1 .. most
    BY <1>4, <2>1
  <2> QED
    BY <2>2 DEF most
<1>8. DivCeil(Bits(n), 8) = n
  BY <1>7, BodyLengthSurvives
<1> QED
  BY <1>6, <1>8 DEF n

Joined(joined, part) == joined \o part
OfBytes(fixed, joined, k) == joined \in Seq(Byte)

Joining == INSTANCE Folding WITH Op <- Joined, Holds <- OfBytes

\* Concat is the loop that joins, and the last value of its own recursion.
LEMMA ConcatIs ==
  ASSUME NEW S, NEW parts \in Seq(S)
  PROVE  /\ Concat(parts) = Joining!Loop(<<>>, parts)
         /\ \E f : Joining!IsUpTo(f, <<>>, parts) /\ Concat(parts) = f[Len(parts)]
<1> DEFINE Solves(f) == f = [k \in 0 .. Len(parts) |-> IF k = 0 THEN <<>> ELSE f[k - 1] \o parts[k]]
<1>1. Concat(parts) = (CHOOSE f : Solves(f))[Len(parts)]
  BY DEF Concat
<1>2. \A f : Solves(f) <=> Joining!IsUpTo(f, <<>>, parts)
  BY DEF Joining!IsUpTo, Joined
<1>3. \E f : Solves(f)
  <2> HIDE DEF Solves
  <2> QED
    BY <1>2, Joining!UpToExists
<1> HIDE DEF Solves
<1>4. Solves(CHOOSE f : Solves(f))
  BY <1>3
<1>5. Joining!IsUpTo((CHOOSE f : Solves(f)), <<>>, parts)
  BY <1>2, <1>4
<1>6. (CHOOSE f : Solves(f))[Len(parts)] = Joining!Loop(<<>>, parts)
  BY <1>5, Joining!UpToIsLoop
<1> QED
  BY <1>1, <1>5, <1>6

\* Bytes joined are bytes.
LEMMA ConcatBytes ==
  ASSUME NEW parts \in Seq(Seq(Byte))
  PROVE  Concat(parts) \in Seq(Byte)
<1>1. OfBytes(0, <<>>, 0)
  BY DEF OfBytes
<1>2. ASSUME NEW k \in 0 .. (Len(parts) - 1), NEW joined, OfBytes(0, joined, k)
      PROVE  OfBytes(0, Joined(joined, parts[k + 1]), k + 1)
  <2>1. parts[k + 1] \in Seq(Byte)
    OBVIOUS
  <2> HIDE DEF Byte
  <2> QED
    BY <1>2, <2>1 DEF OfBytes, Joined
<1>3. OfBytes(0, Joining!Loop(<<>>, parts), Len(parts))
  BY <1>1, <1>2, Joining!FoldKeeps
<1> QED
  BY <1>3, ConcatIs DEF OfBytes

-----------------------------------------------------------------------------
\* The bytes s stand in buf from at on.
At(buf, at, s) ==
  /\ at \in Nat \ {0} /\ at + Len(s) - 1 <= Len(buf)
  /\ \A i \in 1 .. Len(s) : buf[at + i - 1] = s[i]

\* Where two strings stand joined, each stands.
LEMMA AtJoined ==
  ASSUME NEW buf \in Seq(Byte), NEW at, NEW a \in Seq(Byte), NEW b \in Seq(Byte), At(buf, at, a \o b)
  PROVE  At(buf, at, a) /\ At(buf, at + Len(a), b)
<1> DEFINE m == Len(a)
           n == Len(b)
           l == Len(buf)
<1>1. /\ m \in Nat /\ n \in Nat /\ l \in Nat /\ Len(a \o b) = m + n
      /\ \A i \in 1 .. m : (a \o b)[i] = a[i]
      /\ \A i \in 1 .. n : (a \o b)[m + i] = b[i]
  OBVIOUS
<1> DEFINE c == a \o b
<1>2. at \in Nat \ {0} /\ at + (m + n) - 1 <= l /\ \A i \in 1 .. (m + n) : buf[at + i - 1] = c[i]
  BY <1>1 DEF At
<1>3. \A i \in 1 .. m : c[i] = a[i]
  BY <1>1
<1>4. \A i \in 1 .. n : c[m + i] = b[i]
  BY <1>1
<1>5. Len(a) = m /\ Len(b) = n /\ Len(buf) = l
  OBVIOUS
<1> HIDE DEF c, m, n, l
<1>6. at + m - 1 <= l /\ \A i \in 1 .. m : buf[at + i - 1] = a[i]
  <2>1. \A i \in 1 .. m : i \in 1 .. (m + n)
    BY <1>1
  <2>2. \A i \in 1 .. m : buf[at + i - 1] = a[i]
    BY <2>1, <1>2, <1>3
  <2>3. at + m - 1 <= l
    BY <1>1, <1>2
  <2> QED
    BY <2>2, <2>3
<1>7. (at + m) \in Nat \ {0} /\ (at + m) + n - 1 <= l
  BY <1>1, <1>2
<1>8. ASSUME NEW i \in 1 .. n PROVE buf[(at + m) + i - 1] = b[i]
  <2>1. m + i \in 1 .. (m + n) /\ at + (m + i) - 1 = (at + m) + i - 1
    BY <1>1, <1>2
  <2>2. buf[at + (m + i) - 1] = c[m + i]
    BY <2>1, <1>2
  <2> QED
    BY <2>1, <2>2, <1>4
<1> QED
  BY <1>2, <1>5, <1>6, <1>7, <1>8 DEF At

\* What stands there is what is taken.
LEMMA TakeAt ==
  ASSUME NEW buf \in Seq(Byte), NEW at, NEW s \in Seq(Byte), At(buf, at, s)
  PROVE  TakeBytes(buf, at, Len(s)) = Got(s, at + Len(s))
<1> DEFINE n == Len(s)
           l == Len(buf)
           cut == SubSeq(buf, at, at + n - 1)
<1>1. n \in Nat /\ l \in Nat /\ at \in Nat \ {0} /\ at + n - 1 <= l
      /\ \A i \in 1 .. n : buf[at + i - 1] = s[i]
  BY DEF At
<1>2. cut = s
  <2>1. \A i \in at .. (at + n - 1) : i \in 1 .. l
    BY <1>1
  <2>2. \A i \in at .. (at + n - 1) : buf[i] \in Byte
    BY <2>1
  <2>3. cut = [i \in 1 .. n |-> buf[at + i - 1]]
    <3>1. (at + n - 1) - at + 1 = n
      BY <1>1
    <3>2. cut = [i \in 1 .. ((at + n - 1) - at + 1) |-> buf[at + i - 1]]
      BY <1>1
    <3> QED
      BY <3>1, <3>2
  <2>4. s = [i \in 1 .. n |-> s[i]]
    OBVIOUS
  <2> HIDE DEF cut, n
  <2> QED
    BY <1>1, <2>3, <2>4
<1>3. ~ (n > l - at + 1)
  <2> HIDE DEF n, l
  <2> QED
    BY <1>1
<1> HIDE DEF cut
<1>4. TakeBytes(buf, at, n) = IF n > l - at + 1 THEN Failed ELSE Got(cut, at + n)
  BY DEF TakeBytes, cut
<1> QED
  BY <1>2, <1>3, <1>4

-----------------------------------------------------------------------------
(* Fixed-width integers.                                                    *)

Scale(j) == IF j = 0 THEN 1 ELSE IF j = 1 THEN 256 ELSE IF j = 2 THEN 65536 ELSE 16777216

\* A byte of a number, by its scale.
LEMMA ByteOfIs ==
  ASSUME NEW v \in Nat, NEW j \in Nat
  PROVE  ByteOf(v, j) = IF j > 3 THEN 0 ELSE (v \div Scale(j)) % 256
<1>1. CASE j > 3
  BY <1>1 DEF ByteOf
<1>2. CASE j = 0
  BY <1>2 DEF ByteOf, Scale
<1>3. CASE j = 1
  BY <1>3 DEF ByteOf, Scale
<1>4. CASE j = 2
  BY <1>4 DEF ByteOf, Scale
<1>5. CASE j = 3
  BY <1>5 DEF ByteOf, Scale
<1> QED
  BY <1>1, <1>2, <1>3, <1>4, <1>5

BigMore(high, byte) == IF high >= 8388607 THEN Huge ELSE 256 * high + byte

\* After k of width bytes, what is left above the bytes to come.
BigSoFar(fixed, acc, k) ==
  LET v == fixed[1]
      j == fixed[2] - k
  IN acc = IF j > 3 THEN 0 ELSE v \div Scale(j)

\* What any bytes read as.
IsNumber(n) == n \in Nat /\ n <= Huge

BigHolds(fixed, acc, k) == IF fixed = <<>> THEN IsNumber(acc) ELSE BigSoFar(fixed, acc, k)

Bigs == INSTANCE Folding WITH Op <- BigMore, Holds <- BigHolds

\* Reading a big-endian number is a loop over its bytes.
LEMMA FromBigIs ==
  ASSUME NEW S, NEW bytes \in Seq(S)
  PROVE  FromBig(bytes) = Bigs!Loop(0, bytes)
<1> DEFINE Solves(f) == f = [k \in 0 .. Len(bytes) |->
                           IF k = 0 THEN 0 ELSE IF f[k - 1] >= 8388607 THEN Huge
                                                ELSE 256 * f[k - 1] + bytes[k]]
<1>1. FromBig(bytes) = (CHOOSE f : Solves(f))[Len(bytes)]
  BY DEF FromBig
<1>2. \A f : Solves(f) <=> Bigs!IsUpTo(f, 0, bytes)
  BY DEF Bigs!IsUpTo, BigMore
<1>3. \E f : Solves(f)
  <2> HIDE DEF Solves
  <2> QED
    BY <1>2, Bigs!UpToExists
<1> HIDE DEF Solves
<1>4. Solves(CHOOSE f : Solves(f))
  BY <1>3
<1>5. Bigs!IsUpTo((CHOOSE f : Solves(f)), 0, bytes)
  BY <1>2, <1>4
<1>6. (CHOOSE f : Solves(f))[Len(bytes)] = Bigs!Loop(0, bytes)
  BY <1>5, Bigs!UpToIsLoop
<1> QED
  BY <1>1, <1>6

\* A number over a byte, the byte, and the number they make.
Made(high, low, all) == high \in Nat /\ high < 8388607 /\ 256 * high + low = all

\* A number is its upper bytes and the next one, and none of them saturates.
LEMMA HighAndLow ==
  ASSUME NEW v \in Nat, v <= MostFixed, NEW j \in 0 .. 2
  PROVE  Made(v \div Scale(j + 1), (v \div Scale(j)) % 256, v \div Scale(j))
<1>1. v \in Nat /\ v <= 2147483391
  BY DEF MostFixed
<1>2. CASE j = 0
  <2>1. Scale(j) = 1 /\ Scale(j + 1) = 256
    BY <1>2 DEF Scale
  <2>2. v \div 1 = v
    BY <1>1
  <2>3. v \div 256 \in Nat /\ v \div 256 < 8388607 /\ 256 * (v \div 256) + (v % 256) = v
    BY <1>1
  <2>4. v \div Scale(j + 1) = v \div 256 /\ v \div Scale(j) = v
    BY <2>1, <2>2
  <2> DEFINE a == v \div 256
  <2>5. v \div Scale(j + 1) = a /\ a \in Nat /\ a < 8388607 /\ 256 * a + (v % 256) = v
    BY <2>3, <2>4
  <2> HIDE DEF a
  <2> QED
    BY <2>4, <2>5 DEF Made
<1>3. CASE j = 1
  <2>1. Scale(j) = 256 /\ Scale(j + 1) = 65536
    BY <1>3 DEF Scale
  <2>2. v \div 65536 \in Nat /\ v \div 65536 < 8388607
        /\ 256 * (v \div 65536) + ((v \div 256) % 256) = v \div 256
    BY <1>1
  <2>3. v \div Scale(j + 1) = v \div 65536 /\ v \div Scale(j) = v \div 256
    BY <2>1
  <2> DEFINE a == v \div 65536
             b == v \div 256
  <2> HIDE DEF a, b
  <2>4. v \div Scale(j + 1) = a /\ v \div Scale(j) = b
    BY <2>3 DEF a, b
  <2>5. a \in Nat /\ a < 8388607 /\ 256 * a + (b % 256) = b
    BY <2>2 DEF a, b
  <2> QED
    BY <2>4, <2>5 DEF Made
<1>4. CASE j = 2
  <2>1. Scale(j) = 65536 /\ Scale(j + 1) = 16777216
    BY <1>4 DEF Scale
  <2>2. v \div 16777216 \in Nat /\ v \div 16777216 < 8388607
        /\ 256 * (v \div 16777216) + ((v \div 65536) % 256) = v \div 65536
    BY <1>1
  <2>3. v \div Scale(j + 1) = v \div 16777216 /\ v \div Scale(j) = v \div 65536
    BY <2>1
  <2> DEFINE a == v \div 16777216
             b == v \div 65536
  <2> HIDE DEF a, b
  <2>4. v \div Scale(j + 1) = a /\ v \div Scale(j) = b
    BY <2>3 DEF a, b
  <2>5. a \in Nat /\ a < 8388607 /\ 256 * a + (b % 256) = b
    BY <2>2 DEF a, b
  <2> QED
    BY <2>4, <2>5 DEF Made
<1> QED
  BY <1>2, <1>3, <1>4

\* Whether v fits so many bytes.
FitsWidth(v, width) ==
  /\ v \in Nat /\ v <= MostFixed
  /\ width \in Nat
  /\ width <= 3 => v < Scale(width)

\* A fixed-width number reads as what was written, up to MostFixed.
LEMMA BigReadsBack ==
  ASSUME NEW v, NEW width, FitsWidth(v, width)
  PROVE  FromBig(BigEndian(v, width)) = v
<1> DEFINE fixed == <<v, width>>
           bytes == BigEndian(v, width)
<1>1. v <= MostFixed /\ v \in Nat /\ v <= 2147483391 /\ width \in Nat /\ (width <= 3 => v < Scale(width))
  BY DEF FitsWidth, MostFixed
<1>2. bytes \in Seq(Int) /\ Len(bytes) = width /\ \A k \in 1 .. width : bytes[k] = ByteOf(v, width - k)
  <2>1. \A k \in 1 .. width : ByteOf(v, width - k) \in Int
    <3> SUFFICES ASSUME NEW k \in 1 .. width PROVE ByteOf(v, width - k) \in Int
      OBVIOUS
    <3>1. width - k \in Nat
      BY <1>1
    <3> DEFINE j == width - k
    <3> HIDE DEF j
    <3>2. ByteOf(v, j) \in Int
      <4>1. Scale(0) = 1 /\ Scale(1) = 256 /\ Scale(2) = 65536 /\ Scale(3) = 16777216
        BY DEF Scale
      <4>2. j \in Nat
        BY <3>1 DEF j
      <4>3. ByteOf(v, j) = IF j > 3 THEN 0 ELSE (v \div Scale(j)) % 256
        BY <1>1, <4>2, ByteOfIs
      <4>4. j > 3 \/ j = 0 \/ j = 1 \/ j = 2 \/ j = 3
        BY <4>2
      <4> QED
        BY <1>1, <4>1, <4>3, <4>4
    <3> QED
      BY <3>2 DEF j
  <2> DEFINE b(k) == ByteOf(v, width - k)
  <2>2. bytes = [k \in 1 .. width |-> b(k)]
    BY DEF BigEndian
  <2>3. \A k \in 1 .. width : b(k) \in Int
    BY <2>1
  <2> HIDE DEF b
  <2>4. [k \in 1 .. width |-> b(k)] \in Seq(Int) /\ Len([k \in 1 .. width |-> b(k)]) = width
        /\ \A k \in 1 .. width : [i \in 1 .. width |-> b(i)][k] = b(k)
    BY <1>1, <2>3
  <2>5. bytes \in Seq(Int) /\ Len(bytes) = width /\ \A k \in 1 .. width : bytes[k] = b(k)
    BY <2>2, <2>4
  <2> QED
    BY <2>5 DEF b
<1> HIDE DEF bytes
<1>3. BigSoFar(fixed, 0, 0)
  <2>1. ~ (width > 3) => 0 = v \div Scale(width)
    <3>1. CASE width = 0
      BY <1>1, <3>1 DEF Scale
    <3>2. CASE width = 1
      BY <1>1, <3>2 DEF Scale
    <3>3. CASE width = 2
      BY <1>1, <3>3 DEF Scale
    <3>4. CASE width = 3
      BY <1>1, <3>4 DEF Scale
    <3> QED
      BY <1>1, <3>1, <3>2, <3>3, <3>4
  <2> QED
    BY <1>1, <2>1 DEF BigSoFar
<1>4. ASSUME NEW k \in 0 .. (Len(bytes) - 1), NEW acc, BigSoFar(fixed, acc, k)
      PROVE  BigSoFar(fixed, BigMore(acc, bytes[k + 1]), k + 1)
  <2> DEFINE j == width - (k + 1)
  <2>1. k \in Nat /\ k + 1 \in 1 .. width /\ j \in Nat /\ width - k = j + 1
    BY <1>1, <1>2
  <2>2. bytes[k + 1] = IF j > 3 THEN 0 ELSE (v \div Scale(j)) % 256
    BY <1>1, <1>2, <2>1, ByteOfIs
  <2>3. acc = IF j + 1 > 3 THEN 0 ELSE v \div Scale(j + 1)
    BY <1>4, <2>1 DEF BigSoFar
  <2>4. BigMore(acc, bytes[k + 1]) = IF j > 3 THEN 0 ELSE v \div Scale(j)
    <3> HIDE DEF j
    <3>1. CASE j > 3
      BY <2>1, <2>2, <2>3, <3>1 DEF BigMore
    <3>2. CASE j = 3
      <4>1. Scale(3) = 16777216
        BY DEF Scale
      <4>2. (v \div 16777216) % 256 = v \div 16777216 /\ v \div 16777216 \in Nat
        BY <1>1
      <4>3. acc = 0 /\ bytes[k + 1] = v \div 16777216
        BY <2>1, <2>2, <2>3, <3>2, <4>1, <4>2
      <4> QED
        BY <3>2, <4>1, <4>2, <4>3 DEF BigMore
    <3>3. CASE j \in 0 .. 2
      <4> DEFINE high == v \div Scale(j + 1)
                 low  == (v \div Scale(j)) % 256
                 all  == v \div Scale(j)
      <4>1. Made(high, low, all)
        BY <1>1, <3>3, HighAndLow
      <4>2. acc = high /\ bytes[k + 1] = low
        BY <2>2, <2>3, <3>3
      <4>3. ~ (j > 3)
        BY <3>3
      <4> HIDE DEF high, low, all
      <4>4. BigMore(acc, bytes[k + 1]) = all
        BY <4>1, <4>2 DEF BigMore, Made
      <4> QED
        BY <4>3, <4>4 DEF all
    <3> QED
      BY <2>1, <3>1, <3>2, <3>3
  <2>5. fixed[1] = v /\ fixed[2] - (k + 1) = j
    OBVIOUS
  <2> HIDE DEF j, fixed
  <2> QED
    BY <2>4, <2>5 DEF BigSoFar
<1> HIDE DEF fixed
<1>5. BigSoFar(fixed, Bigs!Loop(0, bytes), Len(bytes))
  <2>1. \A acc, k : BigHolds(fixed, acc, k) <=> BigSoFar(fixed, acc, k)
    BY DEF BigHolds, fixed
  <2>2. BigHolds(fixed, Bigs!Loop(0, bytes), Len(bytes))
    BY <1>2, <1>3, <1>4, <2>1, Bigs!FoldKeeps
  <2> QED
    BY <2>1, <2>2
<1>6. FromBig(bytes) = v \div Scale(0)
  <2>1. fixed[1] = v /\ fixed[2] - Len(bytes) = 0
    BY <1>1, <1>2 DEF fixed
  <2> QED
    BY <1>2, <1>5, <2>1, FromBigIs DEF BigSoFar
<1>7. v \div 1 = v
  BY <1>1
<1> QED
  BY <1>6, <1>7 DEF Scale, bytes

\* The same, the lowest byte first.
LEMMA LittleReadsBack ==
  ASSUME NEW v, NEW width, FitsWidth(v, width)
  PROVE  FromLittle(LittleEndian(v, width)) = v
<1> DEFINE little == LittleEndian(v, width)
<1>1. v \in Nat /\ width \in Nat
  BY DEF FitsWidth
<1>2. Len(little) = width /\ \A k \in 1 .. width : little[k] = ByteOf(v, k - 1)
  <2>1. IsBytes(little, width)
    BY <1>1, LittleLength
  <2>2. little = [k \in 1 .. width |-> ByteOf(v, k - 1)]
    BY DEF LittleEndian
  <2> QED
    BY <2>1, <2>2 DEF IsBytes
<1> HIDE DEF little
<1>3. [k \in 1 .. Len(little) |-> little[Len(little) + 1 - k]] = BigEndian(v, width)
  <2>1. ASSUME NEW k \in 1 .. width PROVE little[width + 1 - k] = ByteOf(v, width - k)
    <3>1. width + 1 - k \in 1 .. width /\ (width + 1 - k) - 1 = width - k
      BY <1>1
    <3> QED
      BY <1>2, <3>1
  <2> QED
    BY <1>2, <2>1 DEF BigEndian
<1>4. FromLittle(little) = FromBig(BigEndian(v, width))
  BY <1>3 DEF FromLittle
<1> QED
  BY <1>4, BigReadsBack DEF little

\* Any bytes at all read as a number.
LEMMA FromBigRange ==
  ASSUME NEW bytes \in Seq(Byte)
  PROVE  IsNumber(FromBig(bytes))
<1>1. BigHolds(<<>>, 0, 0)
  BY DEF BigHolds, IsNumber, Huge
<1>2. ASSUME NEW k \in 0 .. (Len(bytes) - 1), NEW acc, BigHolds(<<>>, acc, k)
      PROVE  BigHolds(<<>>, BigMore(acc, bytes[k + 1]), k + 1)
  <2> DEFINE b == bytes[k + 1]
  <2>1. b \in Byte
    OBVIOUS
  <2> HIDE DEF b
  <2>2. b \in Nat /\ b <= 255
    BY <2>1 DEF Byte
  <2>3. acc \in Nat /\ acc <= 2147483647
    BY <1>2 DEF BigHolds, IsNumber, Huge
  <2>4. CASE acc >= 8388607
    BY <2>4 DEF BigMore, BigHolds, IsNumber, Huge, b
  <2>5. CASE ~ (acc >= 8388607)
    <3>1. acc < 8388607
      BY <2>3, <2>5
    <3>2. 256 * acc + b \in Nat /\ 256 * acc + b <= 2147483647
      BY <2>2, <2>3, <3>1
    <3>3. BigMore(acc, b) = 256 * acc + b
      BY <2>5 DEF BigMore
    <3> QED
      BY <3>2, <3>3 DEF BigHolds, IsNumber, Huge, b
  <2> QED
    BY <2>4, <2>5
<1>3. BigHolds(<<>>, Bigs!Loop(0, bytes), Len(bytes))
  BY <1>1, <1>2, Bigs!FoldKeeps
<1> QED
  BY <1>3, FromBigIs DEF BigHolds

\* The same, the lowest byte first.
LEMMA FromLittleRange ==
  ASSUME NEW bytes \in Seq(Byte)
  PROVE  IsNumber(FromLittle(bytes))
<1> DEFINE n == Len(bytes)
           reversed == [k \in 1 .. n |-> bytes[n + 1 - k]]
<1>1. n \in Nat /\ \A k \in 1 .. n : bytes[n + 1 - k] \in Byte
  <2>1. n \in Nat
    OBVIOUS
  <2>2. \A k \in 1 .. n : n + 1 - k \in 1 .. n
    BY <2>1
  <2> QED
    BY <2>1, <2>2
<1>2. reversed \in Seq(Byte)
  <2> HIDE DEF n
  <2> QED
    BY <1>1
<1> HIDE DEF reversed
<1>3. IsNumber(FromBig(reversed))
  BY <1>2, FromBigRange
<1> QED
  BY <1>3 DEF FromLittle, reversed

-----------------------------------------------------------------------------
\* ZigZag is undone, and never negative.
LEMMA ZigZagBack ==
  /\ \A v \in Int : ZigZag(v) \in Nat /\ FromZigZag(ZigZag(v)) = v
  /\ \A n \in Nat : FromZigZag(n) \in Int
<1>1. ASSUME NEW v \in Int PROVE ZigZag(v) \in Nat /\ FromZigZag(ZigZag(v)) = v
  <2>1. CASE v >= 0
    <3>1. ZigZag(v) = 2 * v /\ 2 * v \in Nat
      BY <2>1 DEF ZigZag
    <3>2. (2 * v) % 2 = 0 /\ (2 * v) \div 2 = v
      OBVIOUS
    <3> QED
      BY <3>1, <3>2 DEF FromZigZag
  <2>2. CASE ~ (v >= 0)
    <3> DEFINE n == (-2) * v - 1
    <3>1. ZigZag(v) = n
      BY <2>2 DEF ZigZag
    <3>2. n \in Nat /\ n % 2 = 1 /\ (n + 1) \div 2 = -v
      BY <2>2
    <3>3. -(-v) = v
      OBVIOUS
    <3> HIDE DEF n
    <3>4. FromZigZag(n) = -((n + 1) \div 2)
      BY <3>2 DEF FromZigZag
    <3> QED
      BY <3>1, <3>2, <3>3, <3>4
  <2> QED
    BY <2>1, <2>2
<1>2. ASSUME NEW n \in Nat PROVE FromZigZag(n) \in Int
  BY DEF FromZigZag
<1> QED
  BY <1>1, <1>2

-----------------------------------------------------------------------------
(* Varints.                                                                 *)

Deeper(f, r) == [v \in Nat |-> IF v < 128 THEN <<v>> ELSE <<(v % 128) + 128>> \o f[v \div 128]]
Depths == INSTANCE Folding WITH Op <- Deeper, Holds <- OfBytes

\* The recursive function Varint exists: it satisfies its own equation.
LEMMA VarintIs ==
  \A v \in Nat : Varint[v] = IF v < 128 THEN <<v>> ELSE <<(v % 128) + 128>> \o Varint[v \div 128]
<1> DEFINE base == [v \in Nat |-> <<v>>]
           Solves(f) == f = [v \in Nat |-> IF v < 128 THEN <<v>> ELSE <<(v % 128) + 128>> \o f[v \div 128]]
<1>1. PICK g : Depths!IsSeries(g, base)
  BY Depths!SeriesExists
<1>2. g[0] = base /\ \A r \in Nat : g[r + 1] = Deeper(g[r], r + 1)
  <2>1. \A r \in Nat : g[r] = IF r = 0 THEN base ELSE Deeper(g[r - 1], r)
    BY <1>1 DEF Depths!IsSeries
  <2>2. \A r \in Nat : r + 1 \in Nat /\ r + 1 # 0 /\ (r + 1) - 1 = r
    OBVIOUS
  <2> HIDE DEF base
  <2> QED
    BY <2>1, <2>2
<1>3. \A r \in Nat, v \in Nat : v < 128 => g[r][v] = <<v>>
  <2> SUFFICES ASSUME NEW r \in Nat, NEW v \in Nat, v < 128 PROVE g[r][v] = <<v>>
    OBVIOUS
  <2>1. CASE r = 0
    BY <1>2, <2>1
  <2>2. CASE r # 0
    <3>1. r - 1 \in Nat /\ (r - 1) + 1 = r
      BY <2>2
    <3>2. g[r] = Deeper(g[r - 1], r)
      BY <1>2, <3>1
    <3> QED
      BY <3>2 DEF Deeper
  <2> QED
    BY <2>1, <2>2
<1>4. \A r \in Nat, v \in Nat : v >= 128 => g[r + 1][v] = <<(v % 128) + 128>> \o g[r][v \div 128]
  <2> SUFFICES ASSUME NEW r \in Nat, NEW v \in Nat, v >= 128
               PROVE  g[r + 1][v] = <<(v % 128) + 128>> \o g[r][v \div 128]
    OBVIOUS
  <2>1. ~ (v < 128)
    OBVIOUS
  <2>2. g[r + 1] = Deeper(g[r], r + 1)
    BY <1>2
  <2> QED
    BY <2>1, <2>2 DEF Deeper
<1> DEFINE Bad == {v \in Nat : \E r \in Nat : r >= v /\ g[r][v] # g[v][v]}
<1>5. Bad = {}
  <2> SUFFICES ASSUME Bad # {} PROVE FALSE
    OBVIOUS
  <2>1. PICK v \in Bad : \A w \in Bad : v <= w
    <3>1. Bad \subseteq Nat
      OBVIOUS
    <3> HIDE DEF Bad
    <3> QED
      BY <3>1, Depths!LeastNatural
  <2>2. v \in Nat /\ v >= 128
    BY <1>3, <2>1
  <2>3. v \div 128 \in Nat /\ v \div 128 <= v - 1 /\ v \div 128 < v
    BY <2>2
  <2>4. v \div 128 \notin Bad
    <3>1. v \div 128 \in Bad => v <= v \div 128
      BY <2>1
    <3> QED
      BY <2>2, <2>3, <3>1
  <2>5. ASSUME NEW r \in Nat, r >= v PROVE g[r][v] = <<(v % 128) + 128>> \o g[v \div 128][v \div 128]
    <3>1. r - 1 \in Nat /\ (r - 1) + 1 = r /\ r - 1 >= v \div 128
      BY <2>2, <2>3, <2>5
    <3>2. g[r - 1][v \div 128] = g[v \div 128][v \div 128]
      BY <2>3, <2>4, <3>1
    <3>3. g[(r - 1) + 1][v] = <<(v % 128) + 128>> \o g[r - 1][v \div 128]
      BY <1>4, <2>2, <3>1
    <3> QED
      BY <3>1, <3>2, <3>3
  <2>6. v >= v
    BY <2>2
  <2>7. \A r \in Nat : r >= v => g[r][v] = g[v][v]
    BY <2>2, <2>5, <2>6
  <2> QED
    BY <2>1, <2>7
<1>6. \A r \in Nat, v \in Nat : r >= v => g[r][v] = g[v][v]
  BY <1>5
<1> HIDE DEF Bad
<1> DEFINE f == [v \in Nat |-> g[v][v]]
<1>7. ASSUME NEW v \in Nat PROVE f[v] = IF v < 128 THEN <<v>> ELSE <<(v % 128) + 128>> \o f[v \div 128]
  <2>1. f[v] = g[v][v]
    OBVIOUS
  <2>2. CASE v < 128
    BY <1>3, <2>1, <2>2
  <2>3. CASE ~ (v < 128)
    <3>1. v - 1 \in Nat /\ (v - 1) + 1 = v /\ v \div 128 \in Nat /\ v - 1 >= v \div 128 /\ v >= 128
      BY <2>3
    <3>2. g[(v - 1) + 1][v] = <<(v % 128) + 128>> \o g[v - 1][v \div 128]
      BY <1>4, <3>1
    <3>3. g[v - 1][v \div 128] = g[v \div 128][v \div 128]
      BY <1>6, <3>1
    <3>4. f[v \div 128] = g[v \div 128][v \div 128]
      BY <3>1
    <3> HIDE DEF f
    <3>5. f[v] = <<(v % 128) + 128>> \o f[v \div 128]
      BY <2>1, <3>1, <3>2, <3>3, <3>4
    <3> QED
      BY <2>3, <3>5
  <2> HIDE DEF f
  <2> QED
    BY <2>2, <2>3
<1>8. f = [v \in Nat |-> f[v]]
  OBVIOUS
<1> HIDE DEF f
<1>9. Solves(f)
  BY <1>7, <1>8
<1>10. Varint = CHOOSE h : Solves(h)
  BY DEF Varint
<1>11. Solves(Varint)
  <2> HIDE DEF Solves
  <2> QED
    BY <1>9, <1>10
<1> QED
  BY <1>11

\* Every byte but the last says that more follow.
IsVaried(s) ==
  /\ s \in Seq(Byte) /\ Len(s) >= 1 /\ s[Len(s)] < 128
  /\ \A i \in 1 .. (Len(s) - 1) : s[i] >= 128

\* One byte more, in front.
LEMMA VarintStep ==
  ASSUME NEW v \in Nat, v >= 128, IsVaried(Varint[v \div 128])
  PROVE  IsVaried(Varint[v]) /\ Len(Varint[v]) = 1 + Len(Varint[v \div 128])
<1> DEFINE b == (v % 128) + 128
           t == Varint[v \div 128]
           s == <<b>> \o t
           n == Len(t)
<1>1. Varint[v] = s
  <2>1. ~ (v < 128)
    OBVIOUS
  <2> QED
    BY <2>1, VarintIs
<1>2. b \in Byte /\ b >= 128
  BY DEF Byte
<1>3. t \in Seq(Byte) /\ n \in Nat /\ n >= 1 /\ t[n] < 128 /\ \A i \in 1 .. (n - 1) : t[i] >= 128
  BY DEF IsVaried
<1> HIDE DEF b, t
<1>4. s \in Seq(Byte) /\ Len(s) = 1 + Len(t) /\ s[1] = b /\ \A i \in 1 .. Len(t) : s[1 + i] = t[i]
  <2>1. <<b>> \in Seq(Byte) /\ Len(<<b>>) = 1
    BY <1>2
  <2>2. t \in Seq(Byte)
    BY <1>3
  <2> HIDE DEF n
  <2> QED
    BY <2>1, <2>2
<1>5. Len(s) = 1 + n
  BY <1>4
<1> HIDE DEF s, n
<1>6. s[1 + n] < 128
  <2>1. n \in 1 .. n
    BY <1>3
  <2> QED
    BY <1>3, <1>4, <2>1 DEF n
<1>7. ASSUME NEW i \in 1 .. (1 + n - 1) PROVE s[i] >= 128
  <2>1. CASE i = 1
    BY <1>2, <1>4, <2>1
  <2>2. CASE i # 1
    <3>1. i - 1 \in 1 .. (n - 1) /\ 1 + (i - 1) = i /\ i - 1 \in 1 .. n
      BY <1>3, <2>2
    <3>2. s[1 + (i - 1)] = t[i - 1]
      BY <1>4, <3>1 DEF n
    <3> QED
      BY <1>3, <3>1, <3>2
  <2> QED
    BY <2>1, <2>2
<1>8. Len(s) >= 1
  BY <1>3, <1>5
<1>9. IsVaried(s)
  BY <1>3, <1>4, <1>5, <1>6, <1>7, <1>8 DEF IsVaried
<1> QED
  BY <1>1, <1>5, <1>9 DEF n, t

\* The form every reader relies on: only the last byte says that it is the last.
LEMMA VarintShape == \A v \in Nat : IsVaried(Varint[v])
<1> DEFINE Bad == {v \in Nat : ~ IsVaried(Varint[v])}
<1> SUFFICES ASSUME Bad # {} PROVE FALSE
  OBVIOUS
<1>1. PICK v \in Bad : \A w \in Bad : v <= w
  <2>1. Bad \subseteq Nat
    OBVIOUS
  <2> HIDE DEF Bad
  <2> QED
    BY <2>1, Depths!LeastNatural
<1>2. v \in Nat /\ ~ IsVaried(Varint[v])
  OBVIOUS
<1>3. CASE v < 128
  <2>1. Varint[v] = <<v>>
    BY <1>2, <1>3, VarintIs
  <2>2. v \in Byte
    BY <1>2, <1>3 DEF Byte
  <2>3. <<v>> \in Seq(Byte) /\ Len(<<v>>) = 1 /\ <<v>>[1] = v
    BY <2>2
  <2>4. IsVaried(<<v>>)
    BY <1>3, <2>3 DEF IsVaried
  <2> QED
    BY <1>2, <2>1, <2>4
<1>4. CASE v >= 128
  <2>1. v \div 128 \in Nat /\ v \div 128 < v
    BY <1>2, <1>4
  <2>2. v \div 128 \notin Bad
    <3>1. v \div 128 \in Bad => v <= v \div 128
      BY <1>1
    <3> QED
      BY <1>2, <2>1, <3>1
  <2>3. IsVaried(Varint[v \div 128])
    BY <2>1, <2>2
  <2> QED
    BY <1>2, <1>4, <2>3, VarintStep
<1> QED
  BY <1>2, <1>3, <1>4

\* The limits the reader has: five bytes, and what five bytes may say.
LEMMA VarintLength ==
  ASSUME NEW v \in Nat, v <= MostVaried
  PROVE  Len(Varint[v]) <= 5
<1>1. \A w \in Nat : Len(Varint[w]) \in Nat
  BY VarintShape DEF IsVaried
<1>2. \A w \in Nat : w < 128 => Len(Varint[w]) = 1
  <2> SUFFICES ASSUME NEW w \in Nat, w < 128 PROVE Len(Varint[w]) = 1
    OBVIOUS
  <2>1. Varint[w] = <<w>>
    BY VarintIs
  <2> QED
    BY <2>1
<1>3. \A w \in Nat : w >= 128 => Len(Varint[w]) = 1 + Len(Varint[w \div 128])
  <2> SUFFICES ASSUME NEW w \in Nat, w >= 128 PROVE Len(Varint[w]) = 1 + Len(Varint[w \div 128])
    OBVIOUS
  <2>1. w \div 128 \in Nat
    OBVIOUS
  <2> QED
    BY <2>1, VarintShape, VarintStep
<1>4. \A w \in Nat : w < 128 * 128 => Len(Varint[w]) <= 2
  <2> SUFFICES ASSUME NEW w \in Nat, w < 128 * 128 PROVE Len(Varint[w]) <= 2
    OBVIOUS
  <2> SUFFICES ASSUME w >= 128 PROVE Len(Varint[w]) <= 2
    <3>1. CASE w >= 128
      BY <3>1
    <3>2. CASE w < 128
      <4>1. Len(Varint[w]) = 1
        BY <1>2, <3>2
      <4> QED
        BY <4>1
    <3> QED
      BY <3>1, <3>2
  <2>1. w \div 128 \in Nat /\ w \div 128 < 128
    OBVIOUS
  <2>2. Len(Varint[w \div 128]) = 1 /\ Len(Varint[w]) = 1 + Len(Varint[w \div 128])
    BY <1>2, <1>3, <2>1
  <2> QED
    BY <2>2
<1>5. \A w \in Nat : w < 16384 * 128 => Len(Varint[w]) <= 3
  <2> SUFFICES ASSUME NEW w \in Nat, w < 16384 * 128 PROVE Len(Varint[w]) <= 3
    OBVIOUS
  <2> SUFFICES ASSUME w >= 128 PROVE Len(Varint[w]) <= 3
    <3>1. CASE w >= 128
      BY <3>1
    <3>2. CASE w < 128
      <4>1. Len(Varint[w]) = 1
        BY <1>2, <3>2
      <4> QED
        BY <4>1
    <3> QED
      BY <3>1, <3>2
  <2>1. w \div 128 \in Nat /\ w \div 128 < 128 * 128
    OBVIOUS
  <2>2. Len(Varint[w \div 128]) <= 2 /\ Len(Varint[w]) = 1 + Len(Varint[w \div 128])
        /\ Len(Varint[w \div 128]) \in Nat
    BY <1>1, <1>3, <1>4, <2>1
  <2> QED
    BY <2>2
<1>6. \A w \in Nat : w < 2097152 * 128 => Len(Varint[w]) <= 4
  <2> SUFFICES ASSUME NEW w \in Nat, w < 2097152 * 128 PROVE Len(Varint[w]) <= 4
    OBVIOUS
  <2> SUFFICES ASSUME w >= 128 PROVE Len(Varint[w]) <= 4
    <3>1. CASE w >= 128
      BY <3>1
    <3>2. CASE w < 128
      <4>1. Len(Varint[w]) = 1
        BY <1>2, <3>2
      <4> QED
        BY <4>1
    <3> QED
      BY <3>1, <3>2
  <2>1. w \div 128 \in Nat /\ w \div 128 < 16384 * 128
    OBVIOUS
  <2>2. Len(Varint[w \div 128]) <= 3 /\ Len(Varint[w]) = 1 + Len(Varint[w \div 128])
        /\ Len(Varint[w \div 128]) \in Nat
    BY <1>1, <1>3, <1>5, <2>1
  <2> QED
    BY <2>2
<1>7. CASE v < 128
  <2>1. Len(Varint[v]) = 1
    BY <1>2, <1>7
  <2> QED
    BY <2>1
<1>8. CASE v >= 128
  <2>1. v \div 128 \in Nat /\ v \div 128 < 2097152 * 128
    BY DEF MostVaried
  <2>2. Len(Varint[v \div 128]) <= 4 /\ Len(Varint[v]) = 1 + Len(Varint[v \div 128])
        /\ Len(Varint[v \div 128]) \in Nat
    BY <1>1, <1>3, <1>6, <1>8, <2>1
  <2> QED
    BY <2>2
<1> QED
  BY <1>7, <1>8

-----------------------------------------------------------------------------
SevenMore(high, byte) == IF high >= 16777215 THEN Huge ELSE 128 * high + (byte % 128)
IsNumberSo(fixed, acc, k) == IsNumber(acc)
Backwards(s) == [k \in 1 .. Len(s) |-> s[Len(s) + 1 - k]]

Sevens == INSTANCE Folding WITH Op <- SevenMore, Holds <- IsNumberSo

\* Reversed bytes are bytes.
LEMMA BackwardsIn ==
  ASSUME NEW S, NEW s \in Seq(S)
  PROVE  Backwards(s) \in Seq(S) /\ Len(Backwards(s)) = Len(s)
<1> DEFINE n == Len(s)
<1>1. n \in Nat /\ \A k \in 1 .. n : s[n + 1 - k] \in S
  <2>1. n \in Nat
    OBVIOUS
  <2>2. \A k \in 1 .. n : n + 1 - k \in 1 .. n
    BY <2>1
  <2> QED
    BY <2>1, <2>2
<1>2. Backwards(s) = [k \in 1 .. n |-> s[n + 1 - k]]
  BY DEF Backwards
<1> HIDE DEF n
<1>3. Backwards(s) \in Seq(S) /\ Len(Backwards(s)) = n
  BY <1>1, <1>2
<1> QED
  BY <1>3 DEF n

\* Reading a varint is a loop over its bytes, from the last to the first.
LEMMA FromVarintIs ==
  ASSUME NEW S, NEW bytes \in Seq(S)
  PROVE  FromVarint(bytes) = Sevens!Loop(0, Backwards(bytes))
<1> DEFINE n == Len(bytes)
           back == Backwards(bytes)
           Plain(u) == u = [k \in 1 .. Len(bytes) + 1 |->
                            IF k > Len(bytes) THEN 0
                            ELSE IF u[k + 1] >= 16777215 THEN Huge ELSE 128 * u[k + 1] + (bytes[k] % 128)]
           Solves(u) == u = [k \in 1 .. n + 1 |-> IF k > n THEN 0 ELSE SevenMore(u[k + 1], bytes[k])]
<1>1. n \in Nat
  OBVIOUS
<1>2. FromVarint(bytes) = (CHOOSE u : Solves(u))[1]
  <2>1. FromVarint(bytes) = (CHOOSE u : Plain(u))[1]
    BY DEF FromVarint
  <2>2. \A u : Plain(u) <=> Solves(u)
    BY DEF SevenMore
  <2> HIDE DEF Plain, Solves
  <2>3. (CHOOSE u : Plain(u)) = (CHOOSE u : Solves(u))
    BY <2>2
  <2> QED
    BY <2>1, <2>3
<1>3. back \in Seq(S) /\ Len(back) = n /\ \A k \in 1 .. n : back[k] = bytes[n + 1 - k]
  BY BackwardsIn DEF Backwards
<1> HIDE DEF n, back
<1>4. \E u : Solves(u)
  <2>1. PICK f : Sevens!IsUpTo(f, 0, back)
    BY <1>3, Sevens!UpToExists
  <2>2. \A k \in 0 .. n : f[k] = IF k = 0 THEN 0 ELSE SevenMore(f[k - 1], back[k])
    BY <1>3, <2>1 DEF Sevens!IsUpTo
  <2> DEFINE u == [k \in 1 .. n + 1 |-> f[n + 1 - k]]
  <2>3. ASSUME NEW k \in 1 .. n + 1
        PROVE  u[k] = IF k > n THEN 0 ELSE SevenMore(u[k + 1], bytes[k])
    <3>1. CASE k > n
      <4>1. n + 1 - k = 0 /\ 0 \in 0 .. n
        BY <1>1, <3>1
      <4> QED
        BY <2>2, <3>1, <4>1
    <3>2. CASE ~ (k > n)
      <4>1. k \in 1 .. n /\ k + 1 \in 1 .. n + 1 /\ n + 1 - k \in 1 .. n /\ n + 1 - k \in 0 .. n
            /\ n + 1 - k # 0 /\ (n + 1 - k) - 1 = n + 1 - (k + 1) /\ n + 1 - (n + 1 - k) = k
        BY <1>1, <3>2
      <4>2. f[n + 1 - k] = SevenMore(f[(n + 1 - k) - 1], back[n + 1 - k])
        BY <2>2, <4>1
      <4>3. back[n + 1 - k] = bytes[k]
        BY <1>3, <4>1
      <4>4. u[k] = f[n + 1 - k] /\ u[k + 1] = f[n + 1 - (k + 1)]
        BY <4>1
      <4> QED
        BY <3>2, <4>1, <4>2, <4>3, <4>4
    <3> QED
      BY <3>1, <3>2
  <2>4. u = [k \in 1 .. n + 1 |-> u[k]]
    OBVIOUS
  <2> HIDE DEF u
  <2>5. Solves(u)
    BY <2>3, <2>4
  <2> QED
    BY <2>5
<1> DEFINE u == CHOOSE u : Solves(u)
<1>5. Solves(u)
  <2> HIDE DEF Solves
  <2> QED
    BY <1>4
<1> HIDE DEF u
<1> DEFINE f == [j \in 0 .. n |-> u[n + 1 - j]]
<1>6. ASSUME NEW j \in 0 .. n PROVE f[j] = IF j = 0 THEN 0 ELSE SevenMore(f[j - 1], back[j])
  <2>1. n + 1 - j \in 1 .. n + 1
    BY <1>1
  <2>2. u[n + 1 - j] = IF n + 1 - j > n THEN 0 ELSE SevenMore(u[(n + 1 - j) + 1], bytes[n + 1 - j])
    BY <1>5, <2>1
  <2>3. CASE j = 0
    <3>1. n + 1 - j > n
      BY <1>1, <2>3
    <3> QED
      BY <2>2, <2>3, <3>1
  <2>4. CASE j # 0
    <3>1. ~ (n + 1 - j > n) /\ j \in 1 .. n /\ j - 1 \in 0 .. n /\ n + 1 - (j - 1) = (n + 1 - j) + 1
      BY <1>1, <2>4
    <3>2. back[j] = bytes[n + 1 - j]
      BY <1>3, <3>1
    <3>3. f[j] = u[n + 1 - j] /\ f[j - 1] = u[n + 1 - (j - 1)]
      BY <3>1
    <3> QED
      BY <2>2, <2>4, <3>1, <3>2, <3>3
  <2> QED
    BY <2>3, <2>4
<1>7. f = [j \in 0 .. n |-> f[j]]
  OBVIOUS
<1>8. f[n] = u[1]
  BY <1>1
<1> HIDE DEF f
<1>9. Sevens!IsUpTo(f, 0, back)
  BY <1>3, <1>6, <1>7 DEF Sevens!IsUpTo
<1>10. f[n] = Sevens!Loop(0, back)
  BY <1>3, <1>9, Sevens!UpToIsLoop
<1> QED
  BY <1>2, <1>8, <1>10 DEF u, back

\* Any bytes at all read as a number, past the largest as Huge.
LEMMA FromVarintRange ==
  ASSUME NEW bytes \in Seq(Byte)
  PROVE  IsNumber(FromVarint(bytes))
<1> DEFINE back == Backwards(bytes)
<1>1. back \in Seq(Byte)
  BY BackwardsIn
<1> HIDE DEF back
<1>2. IsNumberSo(0, 0, 0)
  BY DEF IsNumberSo, IsNumber, Huge
<1>3. ASSUME NEW k \in 0 .. (Len(back) - 1), NEW acc, IsNumberSo(0, acc, k)
      PROVE  IsNumberSo(0, SevenMore(acc, back[k + 1]), k + 1)
  <2> DEFINE b == back[k + 1]
  <2>1. b \in Byte
    BY <1>1
  <2> HIDE DEF b
  <2>2. b \in Nat /\ b % 128 \in Nat /\ b % 128 <= 127
    BY <2>1 DEF Byte
  <2>3. acc \in Nat /\ acc <= 2147483647
    BY <1>3 DEF IsNumberSo, IsNumber, Huge
  <2>4. CASE acc >= 16777215
    BY <2>4 DEF SevenMore, IsNumberSo, IsNumber, Huge, b
  <2>5. CASE ~ (acc >= 16777215)
    <3> DEFINE c == b % 128
    <3>1. c \in Nat /\ c <= 127 /\ acc < 16777215
      BY <2>2, <2>3, <2>5
    <3>2. SevenMore(acc, b) = 128 * acc + c
      BY <2>5 DEF SevenMore
    <3> HIDE DEF c
    <3>3. 128 * acc + c \in Nat /\ 128 * acc + c <= 2147483647
      BY <2>3, <3>1
    <3> QED
      BY <3>2, <3>3 DEF IsNumberSo, IsNumber, Huge, b
  <2> QED
    BY <2>4, <2>5
<1>4. IsNumberSo(0, Sevens!Loop(0, back), Len(back))
  BY <1>1, <1>2, <1>3, Sevens!FoldKeeps
<1> QED
  BY <1>4, FromVarintIs DEF IsNumberSo, back

\* What the first byte adds.
LEMMA FromVarintFirst ==
  ASSUME NEW b \in Byte, NEW t \in Seq(Byte)
  PROVE  FromVarint(<<b>> \o t) = SevenMore(FromVarint(t), b)
<1> DEFINE s == <<b>> \o t
           n == Len(t)
           back == Backwards(s)
           front == SubSeq(back, 1, Len(back) - 1)
<1>1. n \in Nat
  OBVIOUS
<1>2. s \in Seq(Byte) /\ Len(s) = n + 1 /\ s[1] = b /\ \A i \in 1 .. n : s[1 + i] = t[i]
  <2>1. <<b>> \in Seq(Byte) /\ Len(<<b>>) = 1
    OBVIOUS
  <2> HIDE DEF Byte
  <2> QED
    BY <2>1
<1> HIDE DEF s
<1>3. /\ back \in Seq(Byte) /\ Len(back) = n + 1
      /\ \A k \in 1 .. (n + 1) : back[k] = s[(n + 1) + 1 - k]
  BY <1>2, BackwardsIn DEF Backwards
<1>4. /\ Backwards(t) \in Seq(Byte) /\ Len(Backwards(t)) = n
      /\ \A k \in 1 .. n : Backwards(t)[k] = t[n + 1 - k]
  BY BackwardsIn DEF Backwards
<1> HIDE DEF back, n
<1>5. front = Backwards(t)
  <2>1. front \in Seq(Byte) /\ Len(front) = n /\ \A k \in 1 .. n : front[k] = back[k]
    <3> DEFINE m == Len(back) - 1
    <3>1. m = n
      BY <1>1, <1>3
    <3>2. \A k \in 1 .. m : back[k] \in Byte
      BY <1>1, <1>3, <3>1
    <3>3. front = [k \in 1 .. m |-> back[k]]
      BY <1>1, <1>3, <3>1
    <3> HIDE DEF m, front
    <3>4. [k \in 1 .. m |-> back[k]] \in Seq(Byte) /\ Len([k \in 1 .. m |-> back[k]]) = m
      BY <1>1, <3>1, <3>2
    <3> QED
      BY <3>1, <3>3, <3>4
  <2>2. ASSUME NEW k \in 1 .. n PROVE front[k] = Backwards(t)[k]
    <3>1. k \in 1 .. (n + 1) /\ n + 1 - k \in 1 .. n /\ 1 + (n + 1 - k) = (n + 1) + 1 - k
      BY <1>1
    <3>2. back[k] = s[(n + 1) + 1 - k]
      BY <1>3, <3>1
    <3>3. s[1 + (n + 1 - k)] = t[n + 1 - k]
      BY <1>2, <3>1
    <3> HIDE DEF front
    <3> QED
      BY <1>4, <2>1, <3>1, <3>2, <3>3
  <2> HIDE DEF front
  <2> QED
    BY <1>1, <1>4, <2>1, <2>2
<1>6. back # <<>> /\ back[Len(back)] = b
  <2>1. n + 1 \in 1 .. (n + 1) /\ (n + 1) + 1 - (n + 1) = 1 /\ n + 1 # 0
    BY <1>1
  <2>2. back[n + 1] = s[(n + 1) + 1 - (n + 1)]
    BY <1>3, <2>1
  <2>3. back # <<>>
    BY <1>3, <2>1
  <2> QED
    BY <1>2, <1>3, <2>1, <2>2, <2>3
<1>7. Sevens!Loop(0, back) = SevenMore(Sevens!Loop(0, front), back[Len(back)])
  <2> HIDE DEF front
  <2> QED
    BY <1>3, <1>6, Sevens!FoldLast DEF front
<1>8. FromVarint(s) = Sevens!Loop(0, back)
  BY <1>2, FromVarintIs DEF back
<1>9. FromVarint(t) = Sevens!Loop(0, Backwards(t))
  BY FromVarintIs
<1> QED
  BY <1>5, <1>6, <1>7, <1>8, <1>9 DEF s

\* Of no bytes nothing.
LEMMA FromVarintEmpty == FromVarint(<<>>) = 0
<1>1. <<>> \in Seq({}) /\ Len(<<>>) = 0
  OBVIOUS
<1>2. Backwards(<<>>) = <<>>
  <2>1. Backwards(<<>>) \in Seq({}) /\ Len(Backwards(<<>>)) = 0
    BY <1>1, BackwardsIn
  <2> QED
    BY <2>1
<1>3. Sevens!Loop(0, <<>>) = 0
  BY Sevens!FoldEmpty
<1> QED
  BY <1>1, <1>2, <1>3, FromVarintIs

\* What is written as a varint reads as what it was.
LEMMA VarintReadsBack ==
  \A v \in Nat : v <= MostVaried => FromVarint(Varint[v]) = v
<1> DEFINE Bad == {v \in Nat : v <= MostVaried /\ FromVarint(Varint[v]) # v}
<1> SUFFICES ASSUME Bad # {} PROVE FALSE
  OBVIOUS
<1>1. PICK v \in Bad : \A w \in Bad : v <= w
  <2>1. Bad \subseteq Nat
    OBVIOUS
  <2> HIDE DEF Bad
  <2> QED
    BY <2>1, Depths!LeastNatural
<1>2. v \in Nat /\ v <= MostVaried /\ FromVarint(Varint[v]) # v
  OBVIOUS
<1>3. CASE v < 128
  <2>1. Varint[v] = <<v>>
    BY <1>2, <1>3, VarintIs
  <2>2. v \in Byte /\ <<>> \in Seq(Byte) /\ <<v>> \o <<>> = <<v>>
    BY <1>2, <1>3 DEF Byte
  <2>3. FromVarint(<<v>> \o <<>>) = SevenMore(FromVarint(<<>>), v)
    BY <2>2, FromVarintFirst
  <2>4. SevenMore(0, v) = v
    <3>1. v % 128 = v
      BY <1>2, <1>3
    <3> QED
      BY <1>2, <3>1 DEF SevenMore
  <2> QED
    BY <1>2, <2>1, <2>2, <2>3, <2>4, FromVarintEmpty
<1>4. CASE ~ (v < 128)
  <2> DEFINE w == v \div 128
             b == (v % 128) + 128
  <2>1. v <= 2147483519 /\ v >= 128 /\ v \in Nat
    BY <1>2, <1>4 DEF MostVaried
  <2>2. w \in Nat /\ w < v /\ w <= 2147483519 /\ w < 16777215 /\ b \in Nat /\ b <= 255
        /\ b % 128 = v % 128 /\ 128 * w + (v % 128) = v
    BY <2>1
  <2>3. Varint[v] = <<b>> \o Varint[w]
    BY <1>2, <1>4, VarintIs
  <2> HIDE DEF w, b
  <2>4. w \notin Bad
    <3>1. w \in Bad => v <= w
      BY <1>1
    <3> QED
      BY <2>1, <2>2, <3>1
  <2>5. FromVarint(Varint[w]) = w
    BY <2>2, <2>4 DEF MostVaried
  <2>6. b \in Byte /\ Varint[w] \in Seq(Byte)
    BY <2>2, VarintShape DEF IsVaried, Byte
  <2>7. FromVarint(<<b>> \o Varint[w]) = SevenMore(w, b)
    BY <2>5, <2>6, FromVarintFirst
  <2>8. SevenMore(w, b) = 128 * w + (b % 128)
    <3>1. ~ (w >= 16777215)
      BY <2>2
    <3> QED
      BY <3>1 DEF SevenMore
  <2>9. SevenMore(w, b) = v
    BY <2>2, <2>8
  <2> QED
    BY <1>2, <2>3, <2>7, <2>9
<1> QED
  BY <1>3, <1>4

\* A reader finds the last byte of the varint that stands there, and its value.
LEMMA TakeVarintAt ==
  ASSUME NEW buf \in Seq(Byte), NEW at, NEW v \in Nat, v <= MostVaried, At(buf, at, Varint[v]),
         NEW most \in Nat, most >= 5
  PROVE  TakeVarint(buf, at, most) = Got(v, at + Len(Varint[v]))
<1> DEFINE s == Varint[v]
           n == Len(s)
           l == Len(buf)
           ends == {k \in 1 .. most : at + k - 1 <= l /\ buf[at + k - 1] < 128}
           first == CHOOSE k \in ends : \A j \in ends : k <= j
<1>1. s \in Seq(Byte) /\ n \in Nat /\ n >= 1 /\ n <= 5 /\ s[n] < 128
      /\ \A i \in 1 .. (n - 1) : s[i] >= 128 /\ s[i] \in Nat
  <2>1. IsVaried(s)
    BY VarintShape
  <2>2. s \in Seq(Byte) /\ \A i \in 1 .. (n - 1) : s[i] \in Nat
    <3>1. s \in Seq(Byte)
      BY <2>1 DEF IsVaried
    <3> HIDE DEF s
    <3>2. \A i \in 1 .. n : s[i] \in Byte
      BY <3>1
    <3>3. \A i \in 1 .. (n - 1) : i \in 1 .. n
      BY <3>1
    <3>4. Byte \subseteq Nat
      BY DEF Byte
    <3> HIDE DEF n
    <3> QED
      BY <3>1, <3>2, <3>3, <3>4
  <2> QED
    BY <2>1, <2>2, VarintLength DEF IsVaried
<1>2. at \in Nat \ {0} /\ at + n - 1 <= l /\ (\A i \in 1 .. n : buf[at + i - 1] = s[i]) /\ l \in Nat
  BY DEF At
<1>3. TakeVarint(buf, at, most) =
        IF ends = {} THEN Failed ELSE Got(FromVarint(SubSeq(buf, at, at + first - 1)), at + first)
  BY DEF TakeVarint
<1> HIDE DEF s, n, l
<1>4. n \in ends
  <2>1. n \in 1 .. n /\ n \in 1 .. most
    BY <1>1
  <2> QED
    BY <1>1, <1>2, <2>1
<1>5. \A j \in ends : n <= j
  <2> SUFFICES ASSUME NEW j \in ends, ~ (n <= j) PROVE FALSE
    OBVIOUS
  <2>1. j \in 1 .. (n - 1) /\ j \in 1 .. n /\ buf[at + j - 1] < 128
    BY <1>1
  <2>2. buf[at + j - 1] = s[j]
    BY <1>2, <2>1
  <2>3. s[j] >= 128 /\ s[j] \in Nat
    BY <1>1, <2>1
  <2> QED
    BY <2>1, <2>2, <2>3
<1>6. \A k \in ends : k \in Nat
  OBVIOUS
<1>7. first = n
  <2>1. \A k \in ends : (\A j \in ends : k <= j) => k = n
    <3> SUFFICES ASSUME NEW k \in ends, \A j \in ends : k <= j PROVE k = n
      OBVIOUS
    <3>1. k <= n /\ n <= k /\ k \in Nat
      BY <1>4, <1>5, <1>6
    <3> QED
      BY <1>1, <3>1
  <2> HIDE DEF ends
  <2> QED
    BY <1>4, <1>5, <2>1
<1> HIDE DEF ends, first
<1>8. SubSeq(buf, at, at + n - 1) = s
  <2>1. TakeBytes(buf, at, n) = Got(s, at + n)
    BY <1>1, TakeAt DEF n, s
  <2>2. TakeBytes(buf, at, n) = IF n > l - at + 1 THEN Failed ELSE Got(SubSeq(buf, at, at + n - 1), at + n)
    BY DEF TakeBytes, l
  <2>3. ~ (n > l - at + 1)
    BY <1>1, <1>2
  <2>4. Got(SubSeq(buf, at, at + n - 1), at + n) = Got(s, at + n)
    BY <2>1, <2>2, <2>3
  <2> QED
    BY <2>4 DEF Got
<1>9. FromVarint(s) = v
  BY VarintReadsBack DEF s
<1> QED
  BY <1>3, <1>4, <1>7, <1>8, <1>9 DEF s, n

\* What a varint reads as, whatever stands there, and that it moves on.
LEMMA TakeVarintMoves ==
  ASSUME NEW buf \in Seq(Byte), NEW at \in Nat \ {0}, NEW most \in Nat, TakeVarint(buf, at, most).ok
  PROVE  /\ IsNumber(TakeVarint(buf, at, most).value)
         /\ TakeVarint(buf, at, most).next \in Nat
         /\ TakeVarint(buf, at, most).next > at
         /\ TakeVarint(buf, at, most).next <= Len(buf) + 1
<1> DEFINE l == Len(buf)
           ends == {k \in 1 .. most : at + k - 1 <= l /\ buf[at + k - 1] < 128}
           first == CHOOSE k \in ends : \A j \in ends : k <= j
           got == TakeVarint(buf, at, most)
<1>1. got = IF ends = {} THEN Failed ELSE Got(FromVarint(SubSeq(buf, at, at + first - 1)), at + first)
  BY DEF TakeVarint
<1>2. l \in Nat /\ ends \subseteq Nat
  OBVIOUS
<1>3. ends # {}
  <2> HIDE DEF ends
  <2> QED
    BY <1>1 DEF Failed
<1>4. first \in ends
  <2> HIDE DEF ends
  <2>1. \E k \in ends : \A j \in ends : k <= j
    BY <1>2, <1>3, Depths!LeastNatural
  <2> QED
    BY <2>1
<1>5. first \in Nat /\ first >= 1 /\ at + first - 1 <= l
  <2> HIDE DEF first
  <2> QED
    BY <1>4
<1> HIDE DEF first
<1>6. SubSeq(buf, at, at + first - 1) \in Seq(Byte)
  <2> HIDE DEF l
  <2>1. \A i \in at .. (at + first - 1) : i \in 1 .. l
    BY <1>2, <1>5
  <2>2. \A i \in at .. (at + first - 1) : buf[i] \in Byte
    BY <2>1 DEF l
  <2> QED
    BY <1>5, <2>2
<1>7. IsNumber(FromVarint(SubSeq(buf, at, at + first - 1)))
  BY <1>6, FromVarintRange
<1>8. got = Got(FromVarint(SubSeq(buf, at, at + first - 1)), at + first)
  <2> HIDE DEF ends
  <2> QED
    BY <1>1, <1>3
<1>9. got.value = FromVarint(SubSeq(buf, at, at + first - 1)) /\ got.next = at + first
  <2> HIDE DEF got
  <2> QED
    BY <1>8 DEF Got
<1> HIDE DEF got, l
<1>10. got.next \in Nat /\ got.next > at /\ got.next <= l + 1
  BY <1>2, <1>5, <1>9
<1> QED
  BY <1>7, <1>9, <1>10 DEF got, l

-----------------------------------------------------------------------------
(* Fields.                                                                  *)

\* PutField, kind by kind.
LEMMA PutIs ==
  ASSUME NEW kind, NEW v
  PROVE  /\ kind.of = "big" => PutField(kind, v) = BigEndian(v, kind.width)
         /\ kind.of = "little" => PutField(kind, v) = LittleEndian(v, kind.width)
         /\ kind.of = "varint" => PutField(kind, v) = Varint[v]
         /\ kind.of = "zigzag" => PutField(kind, v) = Varint[ZigZag(v)]
         /\ kind.of = "literal" => PutField(kind, v) = kind.bytes
         /\ kind.of = "raw" => PutField(kind, v) = v
         /\ kind.of = "prefixed" => PutField(kind, v) = Varint[Len(v)] \o v
         /\ kind.of = "counted" => PutField(kind, v) = BigEndian(Len(v), kind.width) \o v
         /\ kind.of = "section" => PutField(kind, v) = LittleEndian(Len(v), 4) \o v
         /\ kind.of = "option" =>
              PutField(kind, v) = IF v = <<>> THEN <<0>> ELSE <<1>> \o BigEndian(v[1], kind.width)
         /\ kind.of = "float" => PutField(kind, v) = LittleEndian(ZigZag(v), 4)
<1>1. kind.of = "big" => PutField(kind, v) = BigEndian(v, kind.width)
  BY DEF PutField
<1>2. kind.of = "little" => PutField(kind, v) = LittleEndian(v, kind.width)
  BY DEF PutField
<1>3. kind.of = "varint" => PutField(kind, v) = Varint[v]
  BY DEF PutField
<1>4. kind.of = "zigzag" => PutField(kind, v) = Varint[ZigZag(v)]
  BY DEF PutField
<1>5. kind.of = "literal" => PutField(kind, v) = kind.bytes
  BY DEF PutField
<1>6. kind.of = "raw" => PutField(kind, v) = v
  BY DEF PutField
<1>7. kind.of = "prefixed" => PutField(kind, v) = Varint[Len(v)] \o v
  BY DEF PutField
<1>8. kind.of = "counted" => PutField(kind, v) = BigEndian(Len(v), kind.width) \o v
  BY DEF PutField
<1>9. kind.of = "section" => PutField(kind, v) = LittleEndian(Len(v), 4) \o v
  BY DEF PutField
<1>10. kind.of = "option" =>
         PutField(kind, v) = IF v = <<>> THEN <<0>> ELSE <<1>> \o BigEndian(v[1], kind.width)
  BY DEF PutField
<1>11. kind.of = "float" => PutField(kind, v) = LittleEndian(ZigZag(v), 4)
  BY DEF PutField
<1> QED
  BY <1>1, <1>2, <1>3, <1>4, <1>5, <1>6, <1>7, <1>8, <1>9, <1>10, <1>11

FromBigGot(got) == IF got.ok THEN Got(FromBig(got.value), got.next) ELSE Failed
FromLittleGot(got) == IF got.ok THEN Got(FromLittle(got.value), got.next) ELSE Failed
FromZigZagGot(got) == IF got.ok THEN Got(FromZigZag(got.value), got.next) ELSE Failed

\* TakeField, kind by kind.
LEMMA TakeIs ==
  ASSUME NEW kind, NEW buf, NEW at
  PROVE  /\ kind.of = "big" => TakeField(kind, buf, at) = FromBigGot(TakeBytes(buf, at, kind.width))
         /\ kind.of = "little" =>
              TakeField(kind, buf, at) = FromLittleGot(TakeBytes(buf, at, kind.width))
         /\ kind.of = "varint" => TakeField(kind, buf, at) = TakeVarint(buf, at, kind.most)
         /\ kind.of = "zigzag" =>
              TakeField(kind, buf, at) = FromZigZagGot(TakeVarint(buf, at, kind.most))
         /\ kind.of = "literal" =>
              TakeField(kind, buf, at) = IF TakeBytes(buf, at, Len(kind.bytes)).value = kind.bytes
                                           THEN TakeBytes(buf, at, Len(kind.bytes)) ELSE Failed
         /\ kind.of = "raw" => TakeField(kind, buf, at) = TakeBytes(buf, at, kind.width)
         /\ kind.of = "prefixed" =>
              TakeField(kind, buf, at) = TakeCounted(buf, TakeVarint(buf, at, 5), Huge)
         /\ kind.of = "counted" =>
              TakeField(kind, buf, at) = TakeCounted(buf, FromBigGot(TakeBytes(buf, at, kind.width)), Huge)
         /\ kind.of = "section" =>
              TakeField(kind, buf, at) = TakeCounted(buf, FromLittleGot(TakeBytes(buf, at, 4)), kind.limit)
         /\ kind.of = "option" => TakeField(kind, buf, at) = TakeOption(buf, at, kind.width)
         /\ kind.of = "float" =>
              TakeField(kind, buf, at) = FromZigZagGot(FromLittleGot(TakeBytes(buf, at, 4)))
<1>1. kind.of = "big" => TakeField(kind, buf, at) = FromBigGot(TakeBytes(buf, at, kind.width))
  BY DEF TakeField, Then, FromBigGot
<1>2. kind.of = "little" => TakeField(kind, buf, at) = FromLittleGot(TakeBytes(buf, at, kind.width))
  BY DEF TakeField, Then, FromLittleGot
<1>3. kind.of = "varint" => TakeField(kind, buf, at) = TakeVarint(buf, at, kind.most)
  BY DEF TakeField
<1>4. kind.of = "zigzag" => TakeField(kind, buf, at) = FromZigZagGot(TakeVarint(buf, at, kind.most))
  BY DEF TakeField, Then, FromZigZagGot
<1>5. kind.of = "literal" =>
        TakeField(kind, buf, at) = IF TakeBytes(buf, at, Len(kind.bytes)).value = kind.bytes
                                     THEN TakeBytes(buf, at, Len(kind.bytes)) ELSE Failed
  BY DEF TakeField
<1>6. kind.of = "raw" => TakeField(kind, buf, at) = TakeBytes(buf, at, kind.width)
  BY DEF TakeField
<1>7. kind.of = "prefixed" => TakeField(kind, buf, at) = TakeCounted(buf, TakeVarint(buf, at, 5), Huge)
  BY DEF TakeField
<1>8. kind.of = "counted" =>
        TakeField(kind, buf, at) = TakeCounted(buf, FromBigGot(TakeBytes(buf, at, kind.width)), Huge)
  BY DEF TakeField, Then, FromBigGot
<1>9. kind.of = "section" =>
        TakeField(kind, buf, at) = TakeCounted(buf, FromLittleGot(TakeBytes(buf, at, 4)), kind.limit)
  BY DEF TakeField, Then, FromLittleGot
<1>10. kind.of = "option" => TakeField(kind, buf, at) = TakeOption(buf, at, kind.width)
  BY DEF TakeField
<1>11. kind.of = "float" => TakeField(kind, buf, at) = FromZigZagGot(FromLittleGot(TakeBytes(buf, at, 4)))
  BY DEF TakeField, Then, FromLittleGot, FromZigZagGot
<1> QED
  BY <1>1, <1>2, <1>3, <1>4, <1>5, <1>6, <1>7, <1>8, <1>9, <1>10, <1>11

\* What a varint can say.
FitsVarint(v, most) == v \in Nat /\ v <= MostVaried /\ most \in Nat /\ most >= 5

\* Whether v can stand in a field of that kind and be read again. What is read
\* to the end of the packet, and addresses, are left out.
FitsField(kind, v) ==
  \/ kind.of \in {"big", "little"} /\ FitsWidth(v, kind.width)
  \/ kind.of = "varint" /\ FitsVarint(v, kind.most)
  \/ kind.of = "zigzag" /\ v \in Int /\ FitsVarint(ZigZag(v), kind.most)
  \/ kind.of = "float" /\ v \in Int /\ FitsWidth(ZigZag(v), 4)
  \/ kind.of = "literal" /\ kind.bytes \in Seq(Byte)
  \/ kind.of = "raw" /\ v \in Seq(Byte) /\ kind.width = Len(v)
  \/ kind.of = "prefixed" /\ v \in Seq(Byte) /\ Len(v) <= MostVaried
  \/ kind.of = "counted" /\ v \in Seq(Byte) /\ FitsWidth(Len(v), kind.width)
  \/ kind.of = "section" /\ v \in Seq(Byte) /\ FitsWidth(Len(v), 4)
       /\ kind.limit \in Int /\ Len(v) <= kind.limit
  \/ kind.of = "option" /\ kind.width \in Nat
       /\ (v = <<>> \/ \E w : v = <<w>> /\ FitsWidth(w, kind.width))

\* got is v, and what was read ends with the bytes put.
IsRead(got, v, next) == got.ok /\ got.value = v /\ got.next = next

\* A read that succeeded.
LEMMA GotIsRead == \A v, next : IsRead(Got(v, next), v, next)
  BY DEF IsRead, Got

\* A number that stands there is read.
LEMMA BigAt ==
  ASSUME NEW buf \in Seq(Byte), NEW at, NEW v, NEW width, FitsWidth(v, width),
         At(buf, at, BigEndian(v, width))
  PROVE  /\ BigEndian(v, width) \in Seq(Byte) /\ Len(BigEndian(v, width)) = width
         /\ FromBigGot(TakeBytes(buf, at, width)) = Got(v, at + width)
<1>1. v \in Nat /\ width \in Nat
  BY DEF FitsWidth
<1>2. BigEndian(v, width) \in Seq(Byte) /\ Len(BigEndian(v, width)) = width
  BY <1>1, BigLength DEF IsBytes
<1>3. TakeBytes(buf, at, width) = Got(BigEndian(v, width), at + width)
  BY <1>2, TakeAt
<1>4. FromBig(BigEndian(v, width)) = v
  BY BigReadsBack
<1> QED
  BY <1>2, <1>3, <1>4 DEF FromBigGot, Got

\* The same, the lowest byte first.
LEMMA LittleAt ==
  ASSUME NEW buf \in Seq(Byte), NEW at, NEW v, NEW width, FitsWidth(v, width),
         At(buf, at, LittleEndian(v, width))
  PROVE  /\ LittleEndian(v, width) \in Seq(Byte) /\ Len(LittleEndian(v, width)) = width
         /\ FromLittleGot(TakeBytes(buf, at, width)) = Got(v, at + width)
<1>1. v \in Nat /\ width \in Nat
  BY DEF FitsWidth
<1>2. LittleEndian(v, width) \in Seq(Byte) /\ Len(LittleEndian(v, width)) = width
  BY <1>1, LittleLength DEF IsBytes
<1>3. TakeBytes(buf, at, width) = Got(LittleEndian(v, width), at + width)
  BY <1>2, TakeAt
<1>4. FromLittle(LittleEndian(v, width)) = v
  BY LittleReadsBack
<1> QED
  BY <1>2, <1>3, <1>4 DEF FromLittleGot, Got

\* A length that was read, and the bytes behind it.
LEMMA CountedAt ==
  ASSUME NEW buf \in Seq(Byte), NEW at, NEW v \in Seq(Byte), NEW limit \in Int, Len(v) <= limit,
         NEW head \in Seq(Byte), NEW length, length = Got(Len(v), at + Len(head)),
         At(buf, at, head \o v)
  PROVE  TakeCounted(buf, length, limit) = Got(v, at + Len(head \o v))
<1>1. At(buf, at + Len(head), v)
  BY AtJoined
<1>2. TakeBytes(buf, at + Len(head), Len(v)) = Got(v, (at + Len(head)) + Len(v))
  BY <1>1, TakeAt
<1>3. length.ok /\ length.value = Len(v) /\ length.next = at + Len(head)
  BY DEF Got
<1>4. TakeCounted(buf, length, limit) = TakeBytes(buf, at + Len(head), Len(v))
  <2>1. ~ (~ length.ok \/ length.value > limit)
    <3> DEFINE n == Len(v)
    <3>1. n \in Nat
      OBVIOUS
    <3> HIDE DEF n
    <3>2. n <= limit /\ ~ (n > limit)
      BY <3>1 DEF n
    <3> QED
      BY <1>3, <3>2 DEF n
  <2> QED
    BY <1>3, <2>1 DEF TakeCounted
<1>5. (at + Len(head)) + Len(v) = at + Len(head \o v)
  <2>1. Len(head \o v) = Len(head) + Len(v) /\ Len(head) \in Nat /\ Len(v) \in Nat /\ at \in Nat
    BY DEF At
  <2> QED
    BY <2>1
<1> QED
  BY <1>2, <1>4, <1>5

\* A field reads back what was put in it, and the reader stands behind it.
FieldReads(kind, v, buf, at) ==
  /\ PutField(kind, v) \in Seq(Byte)
  /\ At(buf, at, PutField(kind, v)) =>
       IsRead(TakeField(kind, buf, at), IF kind.of = "literal" THEN kind.bytes ELSE v,
              at + Len(PutField(kind, v)))

\* Fields of fixed width.
LEMMA NumberReadsBack ==
  ASSUME NEW kind, NEW v, NEW buf \in Seq(Byte), NEW at, FitsField(kind, v),
         kind.of \in {"big", "little"}
  PROVE  FieldReads(kind, v, buf, at)
<1>1. FitsWidth(v, kind.width) /\ v \in Nat /\ kind.width \in Nat
  BY DEF FitsField, FitsWidth
<1>2. CASE kind.of = "big"
  <2>1. PutField(kind, v) = BigEndian(v, kind.width)
        /\ TakeField(kind, buf, at) = FromBigGot(TakeBytes(buf, at, kind.width))
    BY <1>2, PutIs, TakeIs
  <2>2. IsBytes(BigEndian(v, kind.width), kind.width)
    BY <1>1, BigLength
  <2>3. At(buf, at, BigEndian(v, kind.width)) =>
          FromBigGot(TakeBytes(buf, at, kind.width)) = Got(v, at + kind.width)
    BY <1>1, BigAt
  <2> QED
    BY <1>2, <2>1, <2>2, <2>3, GotIsRead DEF FieldReads, IsBytes
<1>3. CASE kind.of = "little"
  <2>1. PutField(kind, v) = LittleEndian(v, kind.width)
        /\ TakeField(kind, buf, at) = FromLittleGot(TakeBytes(buf, at, kind.width))
    BY <1>3, PutIs, TakeIs
  <2>2. IsBytes(LittleEndian(v, kind.width), kind.width)
    BY <1>1, LittleLength
  <2>3. At(buf, at, LittleEndian(v, kind.width)) =>
          FromLittleGot(TakeBytes(buf, at, kind.width)) = Got(v, at + kind.width)
    BY <1>1, LittleAt
  <2> QED
    BY <1>3, <2>1, <2>2, <2>3, GotIsRead DEF FieldReads, IsBytes
<1> QED
  BY <1>2, <1>3

\* Varints, and those of small negatives.
LEMMA VariedReadsBack ==
  ASSUME NEW kind, NEW v, NEW buf \in Seq(Byte), NEW at, FitsField(kind, v),
         kind.of \in {"varint", "zigzag"}
  PROVE  FieldReads(kind, v, buf, at)
<1>1. CASE kind.of = "varint"
  <2>1. PutField(kind, v) = Varint[v] /\ TakeField(kind, buf, at) = TakeVarint(buf, at, kind.most)
    BY <1>1, PutIs, TakeIs
  <2>2. v \in Nat /\ v <= MostVaried /\ kind.most \in Nat /\ kind.most >= 5
    BY <1>1 DEF FitsField, FitsVarint
  <2>3. Varint[v] \in Seq(Byte)
    BY <2>2, VarintShape DEF IsVaried
  <2>4. At(buf, at, Varint[v]) => TakeVarint(buf, at, kind.most) = Got(v, at + Len(Varint[v]))
    BY <2>2, TakeVarintAt
  <2> QED
    BY <1>1, <2>1, <2>3, <2>4, GotIsRead DEF FieldReads
<1>2. CASE kind.of = "zigzag"
  <2> DEFINE z == ZigZag(v)
  <2>1. PutField(kind, v) = Varint[z] /\ TakeField(kind, buf, at) = FromZigZagGot(TakeVarint(buf, at, kind.most))
    BY <1>2, PutIs, TakeIs
  <2>2. v \in Int /\ z \in Nat /\ z <= MostVaried /\ kind.most \in Nat /\ kind.most >= 5
        /\ FromZigZag(z) = v
    BY <1>2, ZigZagBack DEF FitsField, FitsVarint
  <2> HIDE DEF z
  <2>3. Varint[z] \in Seq(Byte)
    BY <2>2, VarintShape DEF IsVaried
  <2>4. At(buf, at, Varint[z]) => TakeVarint(buf, at, kind.most) = Got(z, at + Len(Varint[z]))
    BY <2>2, TakeVarintAt
  <2>5. FromZigZagGot(Got(z, at + Len(Varint[z]))) = Got(v, at + Len(Varint[z]))
    BY <2>2 DEF FromZigZagGot, Got
  <2> QED
    BY <1>2, <2>1, <2>3, <2>4, <2>5, GotIsRead DEF FieldReads
<1> QED
  BY <1>1, <1>2

\* Floats.
LEMMA FloatReadsBack ==
  ASSUME NEW kind, NEW v, NEW buf \in Seq(Byte), NEW at, FitsField(kind, v), kind.of = "float"
  PROVE  FieldReads(kind, v, buf, at)
<1> DEFINE z == ZigZag(v)
<1>1. PutField(kind, v) = LittleEndian(z, 4)
      /\ TakeField(kind, buf, at) = FromZigZagGot(FromLittleGot(TakeBytes(buf, at, 4)))
  BY PutIs, TakeIs
<1>2. v \in Int /\ FitsWidth(z, 4) /\ FromZigZag(z) = v /\ z \in Nat
  BY ZigZagBack DEF FitsField
<1> HIDE DEF z
<1>3. IsBytes(LittleEndian(z, 4), 4)
  BY <1>2, LittleLength
<1>4. At(buf, at, LittleEndian(z, 4)) => FromLittleGot(TakeBytes(buf, at, 4)) = Got(z, at + 4)
  BY <1>2, LittleAt
<1>5. FromZigZagGot(Got(z, at + 4)) = Got(v, at + 4)
  BY <1>2 DEF FromZigZagGot, Got
<1> QED
  BY <1>1, <1>3, <1>4, <1>5, GotIsRead DEF FieldReads, IsBytes

\* Literals and bytes of a known length.
LEMMA BytesReadBack ==
  ASSUME NEW kind, NEW v, NEW buf \in Seq(Byte), NEW at, FitsField(kind, v),
         kind.of \in {"literal", "raw"}
  PROVE  FieldReads(kind, v, buf, at)
<1>1. CASE kind.of = "literal"
  <2> DEFINE s == kind.bytes
             got == TakeBytes(buf, at, Len(s))
  <2>1. PutField(kind, v) = s /\ TakeField(kind, buf, at) = IF got.value = s THEN got ELSE Failed
    BY <1>1, PutIs, TakeIs
  <2>2. s \in Seq(Byte)
    BY <1>1 DEF FitsField
  <2>3. At(buf, at, s) => got = Got(s, at + Len(s))
    BY <2>2, TakeAt
  <2> HIDE DEF got
  <2>4. got = Got(s, at + Len(s)) => got.value = s
    BY DEF Got
  <2> QED
    BY <1>1, <2>1, <2>2, <2>3, <2>4, GotIsRead DEF FieldReads
<1>2. CASE kind.of = "raw"
  <2>1. PutField(kind, v) = v /\ TakeField(kind, buf, at) = TakeBytes(buf, at, Len(v)) /\ v \in Seq(Byte)
    BY <1>2, PutIs, TakeIs DEF FitsField
  <2>2. At(buf, at, v) => TakeBytes(buf, at, Len(v)) = Got(v, at + Len(v))
    BY <2>1, TakeAt
  <2> QED
    BY <1>2, <2>1, <2>2, GotIsRead DEF FieldReads
<1> QED
  BY <1>1, <1>2

\* Bytes behind their length.
LEMMA LengthReadsBack ==
  ASSUME NEW kind, NEW v, NEW buf \in Seq(Byte), NEW at, FitsField(kind, v),
         kind.of \in {"prefixed", "counted", "section"}
  PROVE  FieldReads(kind, v, buf, at)
<1> DEFINE n == Len(v)
<1>1. v \in Seq(Byte) /\ n \in Nat
  BY DEF FitsField
<1>2. Huge \in Int /\ \A m \in Nat : m <= MostVaried \/ m <= MostFixed => m <= Huge
  BY DEF Huge, MostVaried, MostFixed
<1>3. CASE kind.of = "prefixed"
  <2> DEFINE head == Varint[n]
             length == TakeVarint(buf, at, 5)
  <2>1. PutField(kind, v) = head \o v /\ TakeField(kind, buf, at) = TakeCounted(buf, length, Huge)
    BY <1>3, PutIs, TakeIs
  <2>2. n <= MostVaried /\ n <= Huge
    BY <1>1, <1>2, <1>3 DEF FitsField
  <2>3. head \in Seq(Byte)
    BY <1>1, VarintShape DEF IsVaried
  <2>4. head \o v \in Seq(Byte)
    <3> HIDE DEF head
    <3> QED
      BY <1>1, <2>3
  <2>5. At(buf, at, head \o v) => TakeCounted(buf, length, Huge) = Got(v, at + Len(head \o v))
    <3> SUFFICES ASSUME At(buf, at, head \o v)
                 PROVE  TakeCounted(buf, length, Huge) = Got(v, at + Len(head \o v))
      OBVIOUS
    <3>1. At(buf, at, head)
      <4> HIDE DEF head
      <4> QED
        BY <1>1, <2>3, AtJoined
    <3>2. length = Got(n, at + Len(head))
      <4>1. 5 \in Nat /\ 5 >= 5
        OBVIOUS
      <4> HIDE DEF n
      <4> QED
        BY <1>1, <2>2, <3>1, <4>1, TakeVarintAt
    <3> HIDE DEF head, length
    <3> QED
      BY <1>1, <1>2, <2>2, <2>3, <3>2, CountedAt
  <2> QED
    BY <1>3, <2>1, <2>4, <2>5, GotIsRead DEF FieldReads
<1>4. CASE kind.of = "counted"
  <2> DEFINE head == BigEndian(n, kind.width)
             length == FromBigGot(TakeBytes(buf, at, kind.width))
  <2>1. PutField(kind, v) = head \o v /\ TakeField(kind, buf, at) = TakeCounted(buf, length, Huge)
    BY <1>4, PutIs, TakeIs
  <2>2. FitsWidth(n, kind.width) /\ n <= Huge /\ kind.width \in Nat
    BY <1>1, <1>2, <1>4 DEF FitsField, FitsWidth
  <2>3. head \in Seq(Byte) /\ Len(head) = kind.width
    BY <1>1, <2>2, BigLength DEF IsBytes
  <2>4. head \o v \in Seq(Byte)
    <3> HIDE DEF head
    <3> QED
      BY <1>1, <2>3
  <2>5. At(buf, at, head \o v) => TakeCounted(buf, length, Huge) = Got(v, at + Len(head \o v))
    <3> SUFFICES ASSUME At(buf, at, head \o v)
                 PROVE  TakeCounted(buf, length, Huge) = Got(v, at + Len(head \o v))
      OBVIOUS
    <3>1. At(buf, at, head)
      <4> HIDE DEF head
      <4> QED
        BY <1>1, <2>3, AtJoined
    <3>2. length = Got(n, at + Len(head))
      <4>1. length = Got(n, at + kind.width)
        BY <2>2, <3>1, BigAt
      <4> HIDE DEF length
      <4> QED
        BY <4>1, <2>3
    <3> HIDE DEF head, length
    <3> QED
      BY <1>1, <1>2, <2>2, <2>3, <3>2, CountedAt
  <2> QED
    BY <1>4, <2>1, <2>4, <2>5, GotIsRead DEF FieldReads
<1>5. CASE kind.of = "section"
  <2> DEFINE head == LittleEndian(n, 4)
             length == FromLittleGot(TakeBytes(buf, at, 4))
             limit == kind.limit
  <2>1. PutField(kind, v) = head \o v /\ TakeField(kind, buf, at) = TakeCounted(buf, length, limit)
    BY <1>5, PutIs, TakeIs
  <2>2. FitsWidth(n, 4) /\ n <= limit /\ limit \in Int
    BY <1>1, <1>5 DEF FitsField
  <2>3. head \in Seq(Byte) /\ Len(head) = 4
    BY <1>1, LittleLength DEF IsBytes
  <2>4. head \o v \in Seq(Byte)
    <3> HIDE DEF head
    <3> QED
      BY <1>1, <2>3
  <2>5. At(buf, at, head \o v) => TakeCounted(buf, length, limit) = Got(v, at + Len(head \o v))
    <3> SUFFICES ASSUME At(buf, at, head \o v)
                 PROVE  TakeCounted(buf, length, limit) = Got(v, at + Len(head \o v))
      OBVIOUS
    <3>1. At(buf, at, head)
      <4> HIDE DEF head
      <4> QED
        BY <1>1, <2>3, AtJoined
    <3>2. length = Got(n, at + Len(head))
      <4>1. length = Got(n, at + 4)
        BY <2>2, <3>1, LittleAt
      <4> HIDE DEF length
      <4> QED
        BY <4>1, <2>3
    <3> HIDE DEF head, length, limit
    <3>3. v \in Seq(Byte) /\ limit \in Int /\ Len(v) <= limit /\ head \in Seq(Byte)
          /\ length = Got(Len(v), at + Len(head))
      BY <1>1, <2>2, <2>3, <3>2
    <3> QED
      BY <3>3, CountedAt
  <2> QED
    BY <1>5, <2>1, <2>4, <2>5, GotIsRead DEF FieldReads
<1> QED
  BY <1>3, <1>4, <1>5

\* Options.
LEMMA OptionReadsBack ==
  ASSUME NEW kind, NEW v, NEW buf \in Seq(Byte), NEW at, FitsField(kind, v), kind.of = "option"
  PROVE  FieldReads(kind, v, buf, at)
<1> DEFINE width == kind.width
           flag  == TakeBytes(buf, at, 1)
           value == TakeBytes(buf, at + 1, width)
<1>1. /\ PutField(kind, v) = IF v = <<>> THEN <<0>> ELSE <<1>> \o BigEndian(v[1], width)
      /\ TakeField(kind, buf, at) =
           IF ~ flag.ok THEN Failed
           ELSE IF flag.value = <<0>> THEN Got(<<>>, at + 1)
           ELSE IF value.ok THEN Got(<<FromBig(value.value)>>, value.next) ELSE Failed
  <2>1. TakeField(kind, buf, at) = TakeOption(buf, at, width)
    BY TakeIs
  <2> QED
    BY <2>1, PutIs DEF TakeOption
<1>2. width \in Nat /\ (v = <<>> \/ \E w : v = <<w>> /\ FitsWidth(w, width))
  BY DEF FitsField
<1> HIDE DEF width, flag, value
<1>3. \A b \in {0, 1} : <<b>> \in Seq(Byte) /\ Len(<<b>>) = 1
                        /\ (At(buf, at, <<b>>) => TakeBytes(buf, at, 1) = Got(<<b>>, at + 1))
  <2> SUFFICES ASSUME NEW b \in {0, 1}
               PROVE  <<b>> \in Seq(Byte) /\ Len(<<b>>) = 1
                      /\ (At(buf, at, <<b>>) => TakeBytes(buf, at, 1) = Got(<<b>>, at + 1))
    OBVIOUS
  <2>1. <<b>> \in Seq(Byte) /\ Len(<<b>>) = 1
    BY DEF Byte
  <2> QED
    BY <2>1, TakeAt
<1>4. CASE v = <<>>
  <2>1. PutField(kind, v) = <<0>>
    BY <1>1, <1>4
  <2>2. At(buf, at, <<0>>) => flag.ok /\ flag.value = <<0>>
    <3>1. At(buf, at, <<0>>) => flag = Got(<<0>>, at + 1)
      BY <1>3 DEF flag
    <3> QED
      BY <3>1 DEF Got
  <2>3. <<0>> \in Seq(Byte) /\ Len(<<0>>) = 1
    BY <1>3
  <2> QED
    BY <1>1, <1>4, <2>1, <2>2, <2>3, GotIsRead DEF FieldReads
<1>5. CASE v # <<>>
  <2>1. PICK w : v = <<w>> /\ FitsWidth(w, width)
    BY <1>2, <1>5
  <2> DEFINE tail == BigEndian(w, width)
  <2>2. PutField(kind, v) = <<1>> \o tail
    BY <1>1, <1>5, <2>1
  <2>3. tail \in Seq(Byte) /\ Len(tail) = width
    BY <1>2, <2>1, BigLength DEF IsBytes, FitsWidth
  <2>4. <<1>> \in Seq(Byte) /\ Len(<<1>>) = 1
    BY <1>3
  <2>5. <<1>> \o tail \in Seq(Byte) /\ Len(<<1>> \o tail) = 1 + width
    <3> HIDE DEF tail
    <3> QED
      BY <2>3, <2>4
  <2>6. At(buf, at, <<1>> \o tail) => TakeField(kind, buf, at) = Got(v, at + Len(<<1>> \o tail))
    <3> SUFFICES ASSUME At(buf, at, << 1 >> \o tail)
                 PROVE  TakeField(kind, buf, at) = Got(v, at + Len(<<1>> \o tail))
      OBVIOUS
    <3>1. At(buf, at, <<1>>) /\ At(buf, at + 1, tail)
      <4>1. At(buf, at, <<1>>) /\ At(buf, at + Len(<<1>>), tail)
        <5> HIDE DEF tail
        <5> QED
          BY <2>3, <2>4, AtJoined
      <4> QED
        BY <2>4, <4>1
    <3>2. flag = Got(<<1>>, at + 1)
      BY <1>3, <3>1 DEF flag
    <3>3. flag.ok /\ flag.value # <<0>>
      BY <3>2 DEF Got
    <3>4. value = Got(tail, (at + 1) + width)
      BY <2>3, <3>1, TakeAt DEF value
    <3>5. value.ok /\ value.value = tail /\ value.next = (at + 1) + width
      BY <3>4 DEF Got
    <3>6. FromBig(tail) = w
      BY <2>1, BigReadsBack
    <3>7. (at + 1) + width = at + Len(<<1>> \o tail)
      <4>1. at \in Nat
        BY DEF At
      <4>2. (at + 1) + width = at + (1 + width)
        BY <1>2, <4>1
      <4> HIDE DEF tail
      <4> QED
        BY <2>5, <4>2
    <3> QED
      BY <1>1, <2>1, <3>3, <3>5, <3>6, <3>7
  <2> QED
    BY <2>2, <2>5, <2>6, GotIsRead DEF FieldReads
<1> QED
  BY <1>4, <1>5

\* Every kind of field reads back what was put in it.
LEMMA FieldReadsBack ==
  ASSUME NEW kind, NEW v, NEW buf \in Seq(Byte), NEW at, FitsField(kind, v)
  PROVE  FieldReads(kind, v, buf, at)
<1>1. \/ kind.of \in {"big", "little"}
      \/ kind.of \in {"varint", "zigzag"}
      \/ kind.of = "float"
      \/ kind.of \in {"literal", "raw"}
      \/ kind.of \in {"prefixed", "counted", "section"}
      \/ kind.of = "option"
  BY DEF FitsField
<1> QED
  BY <1>1, NumberReadsBack, VariedReadsBack, FloatReadsBack, BytesReadBack, LengthReadsBack,
     OptionReadsBack

-----------------------------------------------------------------------------
(* Layouts.                                                                 *)

IsLiteral(field) == field[2].of = "literal"
ValueFor(field, rec) == IF field[2].of = "literal" THEN <<>> ELSE rec[field[1]]

\* Whether a record can be written along a layout and read again.
FitsLayout(layout, rec) == \A k \in DOMAIN layout : FitsField(layout[k][2], ValueFor(layout[k], rec))

Names(layout, k) == {layout[j][1] : j \in {i \in 1 .. k : ~ IsLiteral(layout[i])}}
Known(layout, rec, k) == [n \in Names(layout, k) |-> rec[n]]
FieldParts(layout, rec) == [k \in DOMAIN layout |-> PutField(layout[k][2], ValueFor(layout[k], rec))]

\* put[k] are the bytes of the first k fields.
ReadSoFar(fixed, acc, k) ==
  acc = Got(Known(fixed.layout, fixed.rec, k), fixed.start + Len(fixed.put[k]))

ReadNext(before, at) == ReadField(before, at[1], at[2])

Reading == INSTANCE Folding WITH Op <- ReadNext, Holds <- ReadSoFar

Along(layout, buf) == [k \in 1 .. Len(layout) |-> <<layout[k], buf>>]
NothingRead(start) == Got([n \in {} |-> <<>>], start)

\* Read is a loop over the fields of the layout.
LEMMA ReadIs ==
  ASSUME NEW S, NEW layout \in Seq(S), NEW buf, NEW start
  PROVE  /\ Along(layout, buf) \in Seq(S \X {buf}) /\ Len(Along(layout, buf)) = Len(layout)
         /\ \A k \in 1 .. Len(layout) : Along(layout, buf)[k] = <<layout[k], buf>>
         /\ Read(layout, buf, start) = Reading!Loop(NothingRead(start), Along(layout, buf))
<1> DEFINE seq == Along(layout, buf)
           m == Len(layout)
           Solves(f) == f = [k \in 0 .. Len(layout) |->
                           IF k = 0 THEN Got([n \in {} |-> <<>>], start)
                           ELSE ReadField(f[k - 1], layout[k], buf)]
<1>1. m \in Nat /\ seq = [k \in 1 .. m |-> <<layout[k], buf>>] /\ \A k \in 1 .. m : layout[k] \in S
  BY DEF Along
<1>2. seq \in Seq(S \X {buf}) /\ Len(seq) = m /\ \A k \in 1 .. m : seq[k] = <<layout[k], buf>>
  <2>1. \A k \in 1 .. m : <<layout[k], buf>> \in S \X {buf}
    BY <1>1
  <2> HIDE DEF m
  <2>2. [k \in 1 .. m |-> <<layout[k], buf>>] \in Seq(S \X {buf})
        /\ Len([k \in 1 .. m |-> <<layout[k], buf>>]) = m
    BY <1>1, <2>1
  <2> HIDE DEF seq
  <2> QED
    BY <1>1, <2>2
<1>3. Read(layout, buf, start) = (CHOOSE f : Solves(f))[Len(layout)]
  BY DEF Read
<1> HIDE DEF seq
<1>4. \A f : Solves(f) <=> Reading!IsUpTo(f, NothingRead(start), seq)
  <2> SUFFICES ASSUME NEW f PROVE Solves(f) <=> Reading!IsUpTo(f, NothingRead(start), seq)
    OBVIOUS
  <2>1. ASSUME NEW k \in 0 .. m
        PROVE  (IF k = 0 THEN Got([n \in {} |-> <<>>], start) ELSE ReadField(f[k - 1], layout[k], buf))
               = (IF k = 0 THEN NothingRead(start) ELSE ReadNext(f[k - 1], seq[k]))
    <3>1. CASE k = 0
      BY <3>1 DEF NothingRead
    <3>2. CASE k # 0
      <4>1. seq[k] = <<layout[k], buf>>
        BY <1>1, <1>2, <3>2
      <4> QED
        BY <3>2, <4>1 DEF ReadNext
    <3> QED
      BY <3>1, <3>2
  <2>2. [k \in 0 .. m |-> IF k = 0 THEN Got([n \in {} |-> <<>>], start) ELSE ReadField(f[k - 1], layout[k], buf)]
        = [k \in 0 .. m |-> IF k = 0 THEN NothingRead(start) ELSE ReadNext(f[k - 1], seq[k])]
    <3> HIDE DEF m
    <3> QED
      BY <2>1
  <2> QED
    BY <1>2, <2>2 DEF Reading!IsUpTo
<1>5. \E f : Solves(f)
  <2> HIDE DEF Solves
  <2> QED
    BY <1>2, <1>4, Reading!UpToExists
<1> HIDE DEF Solves
<1>6. Solves(CHOOSE f : Solves(f))
  BY <1>5
<1>7. Reading!IsUpTo((CHOOSE f : Solves(f)), NothingRead(start), seq)
  BY <1>4, <1>6
<1>8. (CHOOSE f : Solves(f))[Len(seq)] = Reading!Loop(NothingRead(start), seq)
  BY <1>2, <1>7, Reading!UpToIsLoop
<1> QED
  BY <1>2, <1>3, <1>8 DEF seq

\* One field more: a literal adds nothing, any other its name and value.
LEMMA ReadStep ==
  ASSUME NEW S, NEW layout \in Seq(S), NEW rec, NEW buf \in Seq(Byte), NEW k \in 0 .. (Len(layout) - 1),
         NEW next, NEW part, part = PutField(layout[k + 1][2], ValueFor(layout[k + 1], rec)),
         FitsField(layout[k + 1][2], ValueFor(layout[k + 1], rec)), At(buf, next, part)
  PROVE  ReadField(Got(Known(layout, rec, k), next), layout[k + 1], buf)
           = Got(Known(layout, rec, k + 1), next + Len(part))
<1> DEFINE field == layout[k + 1]
           v == ValueFor(field, rec)
           got == TakeField(field[2], buf, next)
           r == Known(layout, rec, k)
<1>1. IsRead(got, IF field[2].of = "literal" THEN field[2].bytes ELSE v, next + Len(part))
  BY FieldReadsBack DEF FieldReads
<1>2. ReadField(Got(r, next), field, buf) = Extended(Got(r, next), field, got)
  BY DEF ReadField, Got
<1>3. k \in Nat /\ k + 1 \in 1 .. (k + 1) /\ \A i \in 1 .. (k + 1) : i \in 1 .. k \/ i = k + 1
  OBVIOUS
<1>4. CASE IsLiteral(field)
  <2>1. Extended(Got(r, next), field, got) = Got(r, next + Len(part))
    BY <1>1, <1>4 DEF Extended, IsRead, IsLiteral, Got
  <2>2. Names(layout, k + 1) = Names(layout, k)
    <3>1. {i \in 1 .. (k + 1) : ~ IsLiteral(layout[i])} = {i \in 1 .. k : ~ IsLiteral(layout[i])}
      BY <1>3, <1>4
    <3> QED
      BY <3>1 DEF Names
  <2> QED
    BY <1>2, <2>1, <2>2 DEF Known
<1>5. CASE ~ IsLiteral(field)
  <2>1. v = rec[field[1]]
    BY <1>5 DEF ValueFor, IsLiteral
  <2>2. got.ok /\ got.value = v /\ got.next = next + Len(part)
    BY <1>1, <1>5 DEF IsRead, IsLiteral
  <2> HIDE DEF got
  <2>3. Extended(Got(r, next), field, got) = Got(With(r, field[1], v), next + Len(part))
    BY <1>5, <2>2 DEF Extended, IsLiteral, Got
  <2>4. Names(layout, k + 1) = Names(layout, k) \cup {field[1]}
    <3>1. {i \in 1 .. (k + 1) : ~ IsLiteral(layout[i])}
            = {i \in 1 .. k : ~ IsLiteral(layout[i])} \cup {k + 1}
      BY <1>3, <1>5
    <3> QED
      BY <3>1 DEF Names
  <2>5. With(r, field[1], v) = Known(layout, rec, k + 1)
    <3>1. DOMAIN r = Names(layout, k) /\ \A n \in Names(layout, k) : r[n] = rec[n]
      BY DEF Known
    <3> HIDE DEF r, v
    <3>2. With(r, field[1], v) = [n \in Names(layout, k + 1) |-> IF n = field[1] THEN v ELSE r[n]]
      BY <2>4, <3>1 DEF With
    <3>3. \A n \in Names(layout, k + 1) : (IF n = field[1] THEN v ELSE r[n]) = rec[n]
      BY <2>1, <2>4, <3>1
    <3> QED
      BY <3>2, <3>3 DEF Known
  <2> QED
    BY <1>2, <2>3, <2>5
<1> QED
  BY <1>4, <1>5

\* What is written is the bytes of each field, one after the other.
LEMMA PartsAre ==
  ASSUME NEW S, NEW layout \in Seq(S), NEW rec, FitsLayout(layout, rec)
  PROVE  /\ FieldParts(layout, rec) \in Seq(Seq(Byte)) /\ Len(FieldParts(layout, rec)) = Len(layout)
         /\ Write(layout, rec) = Concat(FieldParts(layout, rec))
         /\ Write(layout, rec) \in Seq(Byte)
<1> DEFINE m == Len(layout)
           part(k) == PutField(layout[k][2], ValueFor(layout[k], rec))
<1>1. m \in Nat /\ DOMAIN layout = 1 .. m
  OBVIOUS
<1>2. \A k \in 1 .. m : part(k) \in Seq(Byte)
  <2> SUFFICES ASSUME NEW k \in 1 .. m PROVE part(k) \in Seq(Byte)
    OBVIOUS
  <2>1. <<>> \in Seq(Byte) /\ FitsField(layout[k][2], ValueFor(layout[k], rec))
    BY <1>1 DEF FitsLayout
  <2>2. FieldReads(layout[k][2], ValueFor(layout[k], rec), <<>>, 1)
    BY <2>1, FieldReadsBack
  <2> QED
    BY <2>2 DEF FieldReads
<1>3. FieldParts(layout, rec) = [k \in 1 .. m |-> part(k)]
  BY <1>1 DEF FieldParts
<1>4. [k \in 1 .. m |-> part(k)] \in Seq(Seq(Byte)) /\ Len([k \in 1 .. m |-> part(k)]) = m
  <2> HIDE DEF m, part
  <2> QED
    BY <1>1, <1>2
<1>5. Write(layout, rec) = Concat(FieldParts(layout, rec))
  BY DEF Write, FieldParts, ValueFor
<1> HIDE DEF part
<1> QED
  BY <1>3, <1>4, <1>5, ConcatBytes

\* What has been put so far, at every field.
LEMMA Putting ==
  ASSUME NEW parts \in Seq(Seq(Byte))
  PROVE  \E put : /\ put[0] = <<>> /\ put[Len(parts)] = Concat(parts)
                  /\ \A k \in 0 .. Len(parts) : put[k] \in Seq(Byte)
                  /\ \A k \in 0 .. (Len(parts) - 1) : put[k + 1] = put[k] \o parts[k + 1]
<1> DEFINE m == Len(parts)
<1>1. m \in Nat
  OBVIOUS
<1>2. PICK put : Joining!IsUpTo(put, <<>>, parts) /\ Concat(parts) = put[m]
  BY ConcatIs
<1> HIDE DEF m
<1>3. \A k \in 0 .. m : put[k] = IF k = 0 THEN <<>> ELSE put[k - 1] \o parts[k]
  BY <1>2 DEF Joining!IsUpTo, Joined, m
<1>4. put[0] = <<>> /\ \A k \in 0 .. (m - 1) : put[k + 1] = put[k] \o parts[k + 1]
  <2>1. put[0] = <<>>
    BY <1>1, <1>3
  <2>2. ASSUME NEW k \in 0 .. (m - 1) PROVE put[k + 1] = put[k] \o parts[k + 1]
    <3>1. k + 1 \in 0 .. m /\ k + 1 # 0 /\ (k + 1) - 1 = k
      BY <1>1
    <3> QED
      BY <1>3, <3>1
  <2> QED
    BY <2>1, <2>2
<1> DEFINE T == {k \in 0 .. m : put[k] \in Seq(Byte)}
<1>5. 0 \in T
  <2>1. <<>> \in Seq(Byte) /\ 0 \in 0 .. m
    BY <1>1
  <2> QED
    BY <1>4, <2>1
<1>6. ASSUME NEW k \in 0 .. (m - 1), k \in T PROVE k + 1 \in T
  <2>1. k + 1 \in 1 .. m /\ k + 1 \in 0 .. m
    BY <1>1
  <2>2. parts[k + 1] \in Seq(Byte)
    BY <2>1 DEF m
  <2>3. put[k] \in Seq(Byte)
    BY <1>6
  <2>4. put[k] \o parts[k + 1] \in Seq(Byte)
    <3> HIDE DEF Byte
    <3> QED
      BY <2>2, <2>3
  <2> QED
    BY <1>4, <2>1, <2>4
<1>7. \A k \in 0 .. m : k \in T
  <2> HIDE DEF T
  <2> QED
    BY <1>1, <1>5, <1>6, Joining!UpTo
<1>8. \A k \in 0 .. m : put[k] \in Seq(Byte)
  BY <1>7
<1> QED
  BY <1>2, <1>4, <1>8 DEF m

\* Where the whole stands, every field stands behind those before it.
LEMMA PartsStand ==
  ASSUME NEW buf \in Seq(Byte), NEW start, NEW parts \in Seq(Seq(Byte)), NEW put,
         put[Len(parts)] = Concat(parts),
         \A k \in 0 .. Len(parts) : put[k] \in Seq(Byte),
         \A k \in 0 .. (Len(parts) - 1) : put[k + 1] = put[k] \o parts[k + 1],
         At(buf, start, Concat(parts))
  PROVE  \A k \in 0 .. (Len(parts) - 1) : At(buf, start + Len(put[k]), parts[k + 1])
<1> DEFINE m == Len(parts)
           T == {j \in 0 .. m : At(buf, start, put[m - j])}
<1>1. m \in Nat
  OBVIOUS
<1>2. \A k \in 0 .. (m - 1) : parts[k + 1] \in Seq(Byte) /\ put[k] \in Seq(Byte)
                              /\ put[k + 1] = put[k] \o parts[k + 1]
  <2> SUFFICES ASSUME NEW k \in 0 .. (m - 1)
               PROVE  parts[k + 1] \in Seq(Byte) /\ put[k] \in Seq(Byte)
                      /\ put[k + 1] = put[k] \o parts[k + 1]
    OBVIOUS
  <2>1. k + 1 \in 1 .. m /\ k \in 0 .. m
    BY <1>1
  <2>2. parts[k + 1] \in Seq(Byte)
    BY <2>1
  <2>3. put[k] \in Seq(Byte) /\ put[k + 1] = put[k] \o parts[k + 1]
    BY <2>1
  <2> QED
    BY <2>2, <2>3
<1> HIDE DEF m
<1>3. 0 \in T
  BY <1>1 DEF m
<1>4. ASSUME NEW j \in 0 .. (m - 1), j \in T PROVE j + 1 \in T
  <2> DEFINE k == m - (j + 1)
  <2>1. k \in 0 .. (m - 1) /\ m - j = k + 1 /\ j + 1 \in 0 .. m
    BY <1>1
  <2>2. At(buf, start, put[k + 1])
    BY <1>4, <2>1
  <2> HIDE DEF k
  <2>3. put[k + 1] = put[k] \o parts[k + 1] /\ parts[k + 1] \in Seq(Byte) /\ put[k] \in Seq(Byte)
    BY <1>2, <2>1
  <2>4. At(buf, start, put[k])
    BY <2>2, <2>3, AtJoined
  <2> QED
    BY <2>1, <2>4 DEF k
<1>5. \A j \in 0 .. m : j \in T
  <2> HIDE DEF T
  <2> QED
    BY <1>1, <1>3, <1>4, Joining!UpTo
<1>6. ASSUME NEW k \in 0 .. (m - 1) PROVE At(buf, start + Len(put[k]), parts[k + 1])
  <2>1. m - (k + 1) \in 0 .. m /\ m - (m - (k + 1)) = k + 1
    BY <1>1
  <2>2. At(buf, start, put[k + 1])
    BY <1>5, <2>1
  <2>3. put[k + 1] = put[k] \o parts[k + 1] /\ parts[k + 1] \in Seq(Byte) /\ put[k] \in Seq(Byte)
    BY <1>2
  <2> QED
    BY <2>2, <2>3, AtJoined
<1> QED
  BY <1>6 DEF m

\* Every packet of layouts without a rest reads back: whatever the layout and
\* the record, wherever it stands in a datagram or batch and whatever follows,
\* Read returns the named fields as they were written and stops behind them.
THEOREM WrittenReadsBack ==
  ASSUME NEW S, NEW layout \in Seq(S), NEW rec, FitsLayout(layout, rec),
         NEW buf \in Seq(Byte), NEW start, At(buf, start, Write(layout, rec))
  PROVE  Read(layout, buf, start)
           = Got(Known(layout, rec, Len(layout)), start + Len(Write(layout, rec)))
<1> DEFINE parts == FieldParts(layout, rec)
           m == Len(layout)
           seq == Along(layout, buf)
<1>1. parts \in Seq(Seq(Byte)) /\ Len(parts) = m /\ Write(layout, rec) = Concat(parts) /\ m \in Nat
  BY PartsAre
<1> HIDE DEF parts
<1>2. PICK put : /\ put[0] = <<>> /\ put[m] = Concat(parts)
                 /\ \A k \in 0 .. m : put[k] \in Seq(Byte)
                 /\ \A k \in 0 .. (m - 1) : put[k + 1] = put[k] \o parts[k + 1]
  BY <1>1, Putting
<1>3. \A k \in 0 .. (m - 1) : At(buf, start + Len(put[k]), parts[k + 1])
  BY <1>1, <1>2, PartsStand
<1>4. /\ seq \in Seq(S \X {buf}) /\ Len(seq) = m /\ \A k \in 1 .. m : seq[k] = <<layout[k], buf>>
      /\ Read(layout, buf, start) = Reading!Loop(NothingRead(start), seq)
  BY ReadIs
<1>5. start \in Nat
  BY DEF At
<1> DEFINE fixed == [layout |-> layout, rec |-> rec, start |-> start, put |-> put]
<1>6. ReadSoFar(fixed, NothingRead(start), 0)
  <2>1. Names(layout, 0) = {}
    BY DEF Names
  <2>2. Known(layout, rec, 0) = [n \in {} |-> <<>>]
    BY <2>1 DEF Known
  <2>3. start + Len(put[0]) = start
    BY <1>2, <1>5
  <2> QED
    BY <2>2, <2>3 DEF ReadSoFar, NothingRead
<1>7. ASSUME NEW k \in 0 .. (m - 1), NEW acc, ReadSoFar(fixed, acc, k)
      PROVE  ReadSoFar(fixed, ReadNext(acc, seq[k + 1]), k + 1)
  <2> DEFINE next == start + Len(put[k])
             part == parts[k + 1]
  <2>1. k + 1 \in 1 .. m /\ k \in 0 .. m /\ k + 1 \in DOMAIN layout
    BY <1>1
  <2>2. acc = Got(Known(layout, rec, k), next)
    BY <1>7 DEF ReadSoFar
  <2>3. part = PutField(layout[k + 1][2], ValueFor(layout[k + 1], rec)) /\ part \in Seq(Byte)
    <3>1. part = PutField(layout[k + 1][2], ValueFor(layout[k + 1], rec))
      BY <2>1 DEF parts, FieldParts
    <3>2. part \in Seq(Byte)
      BY <1>1, <2>1
    <3> QED
      BY <3>1, <3>2
  <2>4. FitsField(layout[k + 1][2], ValueFor(layout[k + 1], rec))
    BY <2>1 DEF FitsLayout
  <2>5. At(buf, next, part)
    BY <1>3
  <2> HIDE DEF next, part, fixed
  <2>6. ReadField(acc, layout[k + 1], buf) = Got(Known(layout, rec, k + 1), next + Len(part))
    BY <2>2, <2>3, <2>4, <2>5, ReadStep
  <2>7. next + Len(part) = start + Len(put[k + 1])
    <3>1. put[k + 1] = put[k] \o part /\ put[k] \in Seq(Byte) /\ part \in Seq(Byte)
      BY <1>2, <2>1, <2>3 DEF part
    <3>2. Len(put[k + 1]) = Len(put[k]) + Len(part) /\ Len(put[k]) \in Nat /\ Len(part) \in Nat
      BY <3>1
    <3> QED
      BY <1>5, <3>2 DEF next
  <2>8. ReadNext(acc, seq[k + 1]) = ReadField(acc, layout[k + 1], buf)
    <3>1. seq[k + 1] = <<layout[k + 1], buf>>
      BY <1>4, <2>1
    <3> HIDE DEF seq
    <3> QED
      BY <3>1 DEF ReadNext
  <2> QED
    BY <2>6, <2>7, <2>8 DEF ReadSoFar, fixed
<1> HIDE DEF fixed, seq, m
<1>8. ReadSoFar(fixed, Reading!Loop(NothingRead(start), seq), Len(seq))
  BY <1>4, <1>6, <1>7, Reading!FoldKeeps
<1>9. Read(layout, buf, start) = Got(Known(layout, rec, m), start + Len(put[m]))
  BY <1>4, <1>8 DEF ReadSoFar, fixed
<1> QED
  BY <1>1, <1>2, <1>9 DEF m

-----------------------------------------------------------------------------
(* Batches.                                                                 *)

NextPacket(buf, at) == TakePacket(TakeField(Prefixed, buf, at))

\* A packet takes at least the byte of its length.
LEMMA PacketMoves ==
  ASSUME NEW buf \in Seq(Byte), NEW at \in Nat \ {0}, NextPacket(buf, at).ok
  PROVE  NextPacket(buf, at).next \in Nat /\ NextPacket(buf, at).next > at
<1> DEFINE length == TakeVarint(buf, at, 5)
           got == TakeField(Prefixed, buf, at)
           bytes == TakeBytes(buf, length.next, length.value)
           header == TakeVarint(got.value, 1, 5)
<1>1. got = IF ~ length.ok \/ length.value > Huge THEN Failed ELSE bytes
  <2>1. Prefixed.of = "prefixed"
    BY DEF Prefixed
  <2>2. got = TakeCounted(buf, length, Huge)
    BY <2>1, TakeIs
  <2> QED
    BY <2>2 DEF TakeCounted
<1>2. NextPacket(buf, at) = IF got.ok THEN PacketOf(got.value, header, got.next) ELSE Failed
  BY DEF NextPacket, TakePacket
<1> HIDE DEF got
<1>3. got.ok /\ NextPacket(buf, at) = PacketOf(got.value, header, got.next)
  BY <1>2 DEF Failed
<1>4. NextPacket(buf, at).next = got.next
  <2> HIDE DEF header
  <2> QED
    BY <1>3 DEF PacketOf, Got, Failed
<1>5. length.ok /\ got = bytes /\ bytes.ok
  <2> HIDE DEF length, bytes
  <2> QED
    BY <1>1, <1>3 DEF Failed
<1>6. IsNumber(length.value) /\ length.next \in Nat /\ length.next > at
  <2>1. 5 \in Nat
    OBVIOUS
  <2> QED
    BY <1>5, <2>1, TakeVarintMoves
<1> HIDE DEF length
<1>7. bytes.next = length.next + length.value
  BY <1>5 DEF TakeBytes, Got, Failed
<1> QED
  BY <1>4, <1>5, <1>6, <1>7 DEF IsNumber

Onwards(one, rest) == IF one.ok THEN Before(one, rest) ELSE Failed

\* What decode_packets does at one packet, and after it.
LEMMA DecodeIs ==
  ASSUME NEW buf \in Seq(Byte), NEW at \in Nat \ {0}
  PROVE  DecodePackets(buf, at) =
           IF at > Len(buf) THEN Got(<<>>, at)
           ELSE Onwards(NextPacket(buf, at), DecodePackets(buf, NextPacket(buf, at).next))
<1> DEFINE l == Len(buf)
           N == Nat \ {0}
           body(f, k) == IF k > l THEN Got(<<>>, k)
                         ELSE Onwards(NextPacket(buf, k), f[NextPacket(buf, k).next])
           Solves(f) == f = [k \in N |-> body(f, k)]
           Has(f, m) == \A k \in N : k >= l + 1 - m => f[k] = body(f, k)
           T == {m \in 0 .. l : \E f : f = [k \in N |-> f[k]] /\ Has(f, m)}
<1>1. l \in Nat
  OBVIOUS
<1>2. \A start : DecodePackets(buf, start) = (CHOOSE f : Solves(f))[start]
  <2> DEFINE Plain(f) == f = [k \in N |->
                           IF k > Len(buf) THEN Got(<<>>, k)
                           ELSE IF TakePacket(TakeField(Prefixed, buf, k)).ok
                                  THEN Before(TakePacket(TakeField(Prefixed, buf, k)),
                                              f[TakePacket(TakeField(Prefixed, buf, k)).next])
                                  ELSE Failed]
  <2>1. \A start : DecodePackets(buf, start) = (CHOOSE f : Plain(f))[start]
    BY DEF DecodePackets
  <2>2. \A f : Plain(f) <=> Solves(f)
    BY DEF Onwards, NextPacket
  <2> HIDE DEF Plain, Solves
  <2>3. (CHOOSE f : Plain(f)) = (CHOOSE f : Solves(f))
    BY <2>2
  <2> QED
    BY <2>1, <2>3
<1> HIDE DEF l
<1>3. \A k \in N : NextPacket(buf, k).ok => NextPacket(buf, k).next \in N /\ NextPacket(buf, k).next > k
  <2> SUFFICES ASSUME NEW k \in N, NextPacket(buf, k).ok
               PROVE  NextPacket(buf, k).next \in N /\ NextPacket(buf, k).next > k
    OBVIOUS
  <2>1. NextPacket(buf, k).next \in Nat /\ NextPacket(buf, k).next > k
    BY PacketMoves
  <2> QED
    BY <2>1
<1>4. 0 \in T
  <2> DEFINE f == [k \in N |-> Got(<<>>, k)]
  <2>1. f = [k \in N |-> f[k]]
    OBVIOUS
  <2>2. Has(f, 0)
    BY <1>1
  <2> HIDE DEF f, Has
  <2> QED
    BY <1>1, <2>1, <2>2
<1>5. ASSUME NEW m \in 0 .. (l - 1), m \in T PROVE m + 1 \in T
  <2>1. PICK g : Has(g, m)
    BY <1>5
  <2> DEFINE a == l - m
             f == [k \in N |-> IF k = a THEN body(g, k) ELSE g[k]]
  <2>2. a \in N /\ l + 1 - m = a + 1 /\ l + 1 - (m + 1) = a /\ m + 1 \in 0 .. l
    BY <1>1
  <2> HIDE DEF a
  <2>3. \A k \in N : k > a => f[k] = g[k]
    BY <2>2
  <2>4. ASSUME NEW k \in N, k >= a PROVE f[k] = body(f, k)
    <3>1. body(f, k) = body(g, k)
      <4>1. CASE ~ NextPacket(buf, k).ok
        BY <4>1 DEF Onwards
      <4>2. CASE NextPacket(buf, k).ok
        <5>1. NextPacket(buf, k).next \in N /\ NextPacket(buf, k).next > k
          BY <1>3, <4>2
        <5>2. NextPacket(buf, k).next > a
          <6> DEFINE n == NextPacket(buf, k).next
          <6>1. n \in N /\ n > k
            BY <5>1
          <6> HIDE DEF n
          <6>2. n > a
            BY <2>2, <2>4, <6>1
          <6> QED
            BY <6>2 DEF n
        <5>3. f[NextPacket(buf, k).next] = g[NextPacket(buf, k).next]
          BY <2>3, <5>1, <5>2
        <5> HIDE DEF f
        <5> QED
          BY <5>3
      <4> QED
        BY <4>1, <4>2
    <3>2. CASE k = a
      <4>1. f[k] = body(g, k)
        BY <3>2
      <4> HIDE DEF f, body
      <4> QED
        BY <3>1, <4>1
    <3>3. CASE k # a
      <4>1. k > a /\ k >= l + 1 - m
        BY <2>2, <2>4, <3>3
      <4>2. f[k] = g[k] /\ g[k] = body(g, k)
        BY <2>1, <2>3, <4>1
      <4> HIDE DEF f, body
      <4> QED
        BY <3>1, <4>2
    <3> HIDE DEF f, body
    <3> QED
      BY <3>2, <3>3
  <2>5. f = [k \in N |-> f[k]]
    OBVIOUS
  <2>6. Has(f, m + 1)
    <3> HIDE DEF f, body
    <3> QED
      BY <2>2, <2>4
  <2> HIDE DEF f, Has
  <2> QED
    BY <2>2, <2>5, <2>6
<1>6. l \in T
  <2>1. \A m \in 0 .. l : m \in T
    <3> HIDE DEF T
    <3> QED
      BY <1>1, <1>4, <1>5, Joining!UpTo
  <2> HIDE DEF T
  <2> QED
    BY <1>1, <2>1
<1>7. \E f : Solves(f)
  <2>1. PICK f : f = [k \in N |-> f[k]] /\ Has(f, l)
    BY <1>6
  <2>2. \A k \in N : f[k] = body(f, k)
    <3>1. \A k \in N : k >= l + 1 - l
      BY <1>1
    <3> HIDE DEF body
    <3> QED
      BY <2>1, <3>1
  <2>3. Solves(f)
    <3> HIDE DEF body
    <3> QED
      BY <2>1, <2>2
  <2> HIDE DEF Solves
  <2> QED
    BY <2>3
<1> DEFINE from == CHOOSE f : Solves(f)
<1>8. Solves(from)
  <2> HIDE DEF Solves
  <2> QED
    BY <1>7
<1> HIDE DEF from, T
<1>9. from[at] = body(from, at)
  <2> HIDE DEF body
  <2> QED
    BY <1>8
<1>10. \A start : DecodePackets(buf, start) = from[start]
  BY <1>2 DEF from
<1> QED
  BY <1>9, <1>10 DEF l

\* A packet whose fields a batch has the bits for and whose length it can say.
Packet ==
  {p \in [id : 0 .. 1023, sender : 0 .. 3, target : 0 .. 3, body : Seq(Byte)] :
     Len(p.body) + 5 <= MostVaried}

PutPacket(p) == PutField(Prefixed, Varint[Header(p)] \o p.body)

\* The header keeps the id and both subclients apart.
LEMMA HeaderBits ==
  ASSUME NEW i \in 0 .. 1023, NEW s \in 0 .. 3, NEW t \in 0 .. 3
  PROVE  LET h == (i % 1024) + 1024 * (s % 4) + 4096 * (t % 4)
         IN /\ h \in Nat /\ h <= 16383 /\ h % 1024 = i
            /\ (h \div 1024) % 4 = s /\ (h \div 4096) % 4 = t
<1>1. i % 1024 = i /\ s % 4 = s /\ t % 4 = t
  OBVIOUS
<1> DEFINE h == i + 1024 * s + 4096 * t
<1>2. h \in Nat /\ h <= 16383
  OBVIOUS
<1>3. h % 1024 = i
  OBVIOUS
<1>4. h \div 1024 = s + 4 * t
  OBVIOUS
<1>5. h \div 4096 = t
  OBVIOUS
<1>6. (s + 4 * t) % 4 = s
  OBVIOUS
<1> HIDE DEF h
<1>7. (h \div 1024) % 4 = s /\ (h \div 4096) % 4 = t
  BY <1>1, <1>4, <1>5, <1>6
<1>8. h = (i % 1024) + 1024 * (s % 4) + 4096 * (t % 4)
  BY <1>1 DEF h
<1> QED
  BY <1>2, <1>3, <1>7, <1>8

\* What a reader finds behind the header is the body.
LEMMA BodyBehind ==
  ASSUME NEW a \in Seq(Byte), NEW b \in Seq(Byte)
  PROVE  SubSeq(a \o b, 1 + Len(a), Len(a \o b)) = b
<1> DEFINE m == Len(a)
           n == Len(b)
           c == a \o b
<1>1. m \in Nat /\ n \in Nat /\ Len(c) = m + n /\ c \in Seq(Byte)
      /\ \A i \in 1 .. n : c[m + i] = b[i]
  <2> HIDE DEF Byte
  <2> QED
    OBVIOUS
<1>2. SubSeq(c, 1 + m, m + n) = [i \in 1 .. n |-> c[m + i]]
  <2>1. (m + n) - (1 + m) + 1 = n /\ \A i \in 1 .. n : (1 + m) + i - 1 = m + i
    BY <1>1
  <2>2. SubSeq(c, 1 + m, m + n) = [i \in 1 .. ((m + n) - (1 + m) + 1) |-> c[(1 + m) + i - 1]]
    <3> HIDE DEF c, m, n, Byte
    <3> DEFINE first == 1 + m
               last  == m + n
    <3>1. first \in 1 .. (Len(c) + 1) /\ last \in 0 .. Len(c)
      BY <1>1
    <3> HIDE DEF first, last
    <3>2. SubSeq(c, first, last) = [i \in 1 .. (last - first + 1) |-> c[first + i - 1]]
      BY <1>1, <3>1
    <3> QED
      BY <3>2 DEF first, last
  <2> HIDE DEF c, m, n
  <2> QED
    BY <2>1, <2>2
<1>3. b = [i \in 1 .. n |-> b[i]]
  OBVIOUS
<1> HIDE DEF c, m, n
<1> QED
  BY <1>1, <1>2, <1>3 DEF c, m

\* One packet of a batch reads back, wherever it stands.
LEMMA PacketReadsBack ==
  ASSUME NEW p \in Packet, NEW buf \in Seq(Byte), NEW at
  PROVE  /\ PutPacket(p) \in Seq(Byte)
         /\ At(buf, at, PutPacket(p)) => NextPacket(buf, at) = Got(p, at + Len(PutPacket(p)))
<1> DEFINE h == Header(p)
           v == Varint[h]
           inner == v \o p.body
<1>1. p.id \in 0 .. 1023 /\ p.sender \in 0 .. 3 /\ p.target \in 0 .. 3 /\ p.body \in Seq(Byte)
      /\ Len(p.body) + 5 <= MostVaried
  BY DEF Packet
<1>2. p = [id |-> p.id, sender |-> p.sender, target |-> p.target, body |-> p.body]
  BY DEF Packet
<1>3. /\ h \in Nat /\ h <= 16383 /\ h % 1024 = p.id
      /\ (h \div 1024) % 4 = p.sender /\ (h \div 4096) % 4 = p.target
  <2> DEFINE i == p.id
             s == p.sender
             t == p.target
  <2>1. i \in 0 .. 1023 /\ s \in 0 .. 3 /\ t \in 0 .. 3
    BY <1>1
  <2>2. h = (i % 1024) + 1024 * (s % 4) + 4096 * (t % 4)
    BY DEF Header
  <2> HIDE DEF h, i, s, t
  <2>3. h \in Nat /\ h <= 16383 /\ h % 1024 = i /\ (h \div 1024) % 4 = s /\ (h \div 4096) % 4 = t
    BY <2>1, <2>2, HeaderBits
  <2> QED
    BY <2>3 DEF i, s, t
<1>4. h <= MostVaried
  <2> HIDE DEF h
  <2> QED
    BY <1>3 DEF MostVaried
<1> HIDE DEF h
<1>5. v \in Seq(Byte) /\ Len(v) \in Nat /\ Len(v) >= 1 /\ Len(v) <= 5
  <2>1. IsVaried(v)
    BY <1>3, VarintShape
  <2>2. h \in Nat
    BY <1>3
  <2>3. Len(v) <= 5
    BY <1>4, <2>2, VarintLength
  <2> HIDE DEF v
  <2> QED
    BY <2>1, <2>3 DEF IsVaried
<1> HIDE DEF v
<1>6. inner \in Seq(Byte) /\ Len(inner) = Len(v) + Len(p.body) /\ Len(p.body) \in Nat
      /\ \A i \in 1 .. Len(v) : inner[i] = v[i]
  <2> HIDE DEF Byte
  <2> QED
    BY <1>1, <1>5
<1>7. At(inner, 1, v)
  <2>1. 1 + Len(v) - 1 <= Len(inner)
    BY <1>5, <1>6
  <2>2. \A i \in 1 .. Len(v) : 1 + i - 1 = i
    BY <1>5
  <2>3. \A i \in 1 .. Len(v) : inner[1 + i - 1] = v[i]
    BY <1>6, <2>2
  <2> QED
    BY <2>1, <2>3 DEF At
<1>8. TakeVarint(inner, 1, 5) = Got(h, 1 + Len(v))
  <2>1. inner \in Seq(Byte) /\ At(inner, 1, Varint[h])
    BY <1>6, <1>7 DEF v
  <2>2. h \in Nat /\ h <= MostVaried
    BY <1>3, <1>4
  <2> DEFINE at1 == 1
             most == 5
  <2>3. most \in Nat /\ most >= 5 /\ At(inner, at1, Varint[h])
    BY <2>1
  <2> HIDE DEF inner, at1, most
  <2>4. TakeVarint(inner, at1, most) = Got(h, at1 + Len(Varint[h]))
    BY <2>1, <2>2, <2>3, TakeVarintAt
  <2> QED
    BY <2>4 DEF v, at1, most
<1>9. SubSeq(inner, 1 + Len(v), Len(inner)) = p.body
  BY <1>1, <1>5, BodyBehind
<1>10. FitsField(Prefixed, inner)
  <2>1. Len(inner) <= MostVaried
    <3>1. MostVaried \in Nat
      BY DEF MostVaried
    <3> QED
      BY <1>1, <1>5, <1>6, <3>1
  <2> HIDE DEF inner
  <2> QED
    BY <1>6, <2>1 DEF FitsField, Prefixed
<1>11. PutPacket(p) = PutField(Prefixed, inner)
  BY DEF PutPacket, v, h
<1> HIDE DEF inner
<1>12. FieldReads(Prefixed, inner, buf, at)
  BY <1>10, FieldReadsBack
<1>13. \A next : PacketOf(inner, Got(h, 1 + Len(v)), next) = Got(p, next)
  <2> DEFINE header == Got(h, 1 + Len(v))
  <2>1. header.ok /\ header.value = h /\ header.next = 1 + Len(v)
    BY DEF Got
  <2> HIDE DEF header
  <2> SUFFICES ASSUME NEW next PROVE PacketOf(inner, header, next) = Got(p, next)
    BY DEF header
  <2> DEFINE q == [id |-> h % 1024, sender |-> (h \div 1024) % 4, target |-> (h \div 4096) % 4,
                   body |-> SubSeq(inner, 1 + Len(v), Len(inner))]
  <2>2. PacketOf(inner, header, next) = Got(q, next)
    BY <2>1 DEF PacketOf
  <2>3. q = p
    BY <1>2, <1>3, <1>9
  <2> HIDE DEF q
  <2> QED
    BY <2>2, <2>3
<1>14. ASSUME At(buf, at, PutPacket(p))
       PROVE  NextPacket(buf, at) = Got(p, at + Len(PutPacket(p)))
  <2> DEFINE got == TakeField(Prefixed, buf, at)
             next == at + Len(PutPacket(p))
  <2>1. Prefixed.of # "literal"
    BY DEF Prefixed
  <2>2. IsRead(got, inner, next)
    BY <1>11, <1>12, <1>14, <2>1 DEF FieldReads
  <2> HIDE DEF got, next
  <2>3. TakePacket(got) = PacketOf(inner, Got(h, 1 + Len(v)), next)
    BY <1>8, <2>2 DEF TakePacket, IsRead
  <2> QED
    BY <1>13, <2>3 DEF NextPacket, got, next
<1> QED
  BY <1>11, <1>12, <1>14 DEF FieldReads

\* A packet of a batch is never without bytes, so a reader always moves.
LEMMA PutPacketLong ==
  ASSUME NEW p \in Packet
  PROVE  Len(PutPacket(p)) \in Nat /\ Len(PutPacket(p)) >= 1
<1> DEFINE buf == PutPacket(p)
<1>1. <<>> \in Seq(Byte)
  OBVIOUS
<1>2. buf \in Seq(Byte)
  BY <1>1, PacketReadsBack
<1>3. Len(buf) \in Nat
  BY <1>2
<1>4. At(buf, 1, buf)
  <2> HIDE DEF buf
  <2>1. 1 + Len(buf) - 1 <= Len(buf) /\ \A i \in 1 .. Len(buf) : 1 + i - 1 = i
    BY <1>3
  <2> QED
    BY <2>1 DEF At
<1>5. NextPacket(buf, 1) = Got(p, 1 + Len(buf))
  BY <1>2, <1>4, PacketReadsBack
<1>6. NextPacket(buf, 1).ok /\ NextPacket(buf, 1).next = 1 + Len(buf)
  BY <1>5 DEF Got
<1>7. 1 + Len(buf) > 1
  <2> HIDE DEF buf
  <2> QED
    BY <1>2, <1>6, PacketMoves
<1> HIDE DEF buf
<1>8. Len(buf) >= 1
  BY <1>3, <1>7
<1> QED
  BY <1>3, <1>8 DEF buf

\* A batch is its packets, one after the other.
LEMMA EncodedIs ==
  ASSUME NEW packets \in Seq(Packet)
  PROVE  \E parts : /\ parts \in Seq(Seq(Byte)) /\ Len(parts) = Len(packets)
                    /\ EncodePackets(packets) = Concat(parts)
                    /\ \A k \in 1 .. Len(packets) : parts[k] = PutPacket(packets[k])
<1> DEFINE m == Len(packets)
           parts == [k \in 1 .. m |-> PutPacket(packets[k])]
<1>1. m \in Nat /\ DOMAIN packets = 1 .. m /\ \A k \in 1 .. m : packets[k] \in Packet
  <2> HIDE DEF Packet
  <2> QED
    OBVIOUS
<1>2. <<>> \in Seq(Byte)
  OBVIOUS
<1>3. \A k \in 1 .. m : PutPacket(packets[k]) \in Seq(Byte)
  <2> SUFFICES ASSUME NEW k \in 1 .. m PROVE PutPacket(packets[k]) \in Seq(Byte)
    OBVIOUS
  <2>1. packets[k] \in Packet
    BY <1>1
  <2> QED
    BY <1>2, <2>1, PacketReadsBack
<1>4. EncodePackets(packets) = Concat(parts)
  BY <1>1 DEF EncodePackets, PutPacket
<1> HIDE DEF m
<1>5. parts \in Seq(Seq(Byte)) /\ Len(parts) = m
  BY <1>1, <1>3
<1>6. \A k \in 1 .. m : parts[k] = PutPacket(packets[k])
  OBVIOUS
<1> HIDE DEF parts
<1> QED
  BY <1>4, <1>5, <1>6 DEF m

\* One packet, and those behind it.
LEMMA BeforeTail ==
  ASSUME NEW packets \in Seq(Packet), NEW k \in 0 .. (Len(packets) - 1), NEW a, NEW b
  PROVE  Before(Got(packets[k + 1], a), Got(SubSeq(packets, k + 2, Len(packets)), b))
           = Got(SubSeq(packets, k + 1, Len(packets)), b)
<1> DEFINE m == Len(packets)
           t == SubSeq(packets, k + 2, m)
           u == SubSeq(packets, k + 1, m)
           n == m - (k + 1)
<1> HIDE DEF Packet
<1>1. m \in Nat /\ k \in Nat /\ k + 1 <= m /\ n \in Nat
  OBVIOUS
<1>2. t = [i \in 1 .. n |-> packets[k + 1 + i]]
  <2>1. m - (k + 2) + 1 = n /\ \A i \in 1 .. n : (k + 2) + i - 1 = k + 1 + i
    BY <1>1
  <2>2. t = [i \in 1 .. (m - (k + 2) + 1) |-> packets[(k + 2) + i - 1]]
    <3> HIDE DEF m
    <3> QED
      BY <1>1
  <2> HIDE DEF t, m, n
  <2> QED
    BY <2>1, <2>2
<1>3. u = [i \in 1 .. (1 + n) |-> packets[k + i]]
  <2>1. m - (k + 1) + 1 = 1 + n /\ \A i \in 1 .. (1 + n) : (k + 1) + i - 1 = k + i
    BY <1>1
  <2>2. u = [i \in 1 .. (m - (k + 1) + 1) |-> packets[(k + 1) + i - 1]]
    <3> HIDE DEF m
    <3> QED
      BY <1>1
  <2> HIDE DEF u, m, n
  <2> QED
    BY <2>1, <2>2
<1> HIDE DEF t, u, n
<1>4. t \in Seq(Packet) /\ Len(t) = n
  <2>1. \A i \in 1 .. n : packets[k + 1 + i] \in Packet
    <3> SUFFICES ASSUME NEW i \in 1 .. n PROVE packets[k + 1 + i] \in Packet
      OBVIOUS
    <3>1. k + 1 + i \in 1 .. m
      BY <1>1 DEF n
    <3> QED
      BY <3>1
  <2> QED
    BY <1>1, <1>2, <2>1
<1>5. <<packets[k + 1]>> \o t = [i \in 1 .. (1 + n) |-> IF i = 1 THEN packets[k + 1] ELSE t[i - 1]]
  <2>1. Len(<<packets[k + 1]>>) = 1 /\ <<packets[k + 1]>> \in Seq({packets[k + 1]})
    OBVIOUS
  <2> HIDE DEF m
  <2> QED
    BY <1>1, <1>4, <2>1
<1>6. ASSUME NEW i \in 1 .. (1 + n)
      PROVE  (IF i = 1 THEN packets[k + 1] ELSE t[i - 1]) = packets[k + i]
  <2>1. CASE i = 1
    BY <2>1
  <2>2. CASE i # 1
    <3>1. i - 1 \in 1 .. n /\ k + 1 + (i - 1) = k + i
      BY <1>1, <2>2
    <3> HIDE DEF m
    <3> QED
      BY <1>2, <2>2, <3>1
  <2> QED
    BY <2>1, <2>2
<1>7. <<packets[k + 1]>> \o t = u
  <2> HIDE DEF m
  <2> QED
    BY <1>3, <1>5, <1>6
<1> QED
  BY <1>7 DEF Before, Got, t, u, m

\* Packets that fill the rest of a buffer.
LEMMA PacketsReadBack ==
  ASSUME NEW packets \in Seq(Packet), NEW buf \in Seq(Byte), NEW at,
         At(buf, at, EncodePackets(packets)), at + Len(EncodePackets(packets)) = Len(buf) + 1
  PROVE  DecodePackets(buf, at) = Got(packets, Len(buf) + 1)
<1> DEFINE m == Len(packets)
           l == Len(buf)
<1>1. m \in Nat /\ l \in Nat /\ at \in Nat /\ at >= 1
  <2>1. at \in Nat \ {0}
    BY DEF At
  <2> HIDE DEF Byte, Packet
  <2> QED
    BY <2>1
<1>2. PICK parts : /\ parts \in Seq(Seq(Byte)) /\ Len(parts) = m
                   /\ EncodePackets(packets) = Concat(parts)
                   /\ \A k \in 1 .. m : parts[k] = PutPacket(packets[k])
  BY EncodedIs
<1>3. PICK put : /\ put[0] = <<>> /\ put[m] = Concat(parts)
                 /\ \A k \in 0 .. m : put[k] \in Seq(Byte)
                 /\ \A k \in 0 .. (m - 1) : put[k + 1] = put[k] \o parts[k + 1]
  BY <1>2, Putting
<1>4. \A k \in 0 .. (m - 1) : At(buf, at + Len(put[k]), parts[k + 1])
  BY <1>2, <1>3, PartsStand
<1>5. \A k \in 1 .. m : packets[k] \in Packet
  <2> HIDE DEF Packet
  <2> QED
    OBVIOUS
<1>6. at + Len(put[m]) = l + 1
  BY <1>2, <1>3
<1> HIDE DEF l
<1> DEFINE stand(k) == at + Len(put[k])
           Reads(k) == DecodePackets(buf, stand(k)) = Got(SubSeq(packets, k + 1, m), l + 1)
           T == {j \in 0 .. m : Reads(m - j)}
<1>7. 0 \in T
  <2>1. l + 1 \in Nat \ {0} /\ l + 1 > l
    BY <1>1
  <2>2. DecodePackets(buf, l + 1) = Got(<<>>, l + 1)
    BY <2>1, DecodeIs DEF l
  <2>3. SubSeq(packets, m + 1, m) = <<>>
    <3> HIDE DEF Packet
    <3> QED
      BY <1>1
  <2>4. m - 0 = m /\ 0 \in 0 .. m
    BY <1>1
  <2> HIDE DEF m
  <2> QED
    BY <1>6, <2>2, <2>3, <2>4
<1>8. ASSUME NEW j \in 0 .. (m - 1), j \in T PROVE j + 1 \in T
  <2> DEFINE k == m - (j + 1)
             p == packets[k + 1]
             rest == SubSeq(packets, k + 2, m)
  <2>1. k \in 0 .. (m - 1) /\ k + 1 \in 1 .. m /\ k \in 0 .. m /\ m - j = k + 1 /\ j + 1 \in 0 .. m
    <3> HIDE DEF m
    <3> QED
      BY <1>1
  <2>2. Reads(k + 1)
    BY <1>8, <2>1
  <2> HIDE DEF k
  <2>3. p \in Packet /\ parts[k + 1] = PutPacket(p)
    BY <1>2, <1>5, <2>1
  <2> HIDE DEF p
  <2>4. At(buf, stand(k), PutPacket(p))
    BY <1>4, <2>1, <2>3
  <2>5. NextPacket(buf, stand(k)) = Got(p, stand(k) + Len(PutPacket(p)))
    BY <2>3, <2>4, PacketReadsBack
  <2>6. stand(k) \in Nat \ {0} /\ stand(k) <= l /\ stand(k) + Len(PutPacket(p)) = stand(k + 1)
    <3>1. PutPacket(p) \in Seq(Byte) /\ put[k] \in Seq(Byte) /\ put[k + 1] = put[k] \o PutPacket(p)
      BY <1>3, <2>1, <2>3, PacketReadsBack
    <3>2. Len(put[k + 1]) = Len(put[k]) + Len(PutPacket(p)) /\ Len(put[k]) \in Nat
      <4> HIDE DEF Byte
      <4> QED
        BY <3>1
    <3>3. Len(PutPacket(p)) \in Nat /\ Len(PutPacket(p)) >= 1
      BY <2>3, PutPacketLong
    <3>4. stand(k) + Len(PutPacket(p)) - 1 <= l
      BY <2>4 DEF At, l
    <3> DEFINE was == Len(put[k])
               more == Len(PutPacket(p))
    <3>5. was \in Nat /\ more \in Nat /\ more >= 1 /\ stand(k) = at + was /\ stand(k + 1) = at + (was + more)
          /\ stand(k) + more - 1 <= l
      BY <3>2, <3>3, <3>4
    <3> HIDE DEF was, more, stand
    <3>6. stand(k) \in Nat \ {0} /\ stand(k) <= l /\ stand(k) + more = stand(k + 1)
      BY <1>1, <3>5
    <3> QED
      BY <3>6 DEF more
  <2>7. DecodePackets(buf, stand(k + 1)) = Got(rest, l + 1)
    <3>1. (k + 1) + 1 = k + 2
      BY <2>1
    <3> QED
      BY <2>2, <3>1
  <2> HIDE DEF stand, rest, T, Reads
  <2>8. NextPacket(buf, stand(k)).ok /\ NextPacket(buf, stand(k)).next = stand(k + 1)
    BY <2>5, <2>6 DEF Got
  <2>9. DecodePackets(buf, stand(k)) = Onwards(NextPacket(buf, stand(k)), DecodePackets(buf, stand(k + 1)))
    <3>1. ~ (stand(k) > l)
      BY <1>1, <2>6
    <3> QED
      BY <2>6, <2>8, <3>1, DecodeIs DEF l
  <2>10. DecodePackets(buf, stand(k)) = Before(Got(p, stand(k + 1)), Got(rest, l + 1))
    BY <2>5, <2>6, <2>7, <2>8, <2>9 DEF Onwards
  <2>11. Before(Got(p, stand(k + 1)), Got(rest, l + 1)) = Got(SubSeq(packets, k + 1, m), l + 1)
    BY <2>1, BeforeTail DEF p, rest, m
  <2>12. Reads(k)
    BY <2>10, <2>11 DEF Reads
  <2> QED
    BY <2>1, <2>12 DEF T, k
<1>9. \A j \in 0 .. m : j \in T
  <2> HIDE DEF T, m
  <2> QED
    BY <1>1, <1>7, <1>8, Joining!UpTo
<1>10. Reads(0)
  <2>1. m \in 0 .. m /\ m - m = 0
    BY <1>1
  <2> QED
    BY <1>9, <2>1
<1>11. stand(0) = at
  <2>1. Len(<<>>) = 0
    OBVIOUS
  <2> QED
    BY <1>1, <1>3, <2>1
<1>12. SubSeq(packets, 0 + 1, m) = packets
  <2>1. 0 + 1 = 1 /\ m - 1 + 1 = m /\ \A i \in 1 .. m : 1 + i - 1 = i
    BY <1>1
  <2>2. SubSeq(packets, 1, m) = [i \in 1 .. (m - 1 + 1) |-> packets[1 + i - 1]]
    <3> HIDE DEF Packet
    <3> QED
      BY <1>1
  <2>3. packets = [i \in 1 .. m |-> packets[i]]
    OBVIOUS
  <2> HIDE DEF m
  <2> QED
    BY <2>1, <2>2, <2>3
<1> QED
  BY <1>10, <1>11, <1>12 DEF l

\* A batch is bytes.
LEMMA BatchBytes ==
  ASSUME NEW packets \in Seq(Packet)
  PROVE  EncodePackets(packets) \in Seq(Byte)
<1>1. PICK parts : parts \in Seq(Seq(Byte)) /\ EncodePackets(packets) = Concat(parts)
  BY EncodedIs
<1> QED
  BY <1>1, ConcatBytes

\* Behind a head of any bytes.
LEMMA BehindHead ==
  ASSUME NEW packets \in Seq(Packet), NEW head \in Seq(Byte)
  PROVE  DecodePackets(head \o EncodePackets(packets), Len(head) + 1)
           = Got(packets, Len(head \o EncodePackets(packets)) + 1)
<1> DEFINE e == EncodePackets(packets)
           n == Len(e)
           h == Len(head)
           buf == head \o e
           at == h + 1
<1>1. e \in Seq(Byte)
  BY BatchBytes
<1> HIDE DEF e
<1>2. buf \in Seq(Byte) /\ Len(buf) = h + n /\ h \in Nat /\ n \in Nat
      /\ \A i \in 1 .. n : buf[h + i] = e[i]
  <2> HIDE DEF Byte
  <2> QED
    BY <1>1
<1> HIDE DEF buf, h
<1>3. at \in Nat \ {0} /\ at + n - 1 <= Len(buf) /\ at + n = Len(buf) + 1
      /\ \A i \in 1 .. n : at + i - 1 = h + i
  <2> HIDE DEF n
  <2> QED
    BY <1>2
<1>4. At(buf, at, e)
  <2>1. \A i \in 1 .. n : buf[at + i - 1] = e[i]
    BY <1>2, <1>3
  <2> QED
    BY <1>3, <2>1 DEF At
<1> HIDE DEF at
<1>5. DecodePackets(buf, at) = Got(packets, Len(buf) + 1)
  <2>1. At(buf, at, EncodePackets(packets)) /\ at + Len(EncodePackets(packets)) = Len(buf) + 1
    BY <1>3, <1>4 DEF e
  <2> QED
    BY <1>2, <2>1, PacketsReadBack
<1> QED
  BY <1>5 DEF buf, e, at, h

\* A batch says what was put in it, framed either way: batch.rs's decode of its
\* encode returns every packet, in order and whole, with the id and both
\* subclients of its header, whatever their number and their bodies, and reads
\* the batch to its end.
THEOREM BatchReadsBack ==
  ASSUME NEW packets \in Seq(Packet)
  PROVE  /\ Decode(Encode(packets)) = Got(packets, Len(Encode(packets)) + 1)
         /\ DecodeWithMethod(EncodeWithMethod(packets))
              = Got(packets, Len(EncodeWithMethod(packets)) + 1)
<1> DEFINE e == EncodePackets(packets)
<1>1. e \in Seq(Byte)
  BY BatchBytes
<1>2. /\ <<MARKER>> \in Seq(Byte) /\ Len(<<MARKER>>) = 1
      /\ <<MARKER, MethodNone>> \in Seq(Byte) /\ Len(<<MARKER, MethodNone>>) = 2
  BY DEF MARKER, MethodNone, Byte
<1>3. DecodePackets(Encode(packets), 2) = Got(packets, Len(Encode(packets)) + 1)
  <2>1. Len(<<MARKER>>) + 1 = 2
    BY <1>2
  <2> QED
    BY <1>2, <2>1, BehindHead DEF Encode
<1>4. DecodePackets(EncodeWithMethod(packets), 3) = Got(packets, Len(EncodeWithMethod(packets)) + 1)
  <2>1. Len(<<MARKER, MethodNone>>) + 1 = 3
    BY <1>2
  <2> QED
    BY <1>2, <2>1, BehindHead DEF EncodeWithMethod
<1>5. Encode(packets) # <<>> /\ Encode(packets)[1] = MARKER
  <2> HIDE DEF Byte, e
  <2>1. \A a : a = <<MARKER>> \o e => a # <<>> /\ a[1] = MARKER
    BY <1>1
  <2> QED
    BY <2>1 DEF Encode, e
<1>6. Len(EncodeWithMethod(packets)) > 1 /\ EncodeWithMethod(packets)[1] = MARKER
      /\ EncodeWithMethod(packets)[2] = MethodNone
  <2> HIDE DEF Byte, e
  <2>1. \A a : a = <<MARKER, MethodNone>> \o e => Len(a) > 1 /\ a[1] = MARKER /\ a[2] = MethodNone
    BY <1>1
  <2> QED
    BY <2>1 DEF EncodeWithMethod, e
<1> HIDE DEF e
<1>7. Decode(Encode(packets)) = DecodePackets(Encode(packets), 2)
  BY <1>5 DEF Decode
<1>8. DecodeWithMethod(EncodeWithMethod(packets)) = DecodePackets(EncodeWithMethod(packets), 3)
  BY <1>6 DEF DecodeWithMethod
<1> QED
  BY <1>3, <1>4, <1>7, <1>8
-----------------------------------------------------------------------------
(* How long a packet of the game gets.                                      *)

\* What a packet may weigh, field by field: no field here is longer than a
\* login's client data, and no layout has more than a hundred fields.
FieldMost == 20000000
BodyMost == 19000000

Small(kind, v) ==
  \/ kind.of \in {"big", "little"} /\ kind.width <= 100
  \/ kind.of \in {"varint", "zigzag", "float"}
  \/ kind.of = "literal" /\ Len(kind.bytes) <= 100
  \/ kind.of \in {"prefixed", "section"} /\ Len(v) <= BodyMost

Stands(field, rec) ==
  FitsField(field[2], ValueFor(field, rec)) /\ Small(field[2], ValueFor(field, rec))

\* Whether a record makes a packet that can be sent and read again.
Sendable(layout, rec) == \A k \in DOMAIN layout : Stands(layout[k], rec)

LEMMA JoinedLong ==
  ASSUME NEW a \in Seq(Byte), NEW b \in Seq(Byte)
  PROVE  a \o b \in Seq(Byte) /\ Len(a \o b) = Len(a) + Len(b) /\ Len(a) \in Nat /\ Len(b) \in Nat
<1> HIDE DEF Byte
<1> QED
  OBVIOUS

\* Joined parts are no longer than as many of the longest.
LEMMA ConcatLong ==
  ASSUME NEW parts \in Seq(Seq(Byte)), NEW most \in Nat, \A k \in 1 .. Len(parts) : Len(parts[k]) <= most
  PROVE  Len(Concat(parts)) <= Len(parts) * most
<1> DEFINE m == Len(parts)
<1>1. m \in Nat
  OBVIOUS
<1>2. PICK put : /\ put[0] = <<>> /\ put[m] = Concat(parts)
                 /\ \A k \in 0 .. m : put[k] \in Seq(Byte)
                 /\ \A k \in 0 .. (m - 1) : put[k + 1] = put[k] \o parts[k + 1]
  BY Putting
<1>3. \A k \in 1 .. m : parts[k] \in Seq(Byte) /\ Len(parts[k]) <= most
  OBVIOUS
<1> HIDE DEF m
<1> DEFINE T == {k \in 0 .. m : Len(put[k]) <= k * most}
<1>4. 0 \in T
  <2>1. Len(put[0]) = 0
    BY <1>2
  <2>2. 0 <= 0 * most
    OBVIOUS
  <2> QED
    BY <1>1, <2>1, <2>2
<1>5. ASSUME NEW k \in 0 .. (m - 1), k \in T PROVE k + 1 \in T
  <2> DEFINE part == parts[k + 1]
             a == Len(put[k])
             b == Len(part)
  <2>1. k \in 0 .. m /\ k + 1 \in 0 .. m /\ k + 1 \in 1 .. m /\ k \in Nat
    BY <1>1
  <2>2. part \in Seq(Byte) /\ put[k] \in Seq(Byte) /\ put[k + 1] = put[k] \o part /\ b <= most
    BY <1>2, <1>3, <2>1
  <2>3. Len(put[k + 1]) = a + b /\ a \in Nat /\ b \in Nat
    <3> HIDE DEF part
    <3> QED
      BY <2>2, JoinedLong
  <2>4. a <= k * most
    BY <1>5
  <2> HIDE DEF a, b
  <2>5. a + b <= (k + 1) * most
    BY <2>1, <2>2, <2>3, <2>4
  <2> QED
    BY <2>1, <2>3, <2>5
<1>6. \A k \in 0 .. m : k \in T
  <2> HIDE DEF T
  <2> QED
    BY <1>1, <1>4, <1>5, Joining!UpTo
<1>7. m \in 0 .. m
  BY <1>1
<1>8. Len(put[m]) <= m * most
  BY <1>6, <1>7
<1> QED
  BY <1>2, <1>8 DEF m

\* A field that holds a number or is a literal is short.
LEMMA NumberLong ==
  ASSUME NEW kind, NEW v, FitsField(kind, v), Small(kind, v), kind.of \notin {"prefixed", "section"}
  PROVE  Len(PutField(kind, v)) <= 100
<1>1. CASE kind.of = "big"
  <2>1. FitsWidth(v, kind.width) /\ kind.width <= 100
    BY <1>1 DEF FitsField, Small
  <2>2. v \in Nat /\ kind.width \in Nat
    BY <2>1 DEF FitsWidth
  <2>3. Len(BigEndian(v, kind.width)) = kind.width
    BY <2>2, BigLength DEF IsBytes
  <2> QED
    BY <1>1, <2>1, <2>2, <2>3, PutIs
<1>2. CASE kind.of = "little"
  <2>1. FitsWidth(v, kind.width) /\ kind.width <= 100
    BY <1>2 DEF FitsField, Small
  <2>2. v \in Nat /\ kind.width \in Nat
    BY <2>1 DEF FitsWidth
  <2>3. Len(LittleEndian(v, kind.width)) = kind.width
    BY <2>2, LittleLength DEF IsBytes
  <2> QED
    BY <1>2, <2>1, <2>2, <2>3, PutIs
<1>3. CASE kind.of = "varint"
  <2>1. v \in Nat /\ v <= MostVaried
    BY <1>3 DEF FitsField, FitsVarint
  <2>2. Len(Varint[v]) <= 5 /\ Len(Varint[v]) \in Nat
    BY <2>1, VarintLength, VarintShape DEF IsVaried
  <2> QED
    BY <1>3, <2>2, PutIs
<1>4. CASE kind.of = "zigzag"
  <2> DEFINE z == ZigZag(v)
  <2>1. z \in Nat /\ z <= MostVaried
    BY <1>4 DEF FitsField, FitsVarint
  <2> HIDE DEF z
  <2>2. Len(Varint[z]) <= 5 /\ Len(Varint[z]) \in Nat
    BY <2>1, VarintLength, VarintShape DEF IsVaried
  <2> QED
    BY <1>4, <2>2, PutIs DEF z
<1>5. CASE kind.of = "float"
  <2> DEFINE z == ZigZag(v)
  <2>1. z \in Nat
    BY <1>5 DEF FitsField, FitsWidth
  <2> HIDE DEF z
  <2> DEFINE w == 4
  <2>2. w \in Nat /\ w <= 100
    OBVIOUS
  <2>3. PutField(kind, v) = LittleEndian(z, w)
    BY <1>5, PutIs DEF z
  <2> HIDE DEF w
  <2>4. Len(LittleEndian(z, w)) = w
    BY <2>1, <2>2, LittleLength DEF IsBytes
  <2> QED
    BY <2>2, <2>3, <2>4
<1>6. CASE kind.of = "literal"
  <2>1. Len(kind.bytes) <= 100 /\ kind.bytes \in Seq(Byte)
    BY <1>6 DEF FitsField, Small
  <2>2. Len(kind.bytes) \in Nat
    BY <2>1
  <2>3. PutField(kind, v) = kind.bytes
    BY <1>6, PutIs
  <2> QED
    BY <2>1, <2>2, <2>3
<1> QED
  BY <1>1, <1>2, <1>3, <1>4, <1>5, <1>6 DEF Small

LEMMA NothingBefore ==
  ASSUME NEW kind, NEW v, FitsField(kind, v)
  PROVE  PutField(kind, v) \in Seq(Byte)
<1>1. <<>> \in Seq(Byte)
  OBVIOUS
<1>2. FieldReads(kind, v, <<>>, 1)
  BY <1>1, FieldReadsBack
<1> QED
  BY <1>2 DEF FieldReads

\* Every field, written, is short.
LEMMA FieldLong ==
  ASSUME NEW kind, NEW v, FitsField(kind, v), Small(kind, v)
  PROVE  Len(PutField(kind, v)) <= FieldMost
<1>1. CASE kind.of \notin {"prefixed", "section"}
  <2>1. Len(PutField(kind, v)) <= 100
    BY <1>1, NumberLong
  <2>2. PutField(kind, v) \in Seq(Byte)
    BY NothingBefore
  <2>3. Len(PutField(kind, v)) \in Nat
    BY <2>2
  <2> QED
    BY <2>1, <2>3 DEF FieldMost
<1>2. CASE kind.of = "prefixed"
  <2>1. v \in Seq(Byte) /\ Len(v) <= MostVaried /\ Len(v) <= BodyMost
    BY <1>2 DEF FitsField, Small
  <2> DEFINE n == Len(v)
             head == Varint[n]
  <2>2. n \in Nat /\ n <= MostVaried
    BY <2>1
  <2>3. head \in Seq(Byte) /\ Len(head) <= 5 /\ Len(head) \in Nat
    BY <2>2, VarintLength, VarintShape DEF IsVaried
  <2>4. PutField(kind, v) = head \o v
    BY <1>2, PutIs
  <2> HIDE DEF head, Byte
  <2>5. Len(head \o v) = Len(head) + n
    <3>1. head \in Seq(Byte) /\ v \in Seq(Byte)
      BY <2>1, <2>3
    <3> QED
      BY <3>1, JoinedLong
  <2> HIDE DEF n
  <2>6. n <= BodyMost
    BY <2>1 DEF n
  <2> QED
    BY <2>2, <2>3, <2>4, <2>5, <2>6 DEF FieldMost, BodyMost
<1>3. CASE kind.of = "section"
  <2>1. v \in Seq(Byte) /\ Len(v) <= BodyMost
    BY <1>3 DEF FitsField, Small
  <2> DEFINE n == Len(v)
             head == LittleEndian(n, 4)
  <2>2. n \in Nat
    BY <2>1
  <2>3. head \in Seq(Byte) /\ Len(head) = 4
    <3> DEFINE w == 4
    <3>1. w \in Nat
      OBVIOUS
    <3>2. head = LittleEndian(n, w)
      OBVIOUS
    <3> HIDE DEF w, n, head
    <3>3. IsBytes(head, w)
      BY <2>2, <3>1, <3>2, LittleLength
    <3> QED
      BY <3>3 DEF IsBytes, w
  <2>4. PutField(kind, v) = head \o v
    BY <1>3, PutIs
  <2> HIDE DEF head, Byte
  <2>5. Len(head \o v) = Len(head) + n
    <3>1. head \in Seq(Byte) /\ v \in Seq(Byte)
      BY <2>1, <2>3
    <3> QED
      BY <3>1, JoinedLong
  <2> HIDE DEF n
  <2>6. n <= BodyMost
    BY <2>1 DEF n
  <2> QED
    BY <2>2, <2>3, <2>4, <2>5, <2>6 DEF FieldMost, BodyMost
<1> QED
  BY <1>1, <1>2, <1>3

-----------------------------------------------------------------------------
(* Packets the server and its client put in a batch: what is read of each is*)
(* what was written.                                                        *)

LEMMA WholeStands == ASSUME NEW s \in Seq(Byte) PROVE At(s, 1, s)
<1>1. Len(s) \in Nat /\ \A i \in 1 .. Len(s) : s[1 + i - 1] = s[i]
  OBVIOUS
<1> QED
  BY <1>1 DEF At

\* What can be sent is a packet body, and reads as what was sent.
LEMMA Sent ==
  ASSUME NEW S, NEW layout \in Seq(S), Len(layout) <= 100, NEW rec, Sendable(layout, rec)
  PROVE  /\ Write(layout, rec) \in Seq(Byte) /\ Len(Write(layout, rec)) + 5 <= MostVaried
         /\ Read(layout, Write(layout, rec), 1)
              = Got(Known(layout, rec, Len(layout)), 1 + Len(Write(layout, rec)))
<1> DEFINE m == Len(layout)
           parts == FieldParts(layout, rec)
           w == Write(layout, rec)
<1>1. m \in Nat /\ DOMAIN layout = 1 .. m
  OBVIOUS
<1>2. FitsLayout(layout, rec)
  BY DEF FitsLayout, Sendable, Stands
<1>3. parts \in Seq(Seq(Byte)) /\ Len(parts) = m /\ w = Concat(parts) /\ w \in Seq(Byte)
  BY <1>2, PartsAre
<1>4. ASSUME NEW k \in 1 .. m PROVE Len(parts[k]) <= FieldMost
  <2>1. Stands(layout[k], rec)
    BY <1>1 DEF Sendable
  <2>2. Len(PutField(layout[k][2], ValueFor(layout[k], rec))) <= FieldMost
    BY <2>1, FieldLong DEF Stands
  <2>3. parts[k] = PutField(layout[k][2], ValueFor(layout[k], rec))
    BY <1>1 DEF FieldParts
  <2> QED
    BY <2>2, <2>3
<1> HIDE DEF parts
<1>5. Len(w) <= m * FieldMost
  <2>1. FieldMost \in Nat
    BY DEF FieldMost
  <2> QED
    BY <1>3, <1>4, <2>1, ConcatLong
<1>6. Len(w) + 5 <= MostVaried
  <2> DEFINE n == Len(w)
  <2>1. n \in Nat
    BY <1>3
  <2>2. n <= m * FieldMost /\ m \in Nat /\ m <= 100
    BY <1>1, <1>5
  <2> HIDE DEF n, m
  <2>3. m * FieldMost <= 100 * FieldMost
    BY <2>2 DEF FieldMost
  <2> HIDE DEF m
  <2>4. n <= 2000000000
    BY <2>1, <2>2, <2>3 DEF FieldMost
  <2> QED
    BY <2>1, <2>4 DEF n, MostVaried
<1>7. At(w, 1, w)
  BY <1>3, WholeStands
<1> HIDE DEF w
<1>8. Read(layout, w, 1) = Got(Known(layout, rec, m), 1 + Len(w))
  <2>1. At(w, 1, Write(layout, rec))
    BY <1>7 DEF w
  <2>2. w \in Seq(Byte)
    BY <1>3
  <2>3. Read(layout, w, 1) = Got(Known(layout, rec, Len(layout)), 1 + Len(Write(layout, rec)))
    BY <1>2, <2>1, <2>2, WrittenReadsBack
  <2> QED
    BY <2>3 DEF w
<1> QED
  BY <1>3, <1>6, <1>8 DEF w

\* A named field is among those read.
LEMMA KnownHas ==
  ASSUME NEW S, NEW layout \in Seq(S), NEW rec, NEW j \in 1 .. Len(layout), ~ IsLiteral(layout[j])
  PROVE  Known(layout, rec, Len(layout))[layout[j][1]] = rec[layout[j][1]]
<1>1. layout[j][1] \in Names(layout, Len(layout))
  BY DEF Names
<1> QED
  BY <1>1 DEF Known

\* A number for it, and a body that fits, make a packet.
LEMMA IsPacket ==
  ASSUME NEW id \in Nat, id < 1024, NEW body \in Seq(Byte), Len(body) + 5 <= MostVaried
  PROVE  NewPacket(id, body) \in Packet
<1>1. 0 \in 0 .. 3
  OBVIOUS
<1>2. id \in 0 .. 1023
  OBVIOUS
<1> HIDE DEF Byte
<1>3. NewPacket(id, body) \in [id : 0 .. 1023, sender : 0 .. 3, target : 0 .. 3, body : Seq(Byte)]
  BY <1>1, <1>2 DEF NewPacket
<1>4. NewPacket(id, body).body = body
  BY DEF NewPacket
<1> QED
  BY <1>3, <1>4 DEF Packet

\* So does what can be written along a layout.
LEMMA SentPacket ==
  ASSUME NEW S, NEW layout \in Seq(S), Len(layout) <= 100, NEW rec, Sendable(layout, rec),
         NEW id \in Nat, id < 1024
  PROVE  NewPacket(id, Write(layout, rec)) \in Packet
<1>1. Write(layout, rec) \in Seq(Byte) /\ Len(Write(layout, rec)) + 5 <= MostVaried
  BY Sent
<1> QED
  BY <1>1, IsPacket

\* Layouts one behind the other.
LEMMA SendableJoined ==
  ASSUME NEW S, NEW a \in Seq(S), NEW b \in Seq(S), NEW rec, Sendable(a, rec), Sendable(b, rec)
  PROVE  Sendable(a \o b, rec)
<1> SUFFICES ASSUME NEW k \in DOMAIN (a \o b) PROVE Stands((a \o b)[k], rec)
  BY DEF Sendable
<1>1. Len(a) \in Nat /\ Len(b) \in Nat /\ Len(a \o b) = Len(a) + Len(b) /\ k \in 1 .. (Len(a) + Len(b))
  OBVIOUS
<1>2. CASE k <= Len(a)
  <2>1. (a \o b)[k] = a[k] /\ k \in DOMAIN a
    BY <1>1, <1>2
  <2> QED
    BY <2>1 DEF Sendable
<1>3. CASE k > Len(a)
  <2>1. (a \o b)[k] = b[k - Len(a)] /\ k - Len(a) \in DOMAIN b
    BY <1>1, <1>3
  <2> QED
    BY <2>1 DEF Sendable
<1> QED
  BY <1>1, <1>2, <1>3

\* A batch of one packet says that packet.
LEMMA OneBatch ==
  ASSUME NEW s \in Packet
  PROVE  /\ DecodeWithMethod(EncodeWithMethod(<<s>>)) = Got(<<s>>, Len(EncodeWithMethod(<<s>>)) + 1)
         /\ Decode(Encode(<<s>>)) = Got(<<s>>, Len(Encode(<<s>>)) + 1)
         /\ DecodePackets(EncodeWithMethod(<<s>>), 3) = Got(<<s>>, Len(EncodeWithMethod(<<s>>)) + 1)
<1>1. <<s>> \in Seq(Packet)
  <2> HIDE DEF Packet
  <2> QED
    OBVIOUS
<1> HIDE DEF Packet
<1>2. DecodeWithMethod(EncodeWithMethod(<<s>>)) = Got(<<s>>, Len(EncodeWithMethod(<<s>>)) + 1)
  BY <1>1, BatchReadsBack
<1>3. Decode(Encode(<<s>>)) = Got(<<s>>, Len(Encode(<<s>>)) + 1)
  BY <1>1, BatchReadsBack
<1>4. DecodeWithMethod(EncodeWithMethod(<<s>>)).ok
  BY <1>2 DEF Got
<1>5. DecodeWithMethod(EncodeWithMethod(<<s>>)) = DecodePackets(EncodeWithMethod(<<s>>), 3)
  BY <1>4 DEF DecodeWithMethod, Failed
<1> QED
  BY <1>2, <1>3, <1>5

\* Fields that stand.
LEMMA ZigStands ==
  ASSUME NEW name, NEW rec, NEW most \in Nat, most >= 5,
         rec[name] \in Int, ZigZag(rec[name]) <= MostVaried
  PROVE  Stands(<<name, Zig(most)>>, rec)
<1> DEFINE v == rec[name]
           z == ZigZag(v)
<1>1. z \in Nat
  BY ZigZagBack
<1>2. ValueFor(<<name, Zig(most)>>, rec) = v /\ <<name, Zig(most)>>[2] = Zig(most)
  BY DEF ValueFor, Zig
<1>3. Zig(most).of = "zigzag" /\ Zig(most).most = most
  BY DEF Zig
<1>4. FitsVarint(z, most)
  BY <1>1 DEF FitsVarint
<1>5. FitsField(Zig(most), v)
  <2> HIDE DEF z
  <2> QED
    BY <1>3, <1>4 DEF FitsField, z
<1>6. Small(Zig(most), v)
  BY <1>3 DEF Small
<1> QED
  BY <1>2, <1>5, <1>6 DEF Stands

LEMMA VarStands ==
  ASSUME NEW name, NEW rec, NEW most \in Nat, most >= 5, rec[name] \in Nat, rec[name] <= MostVaried
  PROVE  Stands(<<name, Var(most)>>, rec)
<1> DEFINE v == rec[name]
<1>2. ValueFor(<<name, Var(most)>>, rec) = v /\ <<name, Var(most)>>[2] = Var(most)
  BY DEF ValueFor, Var
<1>3. Var(most).of = "varint" /\ Var(most).most = most
  BY DEF Var
<1>4. FitsVarint(v, most)
  BY DEF FitsVarint
<1>5. FitsField(Var(most), v)
  BY <1>3, <1>4 DEF FitsField
<1>6. Small(Var(most), v)
  BY <1>3 DEF Small
<1> QED
  BY <1>2, <1>5, <1>6 DEF Stands

LEMMA BigStands ==
  ASSUME NEW name, NEW rec, NEW width \in Nat, width <= 100, rec[name] \in Nat,
         rec[name] <= MostFixed, width <= 3 => rec[name] < Scale(width)
  PROVE  Stands(<<name, Big(width)>>, rec) /\ Stands(<<name, Little(width)>>, rec)
<1> DEFINE v == rec[name]
<1>1. FitsWidth(v, width)
  BY DEF FitsWidth
<1>2. ValueFor(<<name, Big(width)>>, rec) = v /\ <<name, Big(width)>>[2] = Big(width)
  BY DEF ValueFor, Big
<1>3. Big(width).of = "big" /\ Big(width).width = width
  BY DEF Big
<1>4. ValueFor(<<name, Little(width)>>, rec) = v /\ <<name, Little(width)>>[2] = Little(width)
  BY DEF ValueFor, Little
<1>5. Little(width).of = "little" /\ Little(width).width = width
  BY DEF Little
<1>6. FitsField(Big(width), v) /\ Small(Big(width), v)
  BY <1>1, <1>3 DEF FitsField, Small
<1>7. FitsField(Little(width), v) /\ Small(Little(width), v)
  BY <1>1, <1>5 DEF FitsField, Small
<1> QED
  BY <1>2, <1>4, <1>6, <1>7 DEF Stands

LEMMA FloatStands ==
  ASSUME NEW name, NEW rec, rec[name] \in Int, ZigZag(rec[name]) <= MostFixed
  PROVE  Stands(<<name, Float>>, rec)
<1> DEFINE v == rec[name]
           z == ZigZag(v)
<1>1. z \in Nat
  BY ZigZagBack
<1>2. ValueFor(<<name, Float>>, rec) = v /\ <<name, Float>>[2] = Float
  BY DEF ValueFor, Float
<1>3. Float.of = "float"
  BY DEF Float
<1>4. FitsWidth(z, 4)
  BY <1>1 DEF FitsWidth
<1>5. FitsField(Float, v)
  <2> HIDE DEF z
  <2> QED
    BY <1>3, <1>4 DEF FitsField, z
<1>6. Small(Float, v)
  BY <1>3 DEF Small
<1> QED
  BY <1>2, <1>5, <1>6 DEF Stands

LEMMA PrefixedStands ==
  ASSUME NEW name, NEW rec, rec[name] \in Seq(Byte), Len(rec[name]) <= BodyMost
  PROVE  Stands(<<name, Prefixed>>, rec)
<1> DEFINE v == rec[name]
<1>2. ValueFor(<<name, Prefixed>>, rec) = v /\ <<name, Prefixed>>[2] = Prefixed
  BY DEF ValueFor, Prefixed
<1>3. Prefixed.of = "prefixed"
  BY DEF Prefixed
<1>4. Len(v) \in Nat /\ Len(v) <= MostVaried
  BY DEF BodyMost, MostVaried
<1>5. FitsField(Prefixed, v)
  BY <1>3, <1>4 DEF FitsField
<1>6. Small(Prefixed, v)
  BY <1>3 DEF Small
<1> QED
  BY <1>2, <1>5, <1>6 DEF Stands

LEMMA SectionStands ==
  ASSUME NEW name, NEW rec, NEW limit \in Nat, rec[name] \in Seq(Byte), Len(rec[name]) <= limit,
         limit <= BodyMost
  PROVE  Stands(<<name, Section(limit)>>, rec)
<1> DEFINE v == rec[name]
<1>2. ValueFor(<<name, Section(limit)>>, rec) = v /\ <<name, Section(limit)>>[2] = Section(limit)
  BY DEF ValueFor, Section
<1>3. Section(limit).of = "section" /\ Section(limit).limit = limit
  BY DEF Section
<1>4. Len(v) \in Nat /\ Len(v) <= BodyMost
  BY DEF BodyMost
<1>5. FitsWidth(Len(v), 4)
  <2> DEFINE n == Len(v)
  <2>1. n \in Nat /\ n <= MostFixed
    BY <1>4 DEF BodyMost, MostFixed
  <2> HIDE DEF n
  <2>2. FitsWidth(n, 4)
    BY <2>1 DEF FitsWidth
  <2> QED
    BY <2>2 DEF n
<1>6. FitsField(Section(limit), v)
  BY <1>3, <1>5 DEF FitsField
<1>7. Small(Section(limit), v)
  BY <1>3, <1>4 DEF Small
<1> QED
  BY <1>2, <1>6, <1>7 DEF Stands

LEMMA FixedStands ==
  ASSUME NEW bytes \in Seq(Byte), Len(bytes) <= 100, NEW rec
  PROVE  Stands(Fixed(bytes), rec) /\ IsLiteral(Fixed(bytes))
<1>2. ValueFor(Fixed(bytes), rec) = <<>> /\ Fixed(bytes)[2] = Is(bytes)
  BY DEF ValueFor, Fixed, Is
<1>3. Is(bytes).of = "literal" /\ Is(bytes).bytes = bytes
  BY DEF Is
<1>5. FitsField(Is(bytes), <<>>)
  BY <1>3 DEF FitsField
<1>6. Small(Is(bytes), <<>>)
  BY <1>3 DEF Small
<1> QED
  BY <1>2, <1>3, <1>5, <1>6 DEF Stands, IsLiteral

\* The kinds that are no literals.
LEMMA Named ==
  ASSUME NEW name, NEW n
  PROVE  /\ ~ IsLiteral(<<name, Zig(n)>>) /\ ~ IsLiteral(<<name, Var(n)>>)
         /\ ~ IsLiteral(<<name, Big(n)>>) /\ ~ IsLiteral(<<name, Little(n)>>)
         /\ ~ IsLiteral(<<name, Float>>) /\ ~ IsLiteral(<<name, Prefixed>>)
         /\ ~ IsLiteral(<<name, Section(n)>>)
  BY DEF IsLiteral, Zig, Var, Big, Little, Float, Prefixed, Section

LEMMA ZerosAre ==
  ASSUME NEW n \in Nat
  PROVE  Zeros(n) \in Seq(Byte) /\ Len(Zeros(n)) = n
<1>1. 0 \in Byte
  BY DEF Byte
<1> HIDE DEF Byte
<1> QED
  BY <1>1 DEF Zeros

\* A packet that can be sent, and what is read of it.
Says(packet, id, layout, rec) ==
  /\ packet \in Packet /\ packet.id = id
  /\ Read(layout, packet.body, 1).ok
  /\ \A j \in 1 .. Len(layout) :
       ~ IsLiteral(layout[j]) => Read(layout, packet.body, 1).value[layout[j][1]] = rec[layout[j][1]]

\* Told along a layout it can be written along, a packet says what was put in it.
LEMMA SentSays ==
  ASSUME NEW S, NEW layout \in Seq(S), Len(layout) <= 100, NEW rec, Sendable(layout, rec),
         NEW id \in Nat, id < 1024
  PROVE  Says(NewPacket(id, Write(layout, rec)), id, layout, rec)
<1> DEFINE w == Write(layout, rec)
           q == NewPacket(id, w)
<1>1. q \in Packet
  BY SentPacket
<1>2. q.id = id /\ q.body = w
  BY DEF NewPacket
<1>3. Read(layout, w, 1) = Got(Known(layout, rec, Len(layout)), 1 + Len(w))
  BY Sent
<1> HIDE DEF w, q
<1>4. Read(layout, q.body, 1).ok /\ Read(layout, q.body, 1).value = Known(layout, rec, Len(layout))
  BY <1>2, <1>3 DEF Got
<1>5. \A j \in 1 .. Len(layout) :
        ~ IsLiteral(layout[j]) => Known(layout, rec, Len(layout))[layout[j][1]] = rec[layout[j][1]]
  BY KnownHas
<1>6. Says(q, id, layout, rec)
  BY <1>1, <1>2, <1>4, <1>5 DEF Says
<1> QED
  BY <1>6 DEF q, w

LEMMA ByteStands ==
  ASSUME NEW name, NEW rec, rec[name] \in Nat, rec[name] < 256
  PROVE  Stands(<<name, U8>>, rec)
<1> DEFINE one == 1
<1>1. one \in Nat /\ one <= 100 /\ Scale(one) = 256
  BY DEF Scale
<1>2. rec[name] <= MostFixed /\ rec[name] < Scale(one)
  BY <1>1 DEF MostFixed
<1>3. U8 = Big(one)
  BY DEF U8
<1> HIDE DEF one
<1>4. Stands(<<name, Big(one)>>, rec)
  <2>1. rec[name] \in Nat /\ rec[name] <= MostFixed
    BY <1>2
  <2>2. one <= 3 => rec[name] < Scale(one)
    BY <1>2
  <2> HIDE DEF one
  <2>3. one \in Nat /\ one <= 100
    BY <1>1
  <2> QED
    BY <2>1, <2>2, <2>3, BigStands
<1> QED
  BY <1>3, <1>4

\* The widths and limits that occur.
LEMMA WideStands ==
  ASSUME NEW name, NEW rec, rec[name] \in Nat, rec[name] <= MostFixed
  PROVE  /\ Stands(<<name, Big(4)>>, rec)
         /\ Stands(<<name, Little(4)>>, rec)
         /\ Stands(<<name, Little(8)>>, rec)
<1> SUFFICES ASSUME NEW w \in Nat, w > 3, w <= 100
             PROVE  Stands(<<name, Big(w)>>, rec) /\ Stands(<<name, Little(w)>>, rec)
  <2>1. 4 \in Nat /\ 4 > 3 /\ 4 <= 100 /\ 8 \in Nat /\ 8 > 3 /\ 8 <= 100
    OBVIOUS
  <2> QED
    BY <2>1
<1>1. w <= 3 => rec[name] < Scale(w)
  OBVIOUS
<1> QED
  BY <1>1, BigStands

LEMMA PairStands ==
  ASSUME NEW name, NEW rec, rec[name] \in Nat, rec[name] < 256
  PROVE  Stands(<<name, Little(2)>>, rec)
<1> DEFINE two == 2
<1>1. two \in Nat /\ two <= 100 /\ Scale(two) = 65536
  BY DEF Scale
<1>2. rec[name] \in Nat /\ rec[name] <= MostFixed
  BY DEF MostFixed
<1>3. two <= 3 => rec[name] < Scale(two)
  BY <1>1
<1> HIDE DEF two
<1>4. two \in Nat /\ two <= 100
  BY <1>1
<1>5. Stands(<<name, Little(two)>>, rec)
  BY <1>2, <1>3, <1>4, BigStands
<1> QED
  BY <1>5 DEF two

LEMMA SignedStands ==
  ASSUME NEW name, NEW rec, rec[name] \in Int, ZigZag(rec[name]) <= MostVaried
  PROVE  Stands(<<name, Zig(5)>>, rec) /\ Stands(<<name, Zig(10)>>, rec)
<1> SUFFICES ASSUME NEW w \in Nat, w >= 5 PROVE Stands(<<name, Zig(w)>>, rec)
  <2>1. 5 \in Nat /\ 5 >= 5 /\ 10 \in Nat /\ 10 >= 5
    OBVIOUS
  <2> QED
    BY <2>1
<1> QED
  BY ZigStands

LEMMA VariedStands ==
  ASSUME NEW name, NEW rec, rec[name] \in Nat, rec[name] <= MostVaried
  PROVE  Stands(<<name, Var(5)>>, rec) /\ Stands(<<name, Var(10)>>, rec)
<1> SUFFICES ASSUME NEW w \in Nat, w >= 5 PROVE Stands(<<name, Var(w)>>, rec)
  <2>1. 5 \in Nat /\ 5 >= 5 /\ 10 \in Nat /\ 10 >= 5
    OBVIOUS
  <2> QED
    BY <2>1
<1> QED
  BY VarStands

FieldsOf(layout) == {layout[k] : k \in DOMAIN layout}
IsLayout(layout) == layout \in Seq(FieldsOf(layout)) /\ Len(layout) <= 100

\* The same, for a layout that is one.
LEMMA LayoutSays ==
  ASSUME NEW layout, IsLayout(layout), NEW rec, Sendable(layout, rec), NEW id \in Nat, id < 1024
  PROVE  Says(NewPacket(id, Write(layout, rec)), id, layout, rec)
<1> DEFINE S == FieldsOf(layout)
<1>1. layout \in Seq(S) /\ Len(layout) <= 100
  BY DEF IsLayout
<1> HIDE DEF S
<1> QED
  BY <1>1, SentSays

LEMMA RadiusRequestLayout ==
  ASSUME NEW rec, Stands(<<"radius", Zig(5)>>, rec), Stands(<<"max_radius", U8>>, rec)
  PROVE  IsLayout(RadiusRequest) /\ Sendable(RadiusRequest, rec)
<1>1. Sendable(RadiusRequest, rec)
  BY DEF Sendable, RadiusRequest
<1>2. IsLayout(RadiusRequest)
  BY DEF IsLayout, RadiusRequest, FieldsOf
<1> QED
  BY <1>1, <1>2

\* The client's request of a radius.
LEMMA RadiusWantedSays ==
  ASSUME NEW r \in Radii
  PROVE  Says(RadiusWanted(r), ID_REQUEST_CHUNK_RADIUS, RadiusRequest, [radius |-> r, max_radius |-> 16])
<1> DEFINE rec == [radius |-> r, max_radius |-> 16]
<1>1. Stands(<<"radius", Zig(5)>>, rec)
  <2>1. rec["radius"] = r /\ r \in Int /\ ZigZag(r) <= MostVaried
    BY ServerAssumption, WireAssumption
  <2> HIDE DEF rec
  <2> QED
    BY <2>1, SignedStands
<1>2. Stands(<<"max_radius", U8>>, rec)
  <2>1. rec["max_radius"] \in Nat /\ rec["max_radius"] < 256
    OBVIOUS
  <2> HIDE DEF rec
  <2> QED
    BY <2>1, ByteStands
<1>3. RadiusWanted(r) = NewPacket(ID_REQUEST_CHUNK_RADIUS, Write(RadiusRequest, rec))
  BY DEF RadiusWanted, Told
<1>4. ID_REQUEST_CHUNK_RADIUS \in Nat /\ ID_REQUEST_CHUNK_RADIUS < 1024
  BY DEF ID_REQUEST_CHUNK_RADIUS
<1> HIDE DEF rec
<1>5. IsLayout(RadiusRequest) /\ Sendable(RadiusRequest, rec)
  BY <1>1, <1>2, RadiusRequestLayout
<1>6. Says(RadiusWanted(r), ID_REQUEST_CHUNK_RADIUS, RadiusRequest, rec)
  BY <1>3, <1>4, <1>5, LayoutSays
<1> QED
  BY <1>6 DEF rec

\* Numbers of the game are below a thousand million, either way.
Far == 1000000000

LEMMA FarFits ==
  ASSUME NEW v \in Int, -Far <= v, v <= Far
  PROVE  ZigZag(v) \in Nat /\ ZigZag(v) <= MostVaried /\ ZigZag(v) <= MostFixed
<1>1. CASE v >= 0
  <2>1. ZigZag(v) = 2 * v
    BY <1>1 DEF ZigZag
  <2> QED
    BY <1>1, <2>1 DEF Far, MostVaried, MostFixed
<1>2. CASE ~ (v >= 0)
  <2>1. ZigZag(v) = (-2) * v - 1
    BY <1>2 DEF ZigZag
  <2> QED
    BY <1>2, <2>1 DEF Far, MostVaried, MostFixed
<1> QED
  BY <1>1, <1>2

Asking == NewPacket(ID_REQUEST_NETWORK_SETTINGS,
                    Write(RequestNetworkSettings, [protocol |-> TARGET_PROTOCOL]))

LEMMA RequestNetworkSettingsLayout ==
  ASSUME NEW rec,
         Stands(<<"protocol", Big(4)>>, rec)
  PROVE  IsLayout(RequestNetworkSettings) /\ Sendable(RequestNetworkSettings, rec)
<1>1. Sendable(RequestNetworkSettings, rec)
  BY DEF Sendable, RequestNetworkSettings
<1>2. IsLayout(RequestNetworkSettings)
  BY DEF IsLayout, RequestNetworkSettings, FieldsOf
<1> QED
  BY <1>1, <1>2

\* Its first payload.
LEMMA AskingSays ==
  Says(Asking, ID_REQUEST_NETWORK_SETTINGS, RequestNetworkSettings,
              [protocol |-> TARGET_PROTOCOL])
<1> DEFINE rec == [protocol |-> TARGET_PROTOCOL]
<1>1. Stands(<<"protocol", Big(4)>>, rec)
  <2>1. rec["protocol"] \in Nat /\ rec["protocol"] <= MostFixed
    BY DEF TARGET_PROTOCOL, MostFixed
  <2> HIDE DEF rec
  <2> QED
    BY <2>1, WideStands
<1>2. Asking = NewPacket(ID_REQUEST_NETWORK_SETTINGS, Write(RequestNetworkSettings, rec))
  BY DEF Asking
<1>3. ID_REQUEST_NETWORK_SETTINGS \in Nat /\ ID_REQUEST_NETWORK_SETTINGS < 1024
  BY DEF ID_REQUEST_NETWORK_SETTINGS
<1> HIDE DEF rec
<1>4. IsLayout(RequestNetworkSettings) /\ Sendable(RequestNetworkSettings, rec)
  BY <1>1, RequestNetworkSettingsLayout
<1>5. Says(Asking, ID_REQUEST_NETWORK_SETTINGS, RequestNetworkSettings, rec)
  BY <1>2, <1>3, <1>4, LayoutSays
<1> QED
  BY <1>5 DEF rec

LEMMA NetworkSettingsLayout ==
  ASSUME NEW rec,
         Stands(<<"compression_threshold", Little(2)>>, rec),
         Stands(<<"compression", Little(2)>>, rec),
         Stands(<<"client_throttle_enabled", U8>>, rec),
         Stands(<<"client_throttle_threshold", U8>>, rec),
         Stands(<<"client_throttle_scalar", Float>>, rec)
  PROVE  IsLayout(NetworkSettings) /\ Sendable(NetworkSettings, rec)
<1>1. Sendable(NetworkSettings, rec)
  BY DEF Sendable, NetworkSettings
<1>2. IsLayout(NetworkSettings)
  BY DEF IsLayout, NetworkSettings, FieldsOf
<1> QED
  BY <1>1, <1>2

\* The server's answer.
LEMMA UncompressedSays ==
  Says(Uncompressed, ID_NETWORK_SETTINGS, NetworkSettings,
              [compression_threshold |-> 0, compression |-> 2, client_throttle_enabled |-> 0,
               client_throttle_threshold |-> 0, client_throttle_scalar |-> 0])
<1> DEFINE rec == [compression_threshold |-> 0, compression |-> 2, client_throttle_enabled |-> 0,
               client_throttle_threshold |-> 0, client_throttle_scalar |-> 0]
<1>1. Stands(<<"compression_threshold", Little(2)>>, rec)
  <2>1. rec["compression_threshold"] \in Nat /\ rec["compression_threshold"] < 256
    OBVIOUS
  <2> HIDE DEF rec
  <2> QED
    BY <2>1, PairStands
<1>2. Stands(<<"compression", Little(2)>>, rec)
  <2>1. rec["compression"] \in Nat /\ rec["compression"] < 256
    OBVIOUS
  <2> HIDE DEF rec
  <2> QED
    BY <2>1, PairStands
<1>3. Stands(<<"client_throttle_enabled", U8>>, rec)
  <2>1. rec["client_throttle_enabled"] \in Nat /\ rec["client_throttle_enabled"] < 256
    OBVIOUS
  <2> HIDE DEF rec
  <2> QED
    BY <2>1, ByteStands
<1>4. Stands(<<"client_throttle_threshold", U8>>, rec)
  <2>1. rec["client_throttle_threshold"] \in Nat /\ rec["client_throttle_threshold"] < 256
    OBVIOUS
  <2> HIDE DEF rec
  <2> QED
    BY <2>1, ByteStands
<1>5. Stands(<<"client_throttle_scalar", Float>>, rec)
  <2>1. rec["client_throttle_scalar"] \in Int /\ ZigZag(rec["client_throttle_scalar"]) <= MostFixed
    BY DEF ZigZag, MostFixed
  <2> HIDE DEF rec
  <2> QED
    BY <2>1, FloatStands
<1>6. Uncompressed = NewPacket(ID_NETWORK_SETTINGS, Write(NetworkSettings, rec))
  BY DEF Uncompressed
<1>7. ID_NETWORK_SETTINGS \in Nat /\ ID_NETWORK_SETTINGS < 1024
  BY DEF ID_NETWORK_SETTINGS
<1> HIDE DEF rec
<1>8. IsLayout(NetworkSettings) /\ Sendable(NetworkSettings, rec)
  BY <1>1, <1>2, <1>3, <1>4, <1>5, NetworkSettingsLayout
<1>9. Says(Uncompressed, ID_NETWORK_SETTINGS, NetworkSettings, rec)
  BY <1>6, <1>7, <1>8, LayoutSays
<1> QED
  BY <1>9 DEF rec

LEMMA HandshakeTokenLayout ==
  ASSUME NEW rec,
         Stands(<<"token", Prefixed>>, rec)
  PROVE  IsLayout(HandshakeToken) /\ Sendable(HandshakeToken, rec)
<1>1. Sendable(HandshakeToken, rec)
  BY DEF Sendable, HandshakeToken
<1>2. IsLayout(HandshakeToken)
  BY DEF IsLayout, HandshakeToken, FieldsOf
<1> QED
  BY <1>1, <1>2

\* The server's key.
LEMMA HandshakeSays ==
  ASSUME NEW k \in Byte
  PROVE  Says(ServerToClientHandshake(<<k>>), ID_SERVER_TO_CLIENT_HANDSHAKE, HandshakeToken,
              [token |-> <<k>>])
<1> DEFINE rec == [token |-> <<k>>]
<1>1. Stands(<<"token", Prefixed>>, rec)
  <2>1. rec["token"] \in Seq(Byte) /\ Len(rec["token"]) <= BodyMost
    BY DEF BodyMost
  <2> HIDE DEF rec
  <2> QED
    BY <2>1, PrefixedStands
<1>2. ServerToClientHandshake(<<k>>) = NewPacket(ID_SERVER_TO_CLIENT_HANDSHAKE, Write(HandshakeToken, rec))
  BY DEF ServerToClientHandshake
<1>3. ID_SERVER_TO_CLIENT_HANDSHAKE \in Nat /\ ID_SERVER_TO_CLIENT_HANDSHAKE < 1024
  BY DEF ID_SERVER_TO_CLIENT_HANDSHAKE
<1> HIDE DEF rec
<1>4. IsLayout(HandshakeToken) /\ Sendable(HandshakeToken, rec)
  BY <1>1, HandshakeTokenLayout
<1>5. Says(ServerToClientHandshake(<<k>>), ID_SERVER_TO_CLIENT_HANDSHAKE, HandshakeToken, rec)
  BY <1>2, <1>3, <1>4, LayoutSays
<1> QED
  BY <1>5 DEF rec

LEMMA PlayStatusLayout ==
  ASSUME NEW rec,
         Stands(<<"status", Big(4)>>, rec)
  PROVE  IsLayout(PlayStatus) /\ Sendable(PlayStatus, rec)
<1>1. Sendable(PlayStatus, rec)
  BY DEF Sendable, PlayStatus
<1>2. IsLayout(PlayStatus)
  BY DEF IsLayout, PlayStatus, FieldsOf
<1> QED
  BY <1>1, <1>2

\* What becomes of a login.
LEMMA StatusSays ==
  ASSUME NEW name \in DOMAIN Status
  PROVE  Says(StatusPacket(name), ID_PLAY_STATUS, PlayStatus,
              [status |-> Status[name]])
<1> DEFINE rec == [status |-> Status[name]]
<1>1. Stands(<<"status", Big(4)>>, rec)
  <2>1. rec["status"] \in Nat /\ rec["status"] <= MostFixed
    BY DEF Status, MostFixed
  <2> HIDE DEF rec
  <2> QED
    BY <2>1, WideStands
<1>2. StatusPacket(name) = NewPacket(ID_PLAY_STATUS, Write(PlayStatus, rec))
  BY DEF StatusPacket
<1>3. ID_PLAY_STATUS \in Nat /\ ID_PLAY_STATUS < 1024
  BY DEF ID_PLAY_STATUS
<1> HIDE DEF rec
<1>4. IsLayout(PlayStatus) /\ Sendable(PlayStatus, rec)
  BY <1>1, PlayStatusLayout
<1>5. Says(StatusPacket(name), ID_PLAY_STATUS, PlayStatus, rec)
  BY <1>2, <1>3, <1>4, LayoutSays
<1> QED
  BY <1>5 DEF rec

LEMMA ClientResponseLayout ==
  ASSUME NEW rec,
         Stands(<<"response", U8>>, rec)
  PROVE  IsLayout(ClientResponse) /\ Sendable(ClientResponse, rec)
<1>1. Sendable(ClientResponse, rec)
  BY DEF Sendable, ClientResponse
<1>2. IsLayout(ClientResponse)
  BY DEF IsLayout, ClientResponse, FieldsOf
<1> QED
  BY <1>1, <1>2

\* The client's answer about resource packs.
LEMMA AnsweredSays ==
  ASSUME NEW name \in DOMAIN Responses
  PROVE  Says(Answered(name), ID_RESOURCE_PACK_CLIENT_RESPONSE, ClientResponse,
              [response |-> Responses[name]])
<1> DEFINE rec == [response |-> Responses[name]]
<1>1. Stands(<<"response", U8>>, rec)
  <2>1. rec["response"] \in Nat /\ rec["response"] < 256
    BY DEF Responses
  <2> HIDE DEF rec
  <2> QED
    BY <2>1, ByteStands
<1>2. Answered(name) = NewPacket(ID_RESOURCE_PACK_CLIENT_RESPONSE, Write(ClientResponse, rec))
  BY DEF Answered, Told
<1>3. ID_RESOURCE_PACK_CLIENT_RESPONSE \in Nat /\ ID_RESOURCE_PACK_CLIENT_RESPONSE < 1024
  BY DEF ID_RESOURCE_PACK_CLIENT_RESPONSE
<1> HIDE DEF rec
<1>4. IsLayout(ClientResponse) /\ Sendable(ClientResponse, rec)
  BY <1>1, ClientResponseLayout
<1>5. Says(Answered(name), ID_RESOURCE_PACK_CLIENT_RESPONSE, ClientResponse, rec)
  BY <1>2, <1>3, <1>4, LayoutSays
<1> QED
  BY <1>5 DEF rec

LEMMA AuthInputLayout ==
  ASSUME NEW rec,
         Stands(<<"pitch", Float>>, rec),
         Stands(<<"yaw", Float>>, rec),
         Stands(<<"x", Float>>, rec),
         Stands(<<"y", Float>>, rec),
         Stands(<<"z", Float>>, rec)
  PROVE  IsLayout(AuthInput) /\ Sendable(AuthInput, rec)
<1>1. Sendable(AuthInput, rec)
  BY DEF Sendable, AuthInput
<1>2. IsLayout(AuthInput)
  BY DEF IsLayout, AuthInput, FieldsOf
<1> QED
  BY <1>1, <1>2

\* Where the player stands.
LEMMA MovedSays ==
  ASSUME NEW x \in Int, ZigZag(x) <= MostFixed
  PROVE  Says(Moved(x), ID_PLAYER_AUTH_INPUT, AuthInput,
              [pitch |-> 0, yaw |-> 0, x |-> x, y |-> 100 * Surface + POSITION_OFFSET, z |-> 0])
<1> DEFINE rec == [pitch |-> 0, yaw |-> 0, x |-> x, y |-> 100 * Surface + POSITION_OFFSET, z |-> 0]
<1>0. 100 * Surface + POSITION_OFFSET \in Int /\ ZigZag(100 * Surface + POSITION_OFFSET) <= MostFixed
  <2> DEFINE y == 100 * Surface + POSITION_OFFSET
  <2>1. y \in Int /\ -Far <= y /\ y <= Far
    BY ServerAssumption, WireAssumption DEF Far, POSITION_OFFSET
  <2> HIDE DEF y
  <2>2. ZigZag(y) <= MostFixed
    BY <2>1, FarFits
  <2> QED
    BY <2>1, <2>2 DEF y
<1>1. Stands(<<"pitch", Float>>, rec)
  <2>1. rec["pitch"] \in Int /\ ZigZag(rec["pitch"]) <= MostFixed
    BY DEF ZigZag, MostFixed
  <2> HIDE DEF rec
  <2> QED
    BY <2>1, FloatStands
<1>2. Stands(<<"yaw", Float>>, rec)
  <2>1. rec["yaw"] \in Int /\ ZigZag(rec["yaw"]) <= MostFixed
    BY DEF ZigZag, MostFixed
  <2> HIDE DEF rec
  <2> QED
    BY <2>1, FloatStands
<1>3. Stands(<<"x", Float>>, rec)
  <2>1. rec["x"] \in Int /\ ZigZag(rec["x"]) <= MostFixed
    OBVIOUS
  <2> HIDE DEF rec
  <2> QED
    BY <2>1, FloatStands
<1>4. Stands(<<"y", Float>>, rec)
  <2>1. rec["y"] \in Int /\ ZigZag(rec["y"]) <= MostFixed
    <3>1. rec["y"] = 100 * Surface + POSITION_OFFSET
      OBVIOUS
    <3> QED
      BY <1>0, <3>1
  <2> HIDE DEF rec
  <2> QED
    BY <2>1, FloatStands
<1>5. Stands(<<"z", Float>>, rec)
  <2>1. rec["z"] \in Int /\ ZigZag(rec["z"]) <= MostFixed
    BY DEF ZigZag, MostFixed
  <2> HIDE DEF rec
  <2> QED
    BY <2>1, FloatStands
<1>6. Moved(x) = NewPacket(ID_PLAYER_AUTH_INPUT, Write(AuthInput, rec))
  BY DEF Moved, Told
<1>7. ID_PLAYER_AUTH_INPUT \in Nat /\ ID_PLAYER_AUTH_INPUT < 1024
  BY DEF ID_PLAYER_AUTH_INPUT
<1> HIDE DEF rec
<1>8. IsLayout(AuthInput) /\ Sendable(AuthInput, rec)
  BY <1>1, <1>2, <1>3, <1>4, <1>5, AuthInputLayout
<1>9. Says(Moved(x), ID_PLAYER_AUTH_INPUT, AuthInput, rec)
  BY <1>6, <1>7, <1>8, LayoutSays
<1> QED
  BY <1>9 DEF rec

LEMMA RadiusUpdatedLayout ==
  ASSUME NEW rec,
         Stands(<<"radius", Zig(5)>>, rec)
  PROVE  IsLayout(RadiusUpdated) /\ Sendable(RadiusUpdated, rec)
<1>1. Sendable(RadiusUpdated, rec)
  BY DEF Sendable, RadiusUpdated
<1>2. IsLayout(RadiusUpdated)
  BY DEF IsLayout, RadiusUpdated, FieldsOf
<1> QED
  BY <1>1, <1>2

\* The radius granted.
LEMMA GrantedSays ==
  ASSUME NEW r \in Int, -Far <= r, r <= Far
  PROVE  Says(RadiusGranted(r), ID_CHUNK_RADIUS_UPDATED, RadiusUpdated,
              [radius |-> r])
<1> DEFINE rec == [radius |-> r]
<1>1. Stands(<<"radius", Zig(5)>>, rec)
  <2>1. rec["radius"] \in Int /\ ZigZag(rec["radius"]) <= MostVaried
    BY FarFits
  <2> HIDE DEF rec
  <2> QED
    BY <2>1, SignedStands
<1>2. RadiusGranted(r) = NewPacket(ID_CHUNK_RADIUS_UPDATED, Write(RadiusUpdated, rec))
  BY DEF RadiusGranted
<1>3. ID_CHUNK_RADIUS_UPDATED \in Nat /\ ID_CHUNK_RADIUS_UPDATED < 1024
  BY DEF ID_CHUNK_RADIUS_UPDATED
<1> HIDE DEF rec
<1>4. IsLayout(RadiusUpdated) /\ Sendable(RadiusUpdated, rec)
  BY <1>1, RadiusUpdatedLayout
<1>5. Says(RadiusGranted(r), ID_CHUNK_RADIUS_UPDATED, RadiusUpdated, rec)
  BY <1>2, <1>3, <1>4, LayoutSays
<1> QED
  BY <1>5 DEF rec

LEMMA PublisherUpdateLayout ==
  ASSUME NEW rec,
         Stands(<<"x", Zig(5)>>, rec),
         Stands(<<"y", Zig(5)>>, rec),
         Stands(<<"z", Zig(5)>>, rec),
         Stands(<<"radius", Var(5)>>, rec),
         Stands(Fixed(Zeros(4)), rec)
  PROVE  IsLayout(PublisherUpdate) /\ Sendable(PublisherUpdate, rec)
<1>1. Sendable(PublisherUpdate, rec)
  BY DEF Sendable, PublisherUpdate
<1>2. IsLayout(PublisherUpdate)
  BY DEF IsLayout, PublisherUpdate, FieldsOf
<1> QED
  BY <1>1, <1>2

\* What fits a field of a packet.
FitsByte(v) == v \in Nat /\ v < 256
FitsWide(v) == v \in Nat /\ v <= MostFixed
FitsSigned(v) == v \in Int /\ ZigZag(v) <= MostVaried
FitsVaried(v) == v \in Nat /\ v <= MostVaried
FitsPoint(v) == v \in Int /\ ZigZag(v) <= MostFixed
FitsText(v) == v \in Seq(Byte) /\ Len(v) <= BodyMost

LEMMA ByteIs ==
  ASSUME NEW name, NEW rec, FitsByte(rec[name])
  PROVE  Stands(<<name, U8>>, rec)
BY ByteStands DEF FitsByte

LEMMA WideIs ==
  ASSUME NEW name, NEW rec, FitsWide(rec[name])
  PROVE  /\ Stands(<<name, Big(4)>>, rec)
         /\ Stands(<<name, Little(4)>>, rec)
         /\ Stands(<<name, Little(8)>>, rec)
BY WideStands DEF FitsWide

LEMMA SignedIs ==
  ASSUME NEW name, NEW rec, FitsSigned(rec[name])
  PROVE  Stands(<<name, Zig(5)>>, rec) /\ Stands(<<name, Zig(10)>>, rec)
BY SignedStands DEF FitsSigned

LEMMA VariedIs ==
  ASSUME NEW name, NEW rec, FitsVaried(rec[name])
  PROVE  Stands(<<name, Var(5)>>, rec) /\ Stands(<<name, Var(10)>>, rec)
BY VariedStands DEF FitsVaried

LEMMA PointIs ==
  ASSUME NEW name, NEW rec, FitsPoint(rec[name])
  PROVE  Stands(<<name, Float>>, rec)
BY FloatStands DEF FitsPoint

LEMMA TextIs ==
  ASSUME NEW name, NEW rec, FitsText(rec[name])
  PROVE  Stands(<<name, Prefixed>>, rec)
BY PrefixedStands DEF FitsText

LEMMA FarIs ==
  ASSUME NEW v \in Int, -Far <= v, v <= Far
  PROVE  FitsSigned(v) /\ FitsPoint(v)
BY FarFits DEF FitsSigned, FitsPoint

LEMMA FarVaried ==
  ASSUME NEW v \in Nat, v <= Far
  PROVE  FitsVaried(v)
BY DEF FitsVaried, Far, MostVaried

LEMMA ZeroIs == FitsSigned(0) /\ FitsPoint(0) /\ FitsByte(0) /\ FitsVaried(0) /\ FitsWide(0)
BY DEF FitsSigned, FitsPoint, FitsByte, FitsVaried, FitsWide, ZigZag, MostVaried, MostFixed

LEMMA FourZeros == ASSUME NEW rec PROVE Stands(Fixed(Zeros(4)), rec)
<1> DEFINE four == 4
<1>1. four \in Nat /\ four <= 100
  OBVIOUS
<1> HIDE DEF four
<1>2. Zeros(four) \in Seq(Byte) /\ Len(Zeros(four)) <= 100
  BY <1>1, ZerosAre
<1>3. Stands(Fixed(Zeros(four)), rec)
  BY <1>2, FixedStands
<1> QED
  BY <1>3 DEF four

LEMMA OneZero == ASSUME NEW rec PROVE Stands(Fixed(<< 0 >>), rec)
<1> DEFINE it == << 0 >>
<1>1. it \in Seq(Byte) /\ Len(it) <= 100
  BY DEF Byte
<1> HIDE DEF it
<1>2. Stands(Fixed(it), rec)
  BY <1>1, FixedStands
<1> QED
  BY <1>2 DEF it

\* The area published.
LEMMA PublisherSays ==
  ASSUME NEW x, FitsSigned(x), NEW y, FitsSigned(y), NEW r, FitsVaried(r)
  PROVE  Says(PublisherPacket(x, y, 0, r), ID_NETWORK_CHUNK_PUBLISHER_UPDATE, PublisherUpdate,
              [x |-> x, y |-> y, z |-> 0, radius |-> r])
<1> DEFINE rec == [x |-> x, y |-> y, z |-> 0, radius |-> r]
<1>1. Stands(<<"x", Zig(5)>>, rec)
  <2>1. FitsSigned(rec["x"])
    OBVIOUS
  <2> HIDE DEF rec
  <2> QED
    BY <2>1, SignedIs
<1>2. Stands(<<"y", Zig(5)>>, rec)
  <2>1. FitsSigned(rec["y"])
    OBVIOUS
  <2> HIDE DEF rec
  <2> QED
    BY <2>1, SignedIs
<1>3. Stands(<<"z", Zig(5)>>, rec)
  <2>1. FitsSigned(rec["z"])
    BY ZeroIs
  <2> HIDE DEF rec
  <2> QED
    BY <2>1, SignedIs
<1>4. Stands(<<"radius", Var(5)>>, rec)
  <2>1. FitsVaried(rec["radius"])
    OBVIOUS
  <2> HIDE DEF rec
  <2> QED
    BY <2>1, VariedIs
<1>6. PublisherPacket(x, y, 0, r) = NewPacket(ID_NETWORK_CHUNK_PUBLISHER_UPDATE, Write(PublisherUpdate, rec))
  BY DEF PublisherPacket
<1>7. ID_NETWORK_CHUNK_PUBLISHER_UPDATE \in Nat /\ ID_NETWORK_CHUNK_PUBLISHER_UPDATE < 1024
  BY DEF ID_NETWORK_CHUNK_PUBLISHER_UPDATE
<1> HIDE DEF rec
<1>8. IsLayout(PublisherUpdate) /\ Sendable(PublisherUpdate, rec)
  BY <1>1, <1>2, <1>3, <1>4, FourZeros, PublisherUpdateLayout
<1>9. Says(PublisherPacket(x, y, 0, r), ID_NETWORK_CHUNK_PUBLISHER_UPDATE, PublisherUpdate, rec)
  BY <1>6, <1>7, <1>8, LayoutSays
<1> QED
  BY <1>9 DEF rec

LEMMA LevelChunkLayout ==
  ASSUME NEW rec,
         Stands(<<"x", Zig(5)>>, rec),
         Stands(<<"z", Zig(5)>>, rec),
         Stands(Fixed(<< 0 >>), rec),
         Stands(<<"subchunks", Var(5)>>, rec),
         Stands(<<"payload", Prefixed>>, rec)
  PROVE  IsLayout(LevelChunk) /\ Sendable(LevelChunk, rec)
<1>1. Sendable(LevelChunk, rec)
  BY DEF Sendable, LevelChunk
<1>2. IsLayout(LevelChunk)
  BY DEF IsLayout, LevelChunk, FieldsOf
<1> QED
  BY <1>1, <1>2

\* A column, whatever its bytes.
LEMMA ChunkSays ==
  ASSUME NEW x, FitsSigned(x), NEW n, FitsVaried(n), NEW payload, FitsText(payload)
  PROVE  Says(LevelChunkPacket(x, 0, n, payload), ID_LEVEL_CHUNK, LevelChunk,
              [x |-> x, z |-> 0, subchunks |-> n, payload |-> payload])
<1> DEFINE rec == [x |-> x, z |-> 0, subchunks |-> n, payload |-> payload]
<1>1. Stands(<<"x", Zig(5)>>, rec)
  <2>1. FitsSigned(rec["x"])
    OBVIOUS
  <2> HIDE DEF rec
  <2> QED
    BY <2>1, SignedIs
<1>2. Stands(<<"z", Zig(5)>>, rec)
  <2>1. FitsSigned(rec["z"])
    BY ZeroIs
  <2> HIDE DEF rec
  <2> QED
    BY <2>1, SignedIs
<1>4. Stands(<<"subchunks", Var(5)>>, rec)
  <2>1. FitsVaried(rec["subchunks"])
    OBVIOUS
  <2> HIDE DEF rec
  <2> QED
    BY <2>1, VariedIs
<1>6. Stands(<<"payload", Prefixed>>, rec)
  <2>1. FitsText(rec["payload"])
    OBVIOUS
  <2> HIDE DEF rec
  <2> QED
    BY <2>1, TextIs
<1>7. LevelChunkPacket(x, 0, n, payload) = NewPacket(ID_LEVEL_CHUNK, Write(LevelChunk, rec))
  BY DEF LevelChunkPacket
<1>8. ID_LEVEL_CHUNK \in Nat /\ ID_LEVEL_CHUNK < 1024
  BY DEF ID_LEVEL_CHUNK
<1> HIDE DEF rec
<1>9. IsLayout(LevelChunk) /\ Sendable(LevelChunk, rec)
  BY <1>1, <1>2, OneZero, <1>4, <1>6, LevelChunkLayout
<1>10. Says(LevelChunkPacket(x, 0, n, payload), ID_LEVEL_CHUNK, LevelChunk, rec)
  BY <1>7, <1>8, <1>9, LayoutSays
<1> QED
  BY <1>10 DEF rec

\* Bytes that go out as they are.
IsPlain(bytes) == bytes \in Seq(Byte) /\ Len(bytes) <= 100

LEMMA PlainStands == ASSUME NEW bytes, IsPlain(bytes), NEW rec PROVE Stands(Fixed(bytes), rec)
BY FixedStands DEF IsPlain

IsBrief(bytes, n) == bytes \in Seq(Byte) /\ Len(bytes) = n

LEMMA BriefZeros == ASSUME NEW n \in Nat PROVE IsBrief(Zeros(n), n)
BY ZerosAre DEF IsBrief

LEMMA BriefJoined ==
  ASSUME NEW a, NEW m \in Nat, IsBrief(a, m), NEW b, NEW n \in Nat, IsBrief(b, n)
  PROVE  IsBrief(a \o b, m + n)
BY JoinedLong DEF IsBrief

LEMMA BriefPlain == ASSUME NEW a, NEW n \in Nat, IsBrief(a, n), n <= 100 PROVE IsPlain(a)
BY DEF IsBrief, IsPlain

LEMMA FewZeros ==
  /\ IsBrief(Zeros(2), 2)
  /\ IsBrief(Zeros(4), 4)
  /\ IsBrief(Zeros(7), 7)
  /\ IsBrief(Zeros(8), 8)
  /\ IsBrief(Zeros(10), 10)
  /\ IsBrief(Zeros(16), 16)
  /\ IsBrief(Zeros(8 + 16), 24)
<1>1. IsBrief(Zeros(2), 2)
  <2> DEFINE n == 2
  <2>1. n \in Nat
    OBVIOUS
  <2> HIDE DEF n
  <2>2. IsBrief(Zeros(n), n)
    BY <2>1, BriefZeros
  <2> QED
    BY <2>2 DEF n
<1>2. IsBrief(Zeros(4), 4)
  <2> DEFINE n == 4
  <2>1. n \in Nat
    OBVIOUS
  <2> HIDE DEF n
  <2>2. IsBrief(Zeros(n), n)
    BY <2>1, BriefZeros
  <2> QED
    BY <2>2 DEF n
<1>3. IsBrief(Zeros(7), 7)
  <2> DEFINE n == 7
  <2>1. n \in Nat
    OBVIOUS
  <2> HIDE DEF n
  <2>2. IsBrief(Zeros(n), n)
    BY <2>1, BriefZeros
  <2> QED
    BY <2>2 DEF n
<1>4. IsBrief(Zeros(8), 8)
  <2> DEFINE n == 8
  <2>1. n \in Nat
    OBVIOUS
  <2> HIDE DEF n
  <2>2. IsBrief(Zeros(n), n)
    BY <2>1, BriefZeros
  <2> QED
    BY <2>2 DEF n
<1>5. IsBrief(Zeros(10), 10)
  <2> DEFINE n == 10
  <2>1. n \in Nat
    OBVIOUS
  <2> HIDE DEF n
  <2>2. IsBrief(Zeros(n), n)
    BY <2>1, BriefZeros
  <2> QED
    BY <2>2 DEF n
<1>6. IsBrief(Zeros(16), 16)
  <2> DEFINE n == 16
  <2>1. n \in Nat
    OBVIOUS
  <2> HIDE DEF n
  <2>2. IsBrief(Zeros(n), n)
    BY <2>1, BriefZeros
  <2> QED
    BY <2>2 DEF n
<1>7. IsBrief(Zeros(8 + 16), 24)
  <2> DEFINE n == 8 + 16
  <2>1. n \in Nat /\ n = 24
    OBVIOUS
  <2> HIDE DEF n
  <2>2. IsBrief(Zeros(n), n)
    BY <2>1, BriefZeros
  <2>3. IsBrief(Zeros(n), 24)
    BY <2>1, <2>2
  <2> QED
    BY <2>3 DEF n
<1> QED
  BY <1>1, <1>2, <1>3, <1>4, <1>5, <1>6, <1>7

LEMMA FewBytes ==
  /\ IsBrief(<<6, 112, 108, 97, 105, 110, 115>>, 7)
  /\ IsBrief(<< 0 >>, 1)
  /\ IsBrief(<< 1 >>, 1)
  /\ IsBrief(<<0, 1, 1, 0, 0, 1, 0>>, 7)
  /\ IsBrief(<<0, 0, 1, 1>>, 4)
  /\ IsBrief(<<0, 2>>, 2)
  /\ IsBrief(<<0, 0, 2>>, 3)
  /\ IsBrief(<<0, 1>>, 2)
  /\ IsBrief(<<0, 0>>, 2)
  /\ IsBrief(EMPTY_NBT, 3)
<1>1. IsBrief(<<6, 112, 108, 97, 105, 110, 115>>, 7)
  BY DEF IsBrief, Byte
<1>2. IsBrief(<< 0 >>, 1)
  BY DEF IsBrief, Byte
<1>3. IsBrief(<< 1 >>, 1)
  BY DEF IsBrief, Byte
<1>4. IsBrief(<<0, 1, 1, 0, 0, 1, 0>>, 7)
  BY DEF IsBrief, Byte
<1>5. IsBrief(<<0, 0, 1, 1>>, 4)
  BY DEF IsBrief, Byte
<1>6. IsBrief(<<0, 2>>, 2)
  BY DEF IsBrief, Byte
<1>7. IsBrief(<<0, 0, 2>>, 3)
  BY DEF IsBrief, Byte
<1>8. IsBrief(<<0, 1>>, 2)
  BY DEF IsBrief, Byte
<1>9. IsBrief(<<0, 0>>, 2)
  BY DEF IsBrief, Byte
<1>10. IsBrief(EMPTY_NBT, 3)
  BY DEF IsBrief, Byte, EMPTY_NBT
<1> QED
  BY <1>1, <1>2, <1>3, <1>4, <1>5, <1>6, <1>7, <1>8, <1>9, <1>10

LEMMA Joined3 ==
  ASSUME NEW a, NEW l \in Nat, IsBrief(a, l), NEW b, NEW m \in Nat, IsBrief(b, m),
         NEW c, NEW n \in Nat, IsBrief(c, n), l + m + n <= 100
  PROVE  IsPlain(a \o b \o c)
<1>1. IsBrief(a \o b, l + m) /\ l + m \in Nat
  BY BriefJoined
<1> DEFINE d == a \o b
           k == l + m
<1>2. IsBrief(d, k) /\ k \in Nat /\ k + n <= 100
  BY <1>1
<1> HIDE DEF d, k
<1>3. IsBrief(d \o c, k + n) /\ k + n \in Nat
  BY <1>2, BriefJoined
<1>4. IsPlain(d \o c)
  BY <1>2, <1>3, BriefPlain
<1> QED
  BY <1>4 DEF d

LEMMA Joined2 ==
  ASSUME NEW a, NEW l \in Nat, IsBrief(a, l), NEW b, NEW m \in Nat, IsBrief(b, m), l + m <= 100
  PROVE  IsPlain(a \o b)
<1>1. IsBrief(a \o b, l + m) /\ l + m \in Nat
  BY BriefJoined
<1> QED
  BY <1>1, BriefPlain

LEMMA Joined1 ==
  ASSUME NEW a, NEW l \in Nat, IsBrief(a, l), l <= 100
  PROVE  IsPlain(a)
BY BriefPlain

LEMMA BlocksArePlain ==
  /\ IsPlain(Zeros(2) \o <<6, 112, 108, 97, 105, 110, 115>> \o << 0 >>)
  /\ IsPlain(<<0, 2>>)
  /\ IsPlain(<< 1 >> \o Zeros(7))
  /\ IsPlain(Zeros(8) \o <<0, 1, 1, 0, 0, 1, 0>>)
  /\ IsPlain(<< 0 >> \o Zeros(4) \o << 0 >>)
  /\ IsPlain(<<0, 0, 2>>)
  /\ IsPlain(Zeros(10))
  /\ IsPlain(Zeros(8) \o << 1 >>)
  /\ IsPlain(<<0, 0>> \o << 0 >> \o Zeros(4))
  /\ IsPlain(<< 0 >>)
  /\ IsPlain(<< 0 >> \o << 0 >>)
  /\ IsPlain(<<0, 1>>)
  /\ IsPlain(EMPTY_NBT)
  /\ IsPlain(Zeros(8 + 16))
  /\ IsPlain(<<0, 0, 1, 1>> \o << 0 >> \o Zeros(4))
<1>1. IsPlain(Zeros(2) \o <<6, 112, 108, 97, 105, 110, 115>> \o << 0 >>)
  <2> DEFINE x0 == Zeros(2)
             x1 == <<6, 112, 108, 97, 105, 110, 115>>
             x2 == << 0 >>
             n0 == 2
             n1 == 7
             n2 == 1
  <2>1. IsBrief(x0, n0) /\ n0 \in Nat
    BY FewZeros, FewBytes
  <2>2. IsBrief(x1, n1) /\ n1 \in Nat
    BY FewZeros, FewBytes
  <2>3. IsBrief(x2, n2) /\ n2 \in Nat
    BY FewZeros, FewBytes
  <2>8. n0 + n1 + n2 <= 100
    OBVIOUS
  <2> HIDE DEF x0, x1, x2, n0, n1, n2
  <2>9. IsPlain(x0 \o x1 \o x2)
    BY <2>1, <2>2, <2>3, <2>8, Joined3
  <2> QED
    BY <2>9 DEF x0, x1, x2
<1>2. IsPlain(<<0, 2>>)
  <2> DEFINE x0 == <<0, 2>>
             n0 == 2
  <2>1. IsBrief(x0, n0) /\ n0 \in Nat
    BY FewZeros, FewBytes
  <2>8. n0 <= 100
    OBVIOUS
  <2> HIDE DEF x0, n0
  <2>9. IsPlain(x0)
    BY <2>1, <2>8, Joined1
  <2> QED
    BY <2>9 DEF x0
<1>3. IsPlain(<< 1 >> \o Zeros(7))
  <2> DEFINE x0 == << 1 >>
             x1 == Zeros(7)
             n0 == 1
             n1 == 7
  <2>1. IsBrief(x0, n0) /\ n0 \in Nat
    BY FewZeros, FewBytes
  <2>2. IsBrief(x1, n1) /\ n1 \in Nat
    BY FewZeros, FewBytes
  <2>8. n0 + n1 <= 100
    OBVIOUS
  <2> HIDE DEF x0, x1, n0, n1
  <2>9. IsPlain(x0 \o x1)
    BY <2>1, <2>2, <2>8, Joined2
  <2> QED
    BY <2>9 DEF x0, x1
<1>4. IsPlain(Zeros(8) \o <<0, 1, 1, 0, 0, 1, 0>>)
  <2> DEFINE x0 == Zeros(8)
             x1 == <<0, 1, 1, 0, 0, 1, 0>>
             n0 == 8
             n1 == 7
  <2>1. IsBrief(x0, n0) /\ n0 \in Nat
    BY FewZeros, FewBytes
  <2>2. IsBrief(x1, n1) /\ n1 \in Nat
    BY FewZeros, FewBytes
  <2>8. n0 + n1 <= 100
    OBVIOUS
  <2> HIDE DEF x0, x1, n0, n1
  <2>9. IsPlain(x0 \o x1)
    BY <2>1, <2>2, <2>8, Joined2
  <2> QED
    BY <2>9 DEF x0, x1
<1>5. IsPlain(<< 0 >> \o Zeros(4) \o << 0 >>)
  <2> DEFINE x0 == << 0 >>
             x1 == Zeros(4)
             x2 == << 0 >>
             n0 == 1
             n1 == 4
             n2 == 1
  <2>1. IsBrief(x0, n0) /\ n0 \in Nat
    BY FewZeros, FewBytes
  <2>2. IsBrief(x1, n1) /\ n1 \in Nat
    BY FewZeros, FewBytes
  <2>3. IsBrief(x2, n2) /\ n2 \in Nat
    BY FewZeros, FewBytes
  <2>8. n0 + n1 + n2 <= 100
    OBVIOUS
  <2> HIDE DEF x0, x1, x2, n0, n1, n2
  <2>9. IsPlain(x0 \o x1 \o x2)
    BY <2>1, <2>2, <2>3, <2>8, Joined3
  <2> QED
    BY <2>9 DEF x0, x1, x2
<1>6. IsPlain(<<0, 0, 2>>)
  <2> DEFINE x0 == <<0, 0, 2>>
             n0 == 3
  <2>1. IsBrief(x0, n0) /\ n0 \in Nat
    BY FewZeros, FewBytes
  <2>8. n0 <= 100
    OBVIOUS
  <2> HIDE DEF x0, n0
  <2>9. IsPlain(x0)
    BY <2>1, <2>8, Joined1
  <2> QED
    BY <2>9 DEF x0
<1>7. IsPlain(Zeros(10))
  <2> DEFINE x0 == Zeros(10)
             n0 == 10
  <2>1. IsBrief(x0, n0) /\ n0 \in Nat
    BY FewZeros, FewBytes
  <2>8. n0 <= 100
    OBVIOUS
  <2> HIDE DEF x0, n0
  <2>9. IsPlain(x0)
    BY <2>1, <2>8, Joined1
  <2> QED
    BY <2>9 DEF x0
<1>8. IsPlain(Zeros(8) \o << 1 >>)
  <2> DEFINE x0 == Zeros(8)
             x1 == << 1 >>
             n0 == 8
             n1 == 1
  <2>1. IsBrief(x0, n0) /\ n0 \in Nat
    BY FewZeros, FewBytes
  <2>2. IsBrief(x1, n1) /\ n1 \in Nat
    BY FewZeros, FewBytes
  <2>8. n0 + n1 <= 100
    OBVIOUS
  <2> HIDE DEF x0, x1, n0, n1
  <2>9. IsPlain(x0 \o x1)
    BY <2>1, <2>2, <2>8, Joined2
  <2> QED
    BY <2>9 DEF x0, x1
<1>9. IsPlain(<<0, 0>> \o << 0 >> \o Zeros(4))
  <2> DEFINE x0 == <<0, 0>>
             x1 == << 0 >>
             x2 == Zeros(4)
             n0 == 2
             n1 == 1
             n2 == 4
  <2>1. IsBrief(x0, n0) /\ n0 \in Nat
    BY FewZeros, FewBytes
  <2>2. IsBrief(x1, n1) /\ n1 \in Nat
    BY FewZeros, FewBytes
  <2>3. IsBrief(x2, n2) /\ n2 \in Nat
    BY FewZeros, FewBytes
  <2>8. n0 + n1 + n2 <= 100
    OBVIOUS
  <2> HIDE DEF x0, x1, x2, n0, n1, n2
  <2>9. IsPlain(x0 \o x1 \o x2)
    BY <2>1, <2>2, <2>3, <2>8, Joined3
  <2> QED
    BY <2>9 DEF x0, x1, x2
<1>10. IsPlain(<< 0 >>)
  <2> DEFINE x0 == << 0 >>
             n0 == 1
  <2>1. IsBrief(x0, n0) /\ n0 \in Nat
    BY FewZeros, FewBytes
  <2>8. n0 <= 100
    OBVIOUS
  <2> HIDE DEF x0, n0
  <2>9. IsPlain(x0)
    BY <2>1, <2>8, Joined1
  <2> QED
    BY <2>9 DEF x0
<1>11. IsPlain(<< 0 >> \o << 0 >>)
  <2> DEFINE x0 == << 0 >>
             x1 == << 0 >>
             n0 == 1
             n1 == 1
  <2>1. IsBrief(x0, n0) /\ n0 \in Nat
    BY FewZeros, FewBytes
  <2>2. IsBrief(x1, n1) /\ n1 \in Nat
    BY FewZeros, FewBytes
  <2>8. n0 + n1 <= 100
    OBVIOUS
  <2> HIDE DEF x0, x1, n0, n1
  <2>9. IsPlain(x0 \o x1)
    BY <2>1, <2>2, <2>8, Joined2
  <2> QED
    BY <2>9 DEF x0, x1
<1>12. IsPlain(<<0, 1>>)
  <2> DEFINE x0 == <<0, 1>>
             n0 == 2
  <2>1. IsBrief(x0, n0) /\ n0 \in Nat
    BY FewZeros, FewBytes
  <2>8. n0 <= 100
    OBVIOUS
  <2> HIDE DEF x0, n0
  <2>9. IsPlain(x0)
    BY <2>1, <2>8, Joined1
  <2> QED
    BY <2>9 DEF x0
<1>13. IsPlain(EMPTY_NBT)
  <2> DEFINE x0 == EMPTY_NBT
             n0 == 3
  <2>1. IsBrief(x0, n0) /\ n0 \in Nat
    BY FewZeros, FewBytes
  <2>8. n0 <= 100
    OBVIOUS
  <2> HIDE DEF x0, n0
  <2>9. IsPlain(x0)
    BY <2>1, <2>8, Joined1
  <2> QED
    BY <2>9 DEF x0
<1>14. IsPlain(Zeros(8 + 16))
  <2> DEFINE x0 == Zeros(8 + 16)
             n0 == 24
  <2>1. IsBrief(x0, n0) /\ n0 \in Nat
    BY FewZeros, FewBytes
  <2>8. n0 <= 100
    OBVIOUS
  <2> HIDE DEF x0, n0
  <2>9. IsPlain(x0)
    BY <2>1, <2>8, Joined1
  <2> QED
    BY <2>9 DEF x0
<1>15. IsPlain(<<0, 0, 1, 1>> \o << 0 >> \o Zeros(4))
  <2> DEFINE x0 == <<0, 0, 1, 1>>
             x1 == << 0 >>
             x2 == Zeros(4)
             n0 == 4
             n1 == 1
             n2 == 4
  <2>1. IsBrief(x0, n0) /\ n0 \in Nat
    BY FewZeros, FewBytes
  <2>2. IsBrief(x1, n1) /\ n1 \in Nat
    BY FewZeros, FewBytes
  <2>3. IsBrief(x2, n2) /\ n2 \in Nat
    BY FewZeros, FewBytes
  <2>8. n0 + n1 + n2 <= 100
    OBVIOUS
  <2> HIDE DEF x0, x1, x2, n0, n1, n2
  <2>9. IsPlain(x0 \o x1 \o x2)
    BY <2>1, <2>2, <2>3, <2>8, Joined3
  <2> QED
    BY <2>9 DEF x0, x1, x2
<1> QED
  BY <1>1, <1>2, <1>3, <1>4, <1>5, <1>6, <1>7, <1>8, <1>9, <1>10, <1>11, <1>12, <1>13, <1>14, <1>15

TheWorld == FlatWorld(WorldName, MINECRAFT_VERSION, Build, Surface)

StartHead ==
  <<<<"entity_id", Zig(10)>>, <<"runtime_id", Var(10)>>, <<"game_type", Zig(5)>>,
    <<"x", Float>>, <<"y", Float>>, <<"z", Float>>, <<"pitch", Float>>, <<"yaw", Float>>>>
StartTail ==
  <<Fixed(<< 0 >>),
    <<"world_name", Prefixed>>,
    Fixed(<< 0 >> \o << 0 >>),
    Fixed(<<0, 1>>),
    <<"tick", Little(8)>>,
    <<"enchantment_seed", Zig(5)>>,
    <<"palette_len", Var(5)>>,
    Fixed(<<0, 1>>),
    <<"server_version", Prefixed>>,
    Fixed(EMPTY_NBT),
    Fixed(Zeros(8 + 16)),
    Fixed(<<0, 0, 1, 1>> \o << 0 >> \o Zeros(4))>>

LEMMA StartGameIs == StartGame = (StartHead \o LevelSettings) \o StartTail
BY DEF StartGame, StartHead, StartTail

LEMMA NearGround == FitsSigned(Surface) /\ FitsPoint(100 * Surface + POSITION_OFFSET)
<1>1. Surface \in Nat /\ Surface <= 1000000
  BY ServerAssumption, WireAssumption
<1>2. -Far <= Surface /\ Surface <= Far /\ Surface \in Int
  BY <1>1 DEF Far
<1> DEFINE y == 100 * Surface + POSITION_OFFSET
<1>3. y \in Int /\ -Far <= y /\ y <= Far
  BY <1>1 DEF Far, POSITION_OFFSET
<1> HIDE DEF y
<1>4. FitsPoint(y)
  BY <1>3, FarIs
<1>5. FitsSigned(Surface)
  BY <1>2, FarIs
<1> QED
  BY <1>4, <1>5 DEF y

LEMMA FewNumbers ==
  /\ FitsSigned(1) /\ FitsSigned(2) /\ FitsVaried(1) /\ FitsWide(4) /\ FitsPoint(50)
  /\ FitsText(<< 49 >>) /\ FitsText(<< 98 >>) /\ FitsText(<< 48 >>)
<1>1. FitsSigned(1) /\ FitsSigned(2) /\ FitsVaried(1) /\ FitsWide(4) /\ FitsPoint(50)
  BY DEF FitsSigned, FitsVaried, FitsWide, FitsPoint, ZigZag, MostVaried, MostFixed
<1>2. FitsText(<< 49 >>) /\ FitsText(<< 98 >>) /\ FitsText(<< 48 >>)
  BY DEF FitsText, Byte, BodyMost
<1> QED
  BY <1>1, <1>2

LEMMA WorldFields ==
  /\ FitsSigned(TheWorld["entity_id"])
  /\ FitsVaried(TheWorld["runtime_id"])
  /\ FitsSigned(TheWorld["game_type"])
  /\ FitsPoint(TheWorld["x"])
  /\ FitsPoint(TheWorld["y"])
  /\ FitsPoint(TheWorld["z"])
  /\ FitsPoint(TheWorld["pitch"])
  /\ FitsPoint(TheWorld["yaw"])
  /\ FitsWide(TheWorld["seed"])
  /\ FitsSigned(TheWorld["generator"])
  /\ FitsSigned(TheWorld["world_game_type"])
  /\ FitsSigned(TheWorld["spawn_x"])
  /\ FitsSigned(TheWorld["spawn_y"])
  /\ FitsSigned(TheWorld["spawn_z"])
  /\ FitsWide(TheWorld["tick_radius"])
  /\ FitsText(TheWorld["vanilla_version"])
  /\ FitsText(TheWorld["world_name"])
  /\ FitsWide(TheWorld["tick"])
  /\ FitsSigned(TheWorld["enchantment_seed"])
  /\ FitsVaried(TheWorld["palette_len"])
  /\ FitsText(TheWorld["server_version"])
  /\ TheWorld["x"] = 50
<1>1. FitsSigned(TheWorld["entity_id"])
  <2>1. TheWorld["entity_id"] = 1
    BY DEF TheWorld, FlatWorld
  <2> QED
    BY <2>1, ZeroIs, FewNumbers, NearGround
<1>2. FitsVaried(TheWorld["runtime_id"])
  <2>1. TheWorld["runtime_id"] = 1
    BY DEF TheWorld, FlatWorld
  <2> QED
    BY <2>1, ZeroIs, FewNumbers, NearGround
<1>3. FitsSigned(TheWorld["game_type"])
  <2>1. TheWorld["game_type"] = Creative
    BY DEF TheWorld, FlatWorld
  <2> QED
    BY <2>1, ZeroIs, FewNumbers, NearGround DEF Creative
<1>4. FitsPoint(TheWorld["x"])
  <2>1. TheWorld["x"] = 50
    BY DEF TheWorld, FlatWorld
  <2> QED
    BY <2>1, ZeroIs, FewNumbers, NearGround
<1>5. FitsPoint(TheWorld["y"])
  <2>1. TheWorld["y"] = 100 * Surface + POSITION_OFFSET
    BY DEF TheWorld, FlatWorld
  <2> QED
    BY <2>1, ZeroIs, FewNumbers, NearGround
<1>6. FitsPoint(TheWorld["z"])
  <2>1. TheWorld["z"] = 50
    BY DEF TheWorld, FlatWorld
  <2> QED
    BY <2>1, ZeroIs, FewNumbers, NearGround
<1>7. FitsPoint(TheWorld["pitch"])
  <2>1. TheWorld["pitch"] = 0
    BY DEF TheWorld, FlatWorld
  <2> QED
    BY <2>1, ZeroIs, FewNumbers, NearGround
<1>8. FitsPoint(TheWorld["yaw"])
  <2>1. TheWorld["yaw"] = 0
    BY DEF TheWorld, FlatWorld
  <2> QED
    BY <2>1, ZeroIs, FewNumbers, NearGround
<1>9. FitsWide(TheWorld["seed"])
  <2>1. TheWorld["seed"] = 0
    BY DEF TheWorld, FlatWorld
  <2> QED
    BY <2>1, ZeroIs, FewNumbers, NearGround
<1>10. FitsSigned(TheWorld["generator"])
  <2>1. TheWorld["generator"] = Flat
    BY DEF TheWorld, FlatWorld
  <2> QED
    BY <2>1, ZeroIs, FewNumbers, NearGround DEF Flat
<1>11. FitsSigned(TheWorld["world_game_type"])
  <2>1. TheWorld["world_game_type"] = Creative
    BY DEF TheWorld, FlatWorld
  <2> QED
    BY <2>1, ZeroIs, FewNumbers, NearGround DEF Creative
<1>12. FitsSigned(TheWorld["spawn_x"])
  <2>1. TheWorld["spawn_x"] = 0
    BY DEF TheWorld, FlatWorld
  <2> QED
    BY <2>1, ZeroIs, FewNumbers, NearGround
<1>13. FitsSigned(TheWorld["spawn_y"])
  <2>1. TheWorld["spawn_y"] = Surface
    BY DEF TheWorld, FlatWorld
  <2> QED
    BY <2>1, ZeroIs, FewNumbers, NearGround
<1>14. FitsSigned(TheWorld["spawn_z"])
  <2>1. TheWorld["spawn_z"] = 0
    BY DEF TheWorld, FlatWorld
  <2> QED
    BY <2>1, ZeroIs, FewNumbers, NearGround
<1>15. FitsWide(TheWorld["tick_radius"])
  <2>1. TheWorld["tick_radius"] = 4
    BY DEF TheWorld, FlatWorld
  <2> QED
    BY <2>1, ZeroIs, FewNumbers, NearGround
<1>16. FitsText(TheWorld["vanilla_version"])
  <2>1. TheWorld["vanilla_version"] = MINECRAFT_VERSION
    BY DEF TheWorld, FlatWorld
  <2> QED
    BY <2>1, ZeroIs, FewNumbers, NearGround DEF MINECRAFT_VERSION
<1>17. FitsText(TheWorld["world_name"])
  <2>1. TheWorld["world_name"] = WorldName
    BY DEF TheWorld, FlatWorld
  <2> QED
    BY <2>1, ZeroIs, FewNumbers, NearGround DEF WorldName
<1>18. FitsWide(TheWorld["tick"])
  <2>1. TheWorld["tick"] = 0
    BY DEF TheWorld, FlatWorld
  <2> QED
    BY <2>1, ZeroIs, FewNumbers, NearGround
<1>19. FitsSigned(TheWorld["enchantment_seed"])
  <2>1. TheWorld["enchantment_seed"] = 0
    BY DEF TheWorld, FlatWorld
  <2> QED
    BY <2>1, ZeroIs, FewNumbers, NearGround
<1>20. FitsVaried(TheWorld["palette_len"])
  <2>1. TheWorld["palette_len"] = 0
    BY DEF TheWorld, FlatWorld
  <2> QED
    BY <2>1, ZeroIs, FewNumbers, NearGround
<1>21. FitsText(TheWorld["server_version"])
  <2>1. TheWorld["server_version"] = Build
    BY DEF TheWorld, FlatWorld
  <2> QED
    BY <2>1, ZeroIs, FewNumbers, NearGround DEF Build
<1>22. TheWorld["x"] = 50
  BY DEF TheWorld, FlatWorld
<1> QED
  BY <1>1, <1>2, <1>3, <1>4, <1>5, <1>6, <1>7, <1>8, <1>9, <1>10, <1>11, <1>12,
     <1>13, <1>14, <1>15, <1>16, <1>17, <1>18, <1>19, <1>20, <1>21, <1>22

LEMMA StartHeadSendable ==
  ASSUME NEW rec,
         Stands(<<"entity_id", Zig(10)>>, rec),
         Stands(<<"runtime_id", Var(10)>>, rec),
         Stands(<<"game_type", Zig(5)>>, rec),
         Stands(<<"x", Float>>, rec),
         Stands(<<"y", Float>>, rec),
         Stands(<<"z", Float>>, rec),
         Stands(<<"pitch", Float>>, rec),
         Stands(<<"yaw", Float>>, rec)
  PROVE  Sendable(StartHead, rec)
BY DEF Sendable, StartHead

LEMMA StartHeadSent == Sendable(StartHead, TheWorld)
<1>1. Stands(<<"entity_id", Zig(10)>>, TheWorld)
  BY WorldFields, SignedIs
<1>2. Stands(<<"runtime_id", Var(10)>>, TheWorld)
  BY WorldFields, VariedIs
<1>3. Stands(<<"game_type", Zig(5)>>, TheWorld)
  BY WorldFields, SignedIs
<1>4. Stands(<<"x", Float>>, TheWorld)
  BY WorldFields, PointIs
<1>5. Stands(<<"y", Float>>, TheWorld)
  BY WorldFields, PointIs
<1>6. Stands(<<"z", Float>>, TheWorld)
  BY WorldFields, PointIs
<1>7. Stands(<<"pitch", Float>>, TheWorld)
  BY WorldFields, PointIs
<1>8. Stands(<<"yaw", Float>>, TheWorld)
  BY WorldFields, PointIs
<1> QED
  BY <1>1, <1>2, <1>3, <1>4, <1>5, <1>6, <1>7, <1>8, StartHeadSendable

LEMMA StartHeadIs == StartHead \in Seq(FieldsOf(StartHead)) /\ Len(StartHead) = 8
BY DEF StartHead, FieldsOf

LEMMA LevelSettingsSendable ==
  ASSUME NEW rec,
         Stands(<<"seed", Little(8)>>, rec),
         Stands(Fixed(Zeros(2) \o <<6, 112, 108, 97, 105, 110, 115>> \o << 0 >>), rec),
         Stands(<<"generator", Zig(5)>>, rec),
         Stands(<<"world_game_type", Zig(5)>>, rec),
         Stands(Fixed(<<0, 2>>), rec),
         Stands(<<"spawn_x", Zig(5)>>, rec),
         Stands(<<"spawn_y", Zig(5)>>, rec),
         Stands(<<"spawn_z", Zig(5)>>, rec),
         Stands(Fixed(<< 1 >> \o Zeros(7)), rec),
         Stands(Fixed(Zeros(8) \o <<0, 1, 1, 0, 0, 1, 0>>), rec),
         Stands(Fixed(<< 0 >> \o Zeros(4) \o << 0 >>), rec),
         Stands(Fixed(<<0, 0, 2>>), rec),
         Stands(<<"tick_radius", Little(4)>>, rec),
         Stands(Fixed(Zeros(10)), rec),
         Stands(<<"vanilla_version", Prefixed>>, rec),
         Stands(Fixed(Zeros(8) \o << 1 >>), rec),
         Stands(Fixed(<<0, 0>> \o << 0 >> \o Zeros(4)), rec)
  PROVE  Sendable(LevelSettings, rec)
BY DEF Sendable, LevelSettings

LEMMA LevelSettingsSent == Sendable(LevelSettings, TheWorld)
<1>1. Stands(<<"seed", Little(8)>>, TheWorld)
  BY WorldFields, WideIs
<1>2. Stands(Fixed(Zeros(2) \o <<6, 112, 108, 97, 105, 110, 115>> \o << 0 >>), TheWorld)
  <2> DEFINE b == Zeros(2) \o <<6, 112, 108, 97, 105, 110, 115>> \o << 0 >>
  <2>1. IsPlain(b)
    BY BlocksArePlain
  <2> HIDE DEF b
  <2>2. Stands(Fixed(b), TheWorld)
    BY <2>1, PlainStands
  <2> QED
    BY <2>2 DEF b
<1>3. Stands(<<"generator", Zig(5)>>, TheWorld)
  BY WorldFields, SignedIs
<1>4. Stands(<<"world_game_type", Zig(5)>>, TheWorld)
  BY WorldFields, SignedIs
<1>5. Stands(Fixed(<<0, 2>>), TheWorld)
  <2> DEFINE b == <<0, 2>>
  <2>1. IsPlain(b)
    BY BlocksArePlain
  <2> HIDE DEF b
  <2>2. Stands(Fixed(b), TheWorld)
    BY <2>1, PlainStands
  <2> QED
    BY <2>2 DEF b
<1>6. Stands(<<"spawn_x", Zig(5)>>, TheWorld)
  BY WorldFields, SignedIs
<1>7. Stands(<<"spawn_y", Zig(5)>>, TheWorld)
  BY WorldFields, SignedIs
<1>8. Stands(<<"spawn_z", Zig(5)>>, TheWorld)
  BY WorldFields, SignedIs
<1>9. Stands(Fixed(<< 1 >> \o Zeros(7)), TheWorld)
  <2> DEFINE b == << 1 >> \o Zeros(7)
  <2>1. IsPlain(b)
    BY BlocksArePlain
  <2> HIDE DEF b
  <2>2. Stands(Fixed(b), TheWorld)
    BY <2>1, PlainStands
  <2> QED
    BY <2>2 DEF b
<1>10. Stands(Fixed(Zeros(8) \o <<0, 1, 1, 0, 0, 1, 0>>), TheWorld)
  <2> DEFINE b == Zeros(8) \o <<0, 1, 1, 0, 0, 1, 0>>
  <2>1. IsPlain(b)
    BY BlocksArePlain
  <2> HIDE DEF b
  <2>2. Stands(Fixed(b), TheWorld)
    BY <2>1, PlainStands
  <2> QED
    BY <2>2 DEF b
<1>11. Stands(Fixed(<< 0 >> \o Zeros(4) \o << 0 >>), TheWorld)
  <2> DEFINE b == << 0 >> \o Zeros(4) \o << 0 >>
  <2>1. IsPlain(b)
    BY BlocksArePlain
  <2> HIDE DEF b
  <2>2. Stands(Fixed(b), TheWorld)
    BY <2>1, PlainStands
  <2> QED
    BY <2>2 DEF b
<1>12. Stands(Fixed(<<0, 0, 2>>), TheWorld)
  <2> DEFINE b == <<0, 0, 2>>
  <2>1. IsPlain(b)
    BY BlocksArePlain
  <2> HIDE DEF b
  <2>2. Stands(Fixed(b), TheWorld)
    BY <2>1, PlainStands
  <2> QED
    BY <2>2 DEF b
<1>13. Stands(<<"tick_radius", Little(4)>>, TheWorld)
  BY WorldFields, WideIs
<1>14. Stands(Fixed(Zeros(10)), TheWorld)
  <2> DEFINE b == Zeros(10)
  <2>1. IsPlain(b)
    BY BlocksArePlain
  <2> HIDE DEF b
  <2>2. Stands(Fixed(b), TheWorld)
    BY <2>1, PlainStands
  <2> QED
    BY <2>2 DEF b
<1>15. Stands(<<"vanilla_version", Prefixed>>, TheWorld)
  BY WorldFields, TextIs
<1>16. Stands(Fixed(Zeros(8) \o << 1 >>), TheWorld)
  <2> DEFINE b == Zeros(8) \o << 1 >>
  <2>1. IsPlain(b)
    BY BlocksArePlain
  <2> HIDE DEF b
  <2>2. Stands(Fixed(b), TheWorld)
    BY <2>1, PlainStands
  <2> QED
    BY <2>2 DEF b
<1>17. Stands(Fixed(<<0, 0>> \o << 0 >> \o Zeros(4)), TheWorld)
  <2> DEFINE b == <<0, 0>> \o << 0 >> \o Zeros(4)
  <2>1. IsPlain(b)
    BY BlocksArePlain
  <2> HIDE DEF b
  <2>2. Stands(Fixed(b), TheWorld)
    BY <2>1, PlainStands
  <2> QED
    BY <2>2 DEF b
<1> QED
  BY <1>1, <1>2, <1>3, <1>4, <1>5, <1>6, <1>7, <1>8, <1>9, <1>10, <1>11, <1>12,
     <1>13, <1>14, <1>15, <1>16, <1>17, LevelSettingsSendable

LEMMA LevelSettingsIs == LevelSettings \in Seq(FieldsOf(LevelSettings)) /\ Len(LevelSettings) = 17
BY DEF LevelSettings, FieldsOf

LEMMA StartTailSendable ==
  ASSUME NEW rec,
         Stands(Fixed(<< 0 >>), rec),
         Stands(<<"world_name", Prefixed>>, rec),
         Stands(Fixed(<< 0 >> \o << 0 >>), rec),
         Stands(Fixed(<<0, 1>>), rec),
         Stands(<<"tick", Little(8)>>, rec),
         Stands(<<"enchantment_seed", Zig(5)>>, rec),
         Stands(<<"palette_len", Var(5)>>, rec),
         Stands(<<"server_version", Prefixed>>, rec),
         Stands(Fixed(EMPTY_NBT), rec),
         Stands(Fixed(Zeros(8 + 16)), rec),
         Stands(Fixed(<<0, 0, 1, 1>> \o << 0 >> \o Zeros(4)), rec)
  PROVE  Sendable(StartTail, rec)
BY DEF Sendable, StartTail

LEMMA StartTailSent == Sendable(StartTail, TheWorld)
<1>1. Stands(Fixed(<< 0 >>), TheWorld)
  <2> DEFINE b == << 0 >>
  <2>1. IsPlain(b)
    BY BlocksArePlain
  <2> HIDE DEF b
  <2>2. Stands(Fixed(b), TheWorld)
    BY <2>1, PlainStands
  <2> QED
    BY <2>2 DEF b
<1>2. Stands(<<"world_name", Prefixed>>, TheWorld)
  BY WorldFields, TextIs
<1>3. Stands(Fixed(<< 0 >> \o << 0 >>), TheWorld)
  <2> DEFINE b == << 0 >> \o << 0 >>
  <2>1. IsPlain(b)
    BY BlocksArePlain
  <2> HIDE DEF b
  <2>2. Stands(Fixed(b), TheWorld)
    BY <2>1, PlainStands
  <2> QED
    BY <2>2 DEF b
<1>4. Stands(Fixed(<<0, 1>>), TheWorld)
  <2> DEFINE b == <<0, 1>>
  <2>1. IsPlain(b)
    BY BlocksArePlain
  <2> HIDE DEF b
  <2>2. Stands(Fixed(b), TheWorld)
    BY <2>1, PlainStands
  <2> QED
    BY <2>2 DEF b
<1>5. Stands(<<"tick", Little(8)>>, TheWorld)
  BY WorldFields, WideIs
<1>6. Stands(<<"enchantment_seed", Zig(5)>>, TheWorld)
  BY WorldFields, SignedIs
<1>7. Stands(<<"palette_len", Var(5)>>, TheWorld)
  BY WorldFields, VariedIs
<1>8. Stands(<<"server_version", Prefixed>>, TheWorld)
  BY WorldFields, TextIs
<1>9. Stands(Fixed(EMPTY_NBT), TheWorld)
  <2> DEFINE b == EMPTY_NBT
  <2>1. IsPlain(b)
    BY BlocksArePlain
  <2> HIDE DEF b
  <2>2. Stands(Fixed(b), TheWorld)
    BY <2>1, PlainStands
  <2> QED
    BY <2>2 DEF b
<1>10. Stands(Fixed(Zeros(8 + 16)), TheWorld)
  <2> DEFINE b == Zeros(8 + 16)
  <2>1. IsPlain(b)
    BY BlocksArePlain
  <2> HIDE DEF b
  <2>2. Stands(Fixed(b), TheWorld)
    BY <2>1, PlainStands
  <2> QED
    BY <2>2 DEF b
<1>11. Stands(Fixed(<<0, 0, 1, 1>> \o << 0 >> \o Zeros(4)), TheWorld)
  <2> DEFINE b == <<0, 0, 1, 1>> \o << 0 >> \o Zeros(4)
  <2>1. IsPlain(b)
    BY BlocksArePlain
  <2> HIDE DEF b
  <2>2. Stands(Fixed(b), TheWorld)
    BY <2>1, PlainStands
  <2> QED
    BY <2>2 DEF b
<1> QED
  BY <1>1, <1>2, <1>3, <1>4, <1>5, <1>6, <1>7, <1>8, <1>9, <1>10, <1>11, StartTailSendable

LEMMA StartTailIs == StartTail \in Seq(FieldsOf(StartTail)) /\ Len(StartTail) = 12
BY DEF StartTail, FieldsOf

LEMMA AnyLayout == ASSUME NEW S, NEW s \in Seq(S), Len(s) <= 100 PROVE IsLayout(s)
<1>1. s \in Seq({s[k] : k \in DOMAIN s})
  <2>1. DOMAIN s = 1 .. Len(s) /\ Len(s) \in Nat /\ s = [k \in 1 .. Len(s) |-> s[k]]
    OBVIOUS
  <2> DEFINE T == {s[k] : k \in DOMAIN s}
  <2>2. \A k \in 1 .. Len(s) : s[k] \in T
    BY <2>1
  <2>3. s \in [1 .. Len(s) -> T]
    BY <2>1, <2>2
  <2> QED
    BY <2>1, <2>3
<1> QED
  BY <1>1 DEF IsLayout, FieldsOf

LEMMA JoinedAt ==
  ASSUME NEW S, NEW a \in Seq(S), NEW b \in Seq(S), NEW k \in 1 .. Len(a)
  PROVE  a \o b \in Seq(S) /\ Len(a \o b) = Len(a) + Len(b) /\ (a \o b)[k] = a[k]
OBVIOUS

LEMMA PointNamed == ASSUME NEW name PROVE ~ IsLiteral(<<name, Float>>)
BY DEF IsLiteral, Float

\* The world can be written along StartGame.
LEMMA WorldSent ==
  /\ IsLayout(StartGame) /\ Sendable(StartGame, TheWorld)
  /\ StartGame[4] = <<"x", Float>> /\ 4 \in 1 .. Len(StartGame)
<1> DEFINE S == FieldsOf(StartHead) \cup FieldsOf(LevelSettings) \cup FieldsOf(StartTail)
<1>1. FieldsOf(StartHead) \subseteq S /\ FieldsOf(LevelSettings) \subseteq S /\ FieldsOf(StartTail) \subseteq S
  OBVIOUS
<1> HIDE DEF S
<1>2. StartHead \in Seq(S) /\ LevelSettings \in Seq(S) /\ StartTail \in Seq(S)
  <2>1. ASSUME NEW s, NEW T, s \in Seq(T), T \subseteq S PROVE s \in Seq(S)
    BY <2>1
  <2> QED
    BY <1>1, <2>1, StartHeadIs, LevelSettingsIs, StartTailIs
<1> DEFINE a == StartHead
           b == LevelSettings
           c == StartTail
           d == a \o b
<1>3. a \in Seq(S) /\ b \in Seq(S) /\ c \in Seq(S) /\ Len(a) = 8 /\ Len(b) = 17 /\ Len(c) = 12
  BY <1>2, StartHeadIs, LevelSettingsIs, StartTailIs
<1>4. Sendable(a, TheWorld) /\ Sendable(b, TheWorld) /\ Sendable(c, TheWorld)
  BY StartHeadSent, LevelSettingsSent, StartTailSent
<1>5. a[4] = <<"x", Float>>
  BY DEF StartHead
<1>6. StartGame = d \o c
  BY StartGameIs
<1> HIDE DEF a, b, c
<1>7. d \in Seq(S) /\ Len(d) = 25 /\ d[4] = a[4]
  <2> DEFINE four == 4
  <2>1. four \in 1 .. Len(a)
    BY <1>3
  <2> HIDE DEF four, d
  <2>2. a \o b \in Seq(S) /\ Len(a \o b) = Len(a) + Len(b) /\ (a \o b)[four] = a[four]
    BY <1>3, <2>1, JoinedAt
  <2>3. Len(a) + Len(b) = 25
    BY <1>3
  <2> QED
    BY <2>2, <2>3 DEF d, four
<1>8. Sendable(d, TheWorld)
  BY <1>3, <1>4, SendableJoined
<1> HIDE DEF d
<1>9. d \o c \in Seq(S) /\ Len(d \o c) = 37 /\ (d \o c)[4] = d[4]
  <2> DEFINE four == 4
  <2>1. four \in 1 .. Len(d)
    BY <1>7
  <2> HIDE DEF four
  <2>2. d \o c \in Seq(S) /\ Len(d \o c) = Len(d) + Len(c) /\ (d \o c)[four] = d[four]
    BY <1>3, <1>7, <2>1, JoinedAt
  <2>3. Len(d) + Len(c) = 37
    BY <1>3, <1>7
  <2> QED
    BY <2>2, <2>3 DEF four
<1>10. Sendable(d \o c, TheWorld)
  BY <1>3, <1>4, <1>7, <1>8, SendableJoined
<1>11. IsLayout(d \o c)
  <2> DEFINE e == d \o c
  <2>1. e \in Seq(S) /\ Len(e) <= 100
    BY <1>9
  <2> HIDE DEF e
  <2>2. IsLayout(e)
    BY <2>1, AnyLayout
  <2> QED
    BY <2>2 DEF e
<1> QED
  BY <1>5, <1>6, <1>7, <1>9, <1>10, <1>11

\* The world the client is put in, at 50 hundredths of a block.
LEMMA WorldSays ==
  /\ World \in Packet /\ World.id = ID_START_GAME
  /\ Read(StartGame, World.body, 1).value.x = 50
<1>1. World = NewPacket(ID_START_GAME, Write(StartGame, TheWorld))
  BY DEF World, StartGamePacket, TheWorld
<1>2. ID_START_GAME \in Nat /\ ID_START_GAME < 1024
  BY DEF ID_START_GAME
<1>3. Says(World, ID_START_GAME, StartGame, TheWorld)
  BY <1>1, <1>2, WorldSent, LayoutSays
<1> DEFINE got == Read(StartGame, World.body, 1).value
<1>4. ~ IsLiteral(<<"x", Float>>)
  BY PointNamed
<1>5. got["x"] = TheWorld["x"]
  <2>1. \A j \in 1 .. Len(StartGame) : ~ IsLiteral(StartGame[j]) => got[StartGame[j][1]] = TheWorld[StartGame[j][1]]
    BY <1>3 DEF Says
  <2> HIDE DEF got
  <2>2. ~ IsLiteral(StartGame[4]) /\ StartGame[4][1] = "x"
    BY <1>4, WorldSent
  <2> QED
    BY <2>1, <2>2, WorldSent
<1>6. got["x"] = 50
  BY <1>5, WorldFields
<1> QED
  BY <1>3, <1>6 DEF Says

(* Packets without a layout.                                                *)

LEMMA PlainPacket ==
  ASSUME NEW id \in Nat, id < 1024, NEW body, IsPlain(body)
  PROVE  NewPacket(id, body) \in Packet /\ NewPacket(id, body).id = id
<1>1. body \in Seq(Byte) /\ Len(body) <= 100 /\ Len(body) \in Nat
  BY DEF IsPlain
<1>2. Len(body) + 5 <= MostVaried
  BY <1>1 DEF MostVaried
<1>3. NewPacket(id, body) \in Packet
  BY <1>1, <1>2, IsPacket
<1> QED
  BY <1>3 DEF NewPacket

LEMMA PacksInfoIs == PacksInfoEmpty \in Packet /\ PacksInfoEmpty.id = ID_RESOURCE_PACKS_INFO
<1> DEFINE a == Zeros(4)
           b == Zeros(16)
           c == << 0 >>
           d == Zeros(2)
           k == 4
           l == 16
           m == 1
           n == 2
<1>1. IsBrief(a, k) /\ IsBrief(b, l) /\ IsBrief(c, m) /\ IsBrief(d, n)
  BY FewZeros, FewBytes
<1>2. k \in Nat /\ l \in Nat /\ m \in Nat /\ n \in Nat /\ k + l \in Nat /\ k + l + m + n <= 100
  OBVIOUS
<1>3. PacksInfoEmpty = NewPacket(ID_RESOURCE_PACKS_INFO, a \o b \o c \o d)
  BY DEF PacksInfoEmpty
<1> HIDE DEF a, b, c, d, k, l, m, n
<1>4. IsBrief(a \o b, k + l)
  BY <1>1, <1>2, BriefJoined
<1> DEFINE e == a \o b
           h == k + l
<1>5. IsBrief(e, h) /\ h \in Nat /\ h + m + n <= 100
  BY <1>2, <1>4
<1> HIDE DEF e, h
<1>6. IsPlain(e \o c \o d)
  BY <1>1, <1>2, <1>5, Joined3
<1>7. IsPlain(a \o b \o c \o d)
  BY <1>6 DEF e
<1>8. ID_RESOURCE_PACKS_INFO \in Nat /\ ID_RESOURCE_PACKS_INFO < 1024
  BY DEF ID_RESOURCE_PACKS_INFO
<1> QED
  BY <1>3, <1>7, <1>8, PlainPacket

\* The packets without content.
LEMMA AllEmptyIs ==
  /\ DOMAIN AllEmpty = 1 .. 3 /\ AllEmpty \in Seq(Packet) /\ Len(AllEmpty) = 3
  /\ \A i \in 1 .. 3 : AllEmpty[i].id \in {ID_ITEM_REGISTRY, ID_AVAILABLE_ACTOR_IDENTIFIERS, ID_BIOME_DEFINITION_LIST}
<1> DEFINE a == NewPacket(ID_ITEM_REGISTRY, << 0 >>)
           b == NewPacket(ID_AVAILABLE_ACTOR_IDENTIFIERS, EMPTY_NBT)
           c == NewPacket(ID_BIOME_DEFINITION_LIST, <<0, 0>>)
<1>1. IsPlain(<< 0 >>) /\ IsPlain(EMPTY_NBT) /\ IsPlain(<<0, 0>>)
  <2>1. IsPlain(<< 0 >>) /\ IsPlain(EMPTY_NBT)
    BY BlocksArePlain
  <2>2. IsPlain(<<0, 0>>)
    BY DEF IsPlain, Byte
  <2> QED
    BY <2>1, <2>2
<1>2. /\ ID_ITEM_REGISTRY \in Nat /\ ID_ITEM_REGISTRY < 1024
      /\ ID_AVAILABLE_ACTOR_IDENTIFIERS \in Nat /\ ID_AVAILABLE_ACTOR_IDENTIFIERS < 1024
      /\ ID_BIOME_DEFINITION_LIST \in Nat /\ ID_BIOME_DEFINITION_LIST < 1024
  BY DEF ID_ITEM_REGISTRY, ID_AVAILABLE_ACTOR_IDENTIFIERS, ID_BIOME_DEFINITION_LIST
<1>3. a \in Packet /\ a.id = ID_ITEM_REGISTRY
  BY <1>1, <1>2, PlainPacket
<1>4. b \in Packet /\ b.id = ID_AVAILABLE_ACTOR_IDENTIFIERS
  BY <1>1, <1>2, PlainPacket
<1>5. c \in Packet /\ c.id = ID_BIOME_DEFINITION_LIST
  BY <1>1, <1>2, PlainPacket
<1>6. AllEmpty = <<a, b, c>>
  BY DEF AllEmpty
<1> HIDE DEF a, b, c
<1> QED
  BY <1>3, <1>4, <1>5, <1>6

\* No packs to apply.
LEMMA PackStackIs ==
  PackStackEmpty(MINECRAFT_VERSION) \in Packet /\ PackStackEmpty(MINECRAFT_VERSION).id = ID_RESOURCE_PACK_STACK
<1> DEFINE a == <<0, 0>>
           b == PutField(Prefixed, MINECRAFT_VERSION)
           c == Zeros(4)
           d == << 0 >>
<1>1. IsBrief(a, 2) /\ IsBrief(c, 4) /\ IsBrief(d, 1)
  BY FewZeros, FewBytes
<1>2. b \in Seq(Byte) /\ Len(b) <= FieldMost
  <2>1. FitsText(MINECRAFT_VERSION)
    BY FewNumbers DEF MINECRAFT_VERSION
  <2> DEFINE rec == [v |-> MINECRAFT_VERSION]
  <2>2. FitsText(rec["v"]) /\ rec["v"] = MINECRAFT_VERSION
    BY <2>1
  <2> HIDE DEF rec
  <2>3. Stands(<<"v", Prefixed>>, rec)
    BY <2>2, TextIs
  <2>4. ValueFor(<<"v", Prefixed>>, rec) = MINECRAFT_VERSION
    BY <2>2 DEF ValueFor, Prefixed
  <2>5. FitsField(Prefixed, MINECRAFT_VERSION) /\ Small(Prefixed, MINECRAFT_VERSION)
    BY <2>3, <2>4 DEF Stands
  <2> QED
    BY <2>5, NothingBefore, FieldLong
<1> DEFINE body == a \o b \o c \o d \o d
<1>3. PackStackEmpty(MINECRAFT_VERSION) = NewPacket(ID_RESOURCE_PACK_STACK, body)
  BY DEF PackStackEmpty
<1>4. body \in Seq(Byte) /\ Len(body) = 2 + Len(b) + 4 + 1 + 1
  <2> DEFINE k == 2
             l == Len(b)
             m == 4
             n == 1
  <2>1. IsBrief(a, k) /\ IsBrief(c, m) /\ IsBrief(d, n) /\ k \in Nat /\ m \in Nat /\ n \in Nat
    BY <1>1
  <2>2. IsBrief(b, l) /\ l \in Nat
    BY <1>2 DEF IsBrief
  <2> HIDE DEF a, b, c, d, k, l, m, n
  <2>3. IsBrief(a \o b, k + l) /\ k + l \in Nat
    BY <2>1, <2>2, BriefJoined
  <2> DEFINE e == a \o b
             h == k + l
  <2>4. IsBrief(e, h) /\ h \in Nat
    BY <2>3
  <2> HIDE DEF e, h
  <2>5. IsBrief(e \o c, h + m) /\ h + m \in Nat
    BY <2>1, <2>4, BriefJoined
  <2> DEFINE f == e \o c
             i == h + m
  <2>6. IsBrief(f, i) /\ i \in Nat
    BY <2>5
  <2> HIDE DEF f, i
  <2>7. IsBrief(f \o d, i + n) /\ i + n \in Nat
    BY <2>1, <2>6, BriefJoined
  <2> DEFINE g == f \o d
             j == i + n
  <2>8. IsBrief(g, j) /\ j \in Nat
    BY <2>7
  <2> HIDE DEF g, j
  <2>9. IsBrief(g \o d, j + n)
    BY <2>1, <2>8, BriefJoined
  <2>10. g \o d = body /\ j + n = 2 + l + 4 + 1 + 1
    BY DEF g, j, f, i, e, h, k, m, n
  <2> QED
    BY <2>9, <2>10 DEF IsBrief, l
<1> HIDE DEF body, b
<1>5. Len(b) \in Nat
  BY <1>2
<1>6. Len(body) + 5 <= MostVaried
  BY <1>2, <1>4, <1>5 DEF MostVaried, FieldMost
<1>7. ID_RESOURCE_PACK_STACK \in Nat /\ ID_RESOURCE_PACK_STACK < 1024
  BY DEF ID_RESOURCE_PACK_STACK
<1>8. NewPacket(ID_RESOURCE_PACK_STACK, body) \in Packet
  BY <1>4, <1>6, <1>7, IsPacket
<1> QED
  BY <1>3, <1>8 DEF NewPacket

\* What the client says without a layout.
LEMMA ClientPacketsAre ==
  /\ Initialized \in Packet /\ Initialized.id = ID_SET_LOCAL_PLAYER_AS_INITIALIZED
  /\ NewPacket(ID_CLIENT_TO_SERVER_HANDSHAKE, <<>>) \in Packet
  /\ NewPacket(ID_CLIENT_TO_SERVER_HANDSHAKE, <<>>).id = ID_CLIENT_TO_SERVER_HANDSHAKE
<1>1. IsPlain(<< 1 >>)
  BY DEF IsPlain, Byte
<1>2. IsPlain(<<>>)
  BY DEF IsPlain
<1>3. ID_SET_LOCAL_PLAYER_AS_INITIALIZED \in Nat /\ ID_SET_LOCAL_PLAYER_AS_INITIALIZED < 1024
      /\ ID_CLIENT_TO_SERVER_HANDSHAKE \in Nat /\ ID_CLIENT_TO_SERVER_HANDSHAKE < 1024
  BY DEF ID_SET_LOCAL_PLAYER_AS_INITIALIZED, ID_CLIENT_TO_SERVER_HANDSHAKE
<1> QED
  BY <1>1, <1>2, <1>3, PlainPacket DEF Initialized

(* Columns.                                                                 *)

\* Without text, a packet body is short.
LEMMA BriefWritten ==
  ASSUME NEW layout, IsLayout(layout), NEW rec, Sendable(layout, rec),
         \A k \in DOMAIN layout : layout[k][2].of \notin {"prefixed", "section"}
  PROVE  Write(layout, rec) \in Seq(Byte) /\ Len(Write(layout, rec)) <= Len(layout) * 100
<1> DEFINE m == Len(layout)
           S == FieldsOf(layout)
           parts == FieldParts(layout, rec)
           w == Write(layout, rec)
<1>1. layout \in Seq(S)
  BY DEF IsLayout
<1> HIDE DEF S
<1>2. m \in Nat /\ DOMAIN layout = 1 .. m
  BY <1>1
<1>3. FitsLayout(layout, rec)
  BY DEF FitsLayout, Sendable, Stands
<1>4. parts \in Seq(Seq(Byte)) /\ Len(parts) = m /\ w = Concat(parts) /\ w \in Seq(Byte)
  BY <1>1, <1>3, PartsAre
<1>5. ASSUME NEW k \in 1 .. m PROVE Len(parts[k]) <= 100
  <2>1. Stands(layout[k], rec) /\ layout[k][2].of \notin {"prefixed", "section"}
    BY <1>2 DEF Sendable
  <2>2. Len(PutField(layout[k][2], ValueFor(layout[k], rec))) <= 100
    BY <2>1, NumberLong DEF Stands
  <2>3. parts[k] = PutField(layout[k][2], ValueFor(layout[k], rec))
    BY <1>2 DEF FieldParts
  <2> QED
    BY <2>2, <2>3
<1> HIDE DEF parts
<1> DEFINE hundred == 100
<1>6. hundred \in Nat /\ \A k \in 1 .. Len(parts) : Len(parts[k]) <= hundred
  BY <1>4, <1>5
<1> HIDE DEF hundred, w
<1>7. Len(w) <= m * hundred
  <2>1. Len(Concat(parts)) <= Len(parts) * hundred
    BY <1>4, <1>6, ConcatLong
  <2> QED
    BY <1>4, <2>1
<1> QED
  BY <1>4, <1>7 DEF hundred, w

LEMMA SubchunkWritten ==
  ASSUME NEW b, FitsSigned(b)
  PROVE  /\ Write(UniformSubchunk, [block |-> b]) \in Seq(Byte)
         /\ Len(Write(UniformSubchunk, [block |-> b])) <= 300
<1> DEFINE rec == [block |-> b]
<1>1. Stands(<<"block", Zig(5)>>, rec)
  <2>1. FitsSigned(rec["block"])
    OBVIOUS
  <2> HIDE DEF rec
  <2> QED
    BY <2>1, SignedIs
<1> HIDE DEF rec
<1>2. Stands(Fixed(<<8, 1>>), rec) /\ Stands(Fixed(<< 1 >>), rec)
  <2> DEFINE x == <<8, 1>>
             y == << 1 >>
  <2>1. IsPlain(x) /\ IsPlain(y)
    BY DEF IsPlain, Byte
  <2> HIDE DEF x, y
  <2>2. Stands(Fixed(x), rec) /\ Stands(Fixed(y), rec)
    BY <2>1, PlainStands
  <2> QED
    BY <2>2 DEF x, y
<1>3. Sendable(UniformSubchunk, rec)
  BY <1>1, <1>2 DEF Sendable, UniformSubchunk
<1>4. IsLayout(UniformSubchunk) /\ Len(UniformSubchunk) = 3
  BY DEF IsLayout, UniformSubchunk, FieldsOf
<1>5. \A k \in DOMAIN UniformSubchunk : UniformSubchunk[k][2].of \notin {"prefixed", "section"}
  <2>1. DOMAIN UniformSubchunk = 1 .. 3
    BY DEF UniformSubchunk
  <2>2. /\ UniformSubchunk[1][2].of \in {"literal", "zigzag"}
        /\ UniformSubchunk[2][2].of \in {"literal", "zigzag"}
        /\ UniformSubchunk[3][2].of \in {"literal", "zigzag"}
    BY DEF UniformSubchunk, Fixed, Is, Zig
  <2> QED
    BY <2>1, <2>2
<1> DEFINE w == Write(UniformSubchunk, rec)
<1>6. w \in Seq(Byte) /\ Len(w) <= Len(UniformSubchunk) * 100
  BY <1>3, <1>4, <1>5, BriefWritten
<1> HIDE DEF w
<1>7. Len(w) <= 300
  <2>1. Len(w) \in Nat
    BY <1>6
  <2> QED
    BY <1>4, <1>6, <2>1
<1> QED
  BY <1>6, <1>7 DEF w, rec

LEMMA BiomeWritten ==
  /\ Write(UniformBiome, [biome |-> BIOME_PLAINS]) \in Seq(Byte)
  /\ Len(Write(UniformBiome, [biome |-> BIOME_PLAINS])) <= 300
<1> DEFINE rec == [biome |-> BIOME_PLAINS]
<1>1. Stands(<<"biome", Zig(5)>>, rec)
  <2>1. FitsSigned(rec["biome"])
    BY FewNumbers DEF BIOME_PLAINS
  <2> HIDE DEF rec
  <2> QED
    BY <2>1, SignedIs
<1> HIDE DEF rec
<1>2. Stands(Fixed(<< 1 >>), rec)
  <2> DEFINE y == << 1 >>
  <2>1. IsPlain(y)
    BY DEF IsPlain, Byte
  <2> HIDE DEF y
  <2>2. Stands(Fixed(y), rec)
    BY <2>1, PlainStands
  <2> QED
    BY <2>2 DEF y
<1>3. Sendable(UniformBiome, rec)
  BY <1>1, <1>2 DEF Sendable, UniformBiome
<1>4. IsLayout(UniformBiome) /\ Len(UniformBiome) = 2
  BY DEF IsLayout, UniformBiome, FieldsOf
<1>5. \A k \in DOMAIN UniformBiome : UniformBiome[k][2].of \notin {"prefixed", "section"}
  <2>1. DOMAIN UniformBiome = 1 .. 2
    BY DEF UniformBiome
  <2>2. UniformBiome[1][2].of \in {"literal", "zigzag"} /\ UniformBiome[2][2].of \in {"literal", "zigzag"}
    BY DEF UniformBiome, Fixed, Is, Zig
  <2> QED
    BY <2>1, <2>2
<1> DEFINE w == Write(UniformBiome, rec)
<1>6. w \in Seq(Byte) /\ Len(w) <= Len(UniformBiome) * 100
  BY <1>3, <1>4, <1>5, BriefWritten
<1> HIDE DEF w
<1>7. Len(w) <= 300
  <2>1. Len(w) \in Nat
    BY <1>6
  <2> QED
    BY <1>4, <1>6, <2>1
<1> QED
  BY <1>6, <1>7 DEF w, rec

LEMMA ColumnsText ==
  /\ FitsText(ColumnBytes)
  /\ Ground \in Seq(Nat) /\ Len(Ground) \in Nat /\ Len(Ground) <= 24 /\ FitsVaried(Len(Ground))
<1> DEFINE n == Len(Ground)
           a == [k \in DOMAIN Ground |-> Write(UniformSubchunk, [block |-> Ground[k]])]
           b == [k \in 1 .. OVERWORLD_SUBCHUNKS |-> Write(UniformBiome, [biome |-> BIOME_PLAINS])]
<1>1. Ground \in Seq(Nat) /\ n <= OVERWORLD_SUBCHUNKS /\ \A k \in DOMAIN Ground : ZigZag(Ground[k]) <= MostVaried
  BY WireAssumption
<1>2. n \in Nat /\ n <= 24 /\ DOMAIN Ground = 1 .. n
  BY <1>1 DEF OVERWORLD_SUBCHUNKS
<1>3. \A k \in 1 .. n : FitsSigned(Ground[k])
  BY <1>1, <1>2 DEF FitsSigned
<1> HIDE DEF n
<1>4. \A k \in 1 .. n : a[k] \in Seq(Byte) /\ Len(a[k]) <= 300
  BY <1>2, <1>3, SubchunkWritten
<1>5. a \in Seq(Seq(Byte)) /\ Len(a) = n
  <2>1. a \in [1 .. n -> Seq(Byte)]
    BY <1>2, <1>4
  <2> HIDE DEF a
  <2> QED
    BY <1>2, <2>1
<1>6. \A k \in 1 .. 24 : b[k] \in Seq(Byte) /\ Len(b[k]) <= 300
  BY BiomeWritten DEF OVERWORLD_SUBCHUNKS
<1>7. b \in Seq(Seq(Byte)) /\ Len(b) = 24
  <2> DEFINE h == 24
  <2>1. b \in [1 .. h -> Seq(Byte)] /\ h \in Nat
    BY <1>6 DEF OVERWORLD_SUBCHUNKS
  <2> HIDE DEF b, h
  <2>2. b \in Seq(Seq(Byte)) /\ Len(b) = h
    BY <2>1
  <2> QED
    BY <2>2 DEF h
<1>8. ColumnBytes = Concat(a) \o Concat(b) \o << 0 >>
  BY DEF ColumnBytes, ColumnPayload
<1> HIDE DEF a, b
<1> DEFINE most == 300
<1>9. most \in Nat /\ (\A k \in 1 .. Len(a) : Len(a[k]) <= most) /\ (\A k \in 1 .. Len(b) : Len(b[k]) <= most)
  BY <1>4, <1>5, <1>6, <1>7
<1> HIDE DEF most
<1>10. Len(Concat(a)) <= Len(a) * most /\ Len(Concat(b)) <= Len(b) * most
  <2>1. Len(Concat(a)) <= Len(a) * most
    BY <1>5, <1>9, ConcatLong
  <2>2. Len(Concat(b)) <= Len(b) * most
    BY <1>7, <1>9, ConcatLong
  <2> QED
    BY <2>1, <2>2
<1>11. Concat(a) \in Seq(Byte) /\ Concat(b) \in Seq(Byte)
  BY <1>5, <1>7, ConcatBytes
<1> DEFINE c == Concat(a)
           d == Concat(b)
           e == << 0 >>
<1>12. e \in Seq(Byte) /\ Len(e) = 1
  BY DEF Byte
<1>13. c \in Seq(Byte) /\ d \in Seq(Byte) /\ Len(c) <= n * most /\ Len(d) <= 24 * most
  BY <1>5, <1>7, <1>10, <1>11
<1> HIDE DEF c, d, e
<1>14. c \o d \in Seq(Byte) /\ Len(c \o d) = Len(c) + Len(d)
  BY <1>13, JoinedLong
<1>15. c \o d \o e \in Seq(Byte) /\ Len(c \o d \o e) = Len(c) + Len(d) + 1
  <2> DEFINE g == c \o d
  <2>1. g \in Seq(Byte) /\ Len(g) = Len(c) + Len(d)
    BY <1>14
  <2> HIDE DEF g
  <2>2. g \o e \in Seq(Byte) /\ Len(g \o e) = Len(g) + Len(e)
    BY <1>12, <2>1, JoinedLong
  <2> QED
    BY <1>12, <2>1, <2>2 DEF g
<1>16. Len(c) \in Nat /\ Len(d) \in Nat
  BY <1>13
<1>17. Len(c) <= 7200 /\ Len(d) <= 7200
  <2>1. n * most <= 7200 /\ 24 * most <= 7200
    BY <1>2 DEF most
  <2>2. n * most \in Nat /\ 24 * most \in Nat
    BY <1>2, <1>9
  <2> QED
    BY <1>13, <1>16, <2>1, <2>2
<1>18. Len(c \o d \o e) <= BodyMost
  BY <1>15, <1>16, <1>17 DEF BodyMost
<1>19. ColumnBytes = c \o d \o e
  BY <1>8 DEF c, d, e
<1>20. FitsText(ColumnBytes)
  BY <1>15, <1>18, <1>19 DEF FitsText
<1>21. FitsVaried(n)
  BY <1>2 DEF FitsVaried, MostVaried
<1> QED
  BY <1>1, <1>2, <1>20, <1>21 DEF n

\* What a client makes of a column.
IsColumn(packet, x) ==
  /\ packet.id = ID_LEVEL_CHUNK
  /\ Read(LevelChunk, packet.body, 1).value.x = x
  /\ Read(LevelChunk, packet.body, 1).value.payload = ColumnBytes
  /\ Read(LevelChunk, packet.body, 1).value.subchunks = Len(Ground)

\* A column of this ground.
LEMMA ColumnSays ==
  ASSUME NEW x, FitsSigned(x)
  PROVE  ColumnPacket(x) \in Packet /\ IsColumn(ColumnPacket(x), x)
<1> DEFINE q == LevelChunkPacket(x, 0, Len(Ground), ColumnBytes)
           got == Read(LevelChunk, q.body, 1).value
           rec == [x |-> x, z |-> 0, subchunks |-> Len(Ground), payload |-> ColumnBytes]
<1>1. Says(q, ID_LEVEL_CHUNK, LevelChunk, rec)
  BY ColumnsText, ChunkSays
<1>2. \A j \in 1 .. Len(LevelChunk) : ~ IsLiteral(LevelChunk[j]) => got[LevelChunk[j][1]] = rec[LevelChunk[j][1]]
  BY <1>1 DEF Says
<1>3. q = ColumnPacket(x)
  BY DEF ColumnPacket
<1>4. rec["x"] = x /\ rec["payload"] = ColumnBytes /\ rec["subchunks"] = Len(Ground)
  OBVIOUS
<1> HIDE DEF got, rec, q
<1>5. /\ 1 \in 1 .. Len(LevelChunk) /\ LevelChunk[1] = <<"x", Zig(5)>>
      /\ 4 \in 1 .. Len(LevelChunk) /\ LevelChunk[4] = <<"subchunks", Var(5)>>
      /\ 6 \in 1 .. Len(LevelChunk) /\ LevelChunk[6] = <<"payload", Prefixed>>
  BY DEF LevelChunk
<1>6. ~ IsLiteral(LevelChunk[1]) /\ ~ IsLiteral(LevelChunk[4]) /\ ~ IsLiteral(LevelChunk[6])
  BY <1>5 DEF IsLiteral, Zig, Var, Prefixed
<1>7. got["x"] = rec["x"] /\ got["payload"] = rec["payload"] /\ got["subchunks"] = rec["subchunks"]
  BY <1>2, <1>5, <1>6
<1>8. q \in Packet /\ q.id = ID_LEVEL_CHUNK
  BY <1>1 DEF Says
<1>9. IsColumn(q, x)
  BY <1>4, <1>7, <1>8 DEF IsColumn, got
<1> QED
  BY <1>3, <1>8, <1>9

BlobOf(l) == [identity |-> << l.token >>, client_data |-> l.holds]
LoginRec(l) == [protocol |-> l.protocol, blob |-> Write(LoginBlob, BlobOf(l))]
LoginPacket(l) == EncodeLogin(l.protocol, << l.token >>, l.holds)

SectionMost == 3000000

LEMMA SectionLong ==
  ASSUME NEW kind, NEW v, FitsField(kind, v), kind.of = "section", kind.limit + 4 <= SectionMost
  PROVE  Len(PutField(kind, v)) <= SectionMost
<1> DEFINE n == Len(v)
           head == LittleEndian(n, 4)
<1>1. v \in Seq(Byte) /\ n <= kind.limit /\ kind.limit \in Int
  BY DEF FitsField
<1>2. n \in Nat
  BY <1>1
<1>3. IsBytes(head, 4)
  BY <1>2, LittleLength
<1>4. PutField(kind, v) = head \o v
  BY PutIs
<1> HIDE DEF head, Byte
<1>5. head \in Seq(Byte) /\ Len(head) = 4
  BY <1>3 DEF IsBytes
<1>6. Len(head \o v) = 4 + n
  BY <1>1, <1>5, JoinedLong
<1> HIDE DEF n
<1>7. Len(PutField(kind, v)) = 4 + n
  BY <1>4, <1>6
<1> HIDE DEF head
<1> QED
  BY <1>1, <1>2, <1>7 DEF SectionMost

LEMMA BlobSent ==
  ASSUME NEW l \in Logins
  PROVE  IsLayout(LoginBlob) /\ Sendable(LoginBlob, BlobOf(l))
<1> DEFINE rec == BlobOf(l)
<1>1. l.token \in Byte /\ l.holds \in Seq(Byte) /\ Len(l.holds) <= Limits.max_client_data
  BY WireAssumption
<1>2. Stands(<<"identity", Section(Limits.max_identity)>>, rec)
  <2>1. rec["identity"] \in Seq(Byte) /\ Len(rec["identity"]) <= Limits.max_identity
    <3>1. rec["identity"] = << l.token >>
      BY DEF BlobOf
    <3> HIDE DEF rec
    <3> QED
      BY <1>1, <3>1 DEF Limits
  <2>2. Limits.max_identity \in Nat /\ Limits.max_identity <= BodyMost
    BY DEF Limits, BodyMost
  <2> HIDE DEF rec
  <2> QED
    BY <2>1, <2>2, SectionStands
<1>3. Stands(<<"client_data", Section(Limits.max_client_data)>>, rec)
  <2>1. rec["client_data"] \in Seq(Byte) /\ Len(rec["client_data"]) <= Limits.max_client_data
    <3>1. rec["client_data"] = l.holds
      BY DEF BlobOf
    <3> HIDE DEF rec
    <3> QED
      BY <1>1, <3>1
  <2>2. Limits.max_client_data \in Nat /\ Limits.max_client_data <= BodyMost
    BY DEF Limits, BodyMost
  <2> HIDE DEF rec
  <2> QED
    BY <2>1, <2>2, SectionStands
<1> HIDE DEF rec
<1>4. Sendable(LoginBlob, rec)
  BY <1>2, <1>3 DEF Sendable, LoginBlob
<1>5. IsLayout(LoginBlob)
  BY DEF IsLayout, LoginBlob, FieldsOf
<1> QED
  BY <1>4, <1>5 DEF rec

LEMMA BlobLong ==
  ASSUME NEW l \in Logins
  PROVE  /\ Write(LoginBlob, BlobOf(l)) \in Seq(Byte)
         /\ Len(Write(LoginBlob, BlobOf(l))) <= BodyMost
<1> DEFINE layout == LoginBlob
           rec == BlobOf(l)
           S == FieldsOf(layout)
           parts == FieldParts(layout, rec)
           w == Write(layout, rec)
           most == SectionMost
<1>1. layout \in Seq(S) /\ Sendable(layout, rec)
  BY BlobSent DEF IsLayout
<1>2. Len(layout) = 2 /\ DOMAIN layout = 1 .. 2
  BY DEF LoginBlob
<1>3. \A k \in DOMAIN layout : layout[k][2].of = "section" /\ layout[k][2].limit + 4 <= SectionMost
  BY DEF LoginBlob, Section, Limits, SectionMost
<1> HIDE DEF rec, S, layout
<1>4. FitsLayout(layout, rec)
  BY <1>1 DEF FitsLayout, Sendable, Stands
<1>5. parts \in Seq(Seq(Byte)) /\ Len(parts) = 2 /\ w = Concat(parts) /\ w \in Seq(Byte)
  BY <1>1, <1>2, <1>4, PartsAre
<1>6. ASSUME NEW k \in 1 .. 2 PROVE Len(parts[k]) <= most
  <2>1. FitsField(layout[k][2], ValueFor(layout[k], rec))
    BY <1>2, <1>4 DEF FitsLayout
  <2>2. Len(PutField(layout[k][2], ValueFor(layout[k], rec))) <= SectionMost
    BY <1>2, <1>3, <2>1, SectionLong
  <2>3. parts[k] = PutField(layout[k][2], ValueFor(layout[k], rec))
    BY <1>2 DEF FieldParts
  <2> QED
    BY <2>2, <2>3
<1> HIDE DEF parts
<1>7. most \in Nat
  BY DEF SectionMost
<1> HIDE DEF most, w
<1>8. Len(Concat(parts)) <= Len(parts) * most
  <2>1. \A k \in 1 .. Len(parts) : Len(parts[k]) <= most
    BY <1>5, <1>6
  <2> QED
    BY <1>5, <1>7, <2>1, ConcatLong
<1>9. w \in Seq(Byte) /\ Len(w) <= 2 * most
  BY <1>5, <1>8
<1>10. Len(w) <= BodyMost
  BY <1>9 DEF most, SectionMost, BodyMost
<1> QED
  BY <1>9, <1>10 DEF w, layout, rec

LEMMA LoginLayout ==
  ASSUME NEW rec,
         Stands(<<"protocol", Big(4)>>, rec),
         Stands(<<"blob", Prefixed>>, rec)
  PROVE  IsLayout(Login) /\ Sendable(Login, rec)
<1>1. Sendable(Login, rec)
  BY DEF Sendable, Login
<1>2. IsLayout(Login)
  BY DEF IsLayout, Login, FieldsOf
<1> QED
  BY <1>1, <1>2

\* The login.
LEMMA LoginSays ==
  ASSUME NEW l \in Logins
  PROVE  Says(LoginPacket(l), ID_LOGIN, Login, LoginRec(l))
<1> DEFINE rec == LoginRec(l)
<1>1. Stands(<<"protocol", Big(4)>>, rec)
  <2>1. FitsWide(rec["protocol"])
    <3>1. rec["protocol"] = l.protocol /\ l.protocol \in Nat /\ l.protocol <= MostFixed
      BY WireAssumption DEF LoginRec
    <3> QED
      BY <3>1 DEF FitsWide
  <2> HIDE DEF rec
  <2> QED
    BY <2>1, WideIs
<1>2. Stands(<<"blob", Prefixed>>, rec)
  <2>1. FitsText(rec["blob"])
    <3>1. rec["blob"] = Write(LoginBlob, BlobOf(l))
      BY DEF LoginRec
    <3> QED
      BY <3>1, BlobLong DEF FitsText
  <2> HIDE DEF rec
  <2> QED
    BY <2>1, TextIs
<1>3. LoginPacket(l) = NewPacket(ID_LOGIN, Write(Login, rec))
  BY DEF LoginPacket, EncodeLogin, LoginRec, BlobOf
<1>4. ID_LOGIN \in Nat /\ ID_LOGIN < 1024
  BY DEF ID_LOGIN
<1> HIDE DEF rec
<1>5. IsLayout(Login) /\ Sendable(Login, rec)
  BY <1>1, <1>2, LoginLayout
<1>6. Says(LoginPacket(l), ID_LOGIN, Login, rec)
  BY <1>3, <1>4, <1>5, LayoutSays
<1> QED
  BY <1>6 DEF rec

\* What the server reads of a login is the token the client sent.
LEMMA LoginRead ==
  ASSUME NEW l \in Logins
  PROVE  /\ LoginPacket(l) \in Packet /\ LoginPacket(l).id = ID_LOGIN
         /\ DecodeLogin(LoginPacket(l).body).ok
         /\ DecodeLogin(LoginPacket(l).body).value.identity = << l.token >>
<1> DEFINE outer == Read(Login, LoginPacket(l).body, 1)
           rec == BlobOf(l)
           blob == Write(LoginBlob, rec)
           inner == Read(LoginBlob, blob, 1)
           known == Known(LoginBlob, rec, Len(LoginBlob))
<1>1. LoginPacket(l) \in Packet /\ LoginPacket(l).id = ID_LOGIN /\ outer.ok
  BY LoginSays DEF Says
<1>2. outer.value.blob = blob
  <2>1. 2 \in 1 .. Len(Login) /\ Login[2][1] = "blob" /\ ~ IsLiteral(Login[2])
    BY DEF Login, IsLiteral, Prefixed
  <2>2. outer.value["blob"] = LoginRec(l)["blob"]
    BY <2>1, LoginSays DEF Says
  <2> QED
    BY <2>2 DEF LoginRec
<1>3. IsLayout(LoginBlob) /\ Sendable(LoginBlob, rec)
  BY BlobSent
<1> HIDE DEF rec
<1>4. inner = Got(known, 1 + Len(blob))
  BY <1>3, Sent DEF IsLayout
<1>5. inner.ok /\ inner.value = known
  BY <1>4 DEF Got
<1>6. known["identity"] = rec["identity"] /\ "identity" \in DOMAIN known
  <2>1. 1 \in 1 .. Len(LoginBlob) /\ LoginBlob[1][1] = "identity" /\ ~ IsLiteral(LoginBlob[1])
    BY DEF LoginBlob, IsLiteral, Section
  <2>2. known["identity"] = rec["identity"]
    BY <1>3, <2>1, KnownHas DEF IsLayout
  <2>3. "identity" \in Names(LoginBlob, Len(LoginBlob))
    BY <2>1 DEF Names
  <2> QED
    BY <2>2, <2>3 DEF Known
<1>7. DecodeLogin(LoginPacket(l).body) = LoginOf(outer, inner)
  BY <1>1, <1>2 DEF DecodeLogin, FromBlob
<1> HIDE DEF inner, outer, known
<1>8. LoginOf(outer, inner) = Got(With(known, "protocol", outer.value.protocol), outer.next)
  BY <1>5 DEF LoginOf
<1>9. With(known, "protocol", outer.value.protocol)["identity"] = known["identity"]
  BY <1>6 DEF With
<1>10. rec["identity"] = << l.token >>
  BY DEF rec, BlobOf
<1> QED
  BY <1>1, <1>6, <1>7, <1>8, <1>9, <1>10 DEF Got

-----------------------------------------------------------------------------
(* Batches of them.                                                         *)

\* A batch of any packets, under the method byte.
LEMMA BatchIs ==
  ASSUME NEW packets \in Seq(Packet)
  PROVE  /\ EncodeWithMethod(packets) \in Seq(Byte) /\ Len(EncodeWithMethod(packets)) >= 2
         /\ DecodePackets(EncodeWithMethod(packets), 3)
              = Got(packets, Len(EncodeWithMethod(packets)) + 1)
         /\ DecodeWithMethod(EncodeWithMethod(packets))
              = Got(packets, Len(EncodeWithMethod(packets)) + 1)
<1> DEFINE e == EncodePackets(packets)
           w == EncodeWithMethod(packets)
<1>1. e \in Seq(Byte)
  BY BatchBytes
<1>2. DecodeWithMethod(w) = Got(packets, Len(w) + 1)
  BY BatchReadsBack
<1>3. <<MARKER, MethodNone>> \in Seq(Byte) /\ Len(<<MARKER, MethodNone>>) = 2
  BY DEF MARKER, MethodNone, Byte
<1>4. w = <<MARKER, MethodNone>> \o e
  BY DEF EncodeWithMethod
<1> HIDE DEF w, e
<1>5. w \in Seq(Byte) /\ Len(w) = 2 + Len(e) /\ Len(e) \in Nat
  BY <1>1, <1>3, <1>4, JoinedLong
<1>6. DecodeWithMethod(w).ok
  BY <1>2 DEF Got
<1>7. DecodeWithMethod(w) = DecodePackets(w, 3)
  BY <1>6 DEF DecodeWithMethod, Failed
<1>8. w \in Seq(Byte) /\ Len(w) >= 2 /\ DecodePackets(w, 3) = Got(packets, Len(w) + 1)
      /\ DecodeWithMethod(w) = Got(packets, Len(w) + 1)
  BY <1>2, <1>5, <1>7
<1> QED
  BY <1>8 DEF w

LEMMA OneIs ==
  ASSUME NEW p \in Packet
  PROVE  << p >> \in Seq(Packet)
<1> HIDE DEF Packet
<1> QED
  OBVIOUS

LEMMA TwoAre ==
  ASSUME NEW p \in Packet, NEW q \in Packet
  PROVE  << p, q >> \in Seq(Packet)
<1> HIDE DEF Packet
<1> QED
  OBVIOUS

LEMMA EncodeBytes ==
  ASSUME NEW p \in Packet
  PROVE  Encode(<< p >>) \in Seq(Byte)
<1> DEFINE e == EncodePackets(<< p >>)
<1>1. e \in Seq(Byte)
  BY OneIs, BatchBytes
<1>2. <<MARKER>> \in Seq(Byte) /\ Encode(<< p >>) = <<MARKER>> \o e
  BY DEF Encode, MARKER, Byte
<1> HIDE DEF e
<1> QED
  BY <1>1, <1>2, JoinedLong

\* One part joined is that part.
LEMMA ConcatOne ==
  ASSUME NEW parts \in Seq(Seq(Byte)), Len(parts) = 1
  PROVE  Concat(parts) = parts[1]
<1>1. PICK f : Joining!IsUpTo(f, <<>>, parts) /\ Concat(parts) = f[Len(parts)]
  BY ConcatIs
<1>2. f = [k \in 0 .. 1 |-> IF k = 0 THEN <<>> ELSE Joined(f[k - 1], parts[k])]
  BY <1>1 DEF Joining!IsUpTo
<1>3. f[0] = <<>> /\ f[1] = Joined(f[0], parts[1])
  BY <1>2
<1>4. parts[1] \in Seq(Byte)
  OBVIOUS
<1> HIDE DEF Byte
<1>5. <<>> \o parts[1] = parts[1]
  BY <1>4
<1> QED
  BY <1>1, <1>3, <1>5 DEF Joined

LEMMA AskingBody == Asking.body \in Seq(Byte) /\ Len(Asking.body) <= 100 /\ Header(Asking) = 193
<1> DEFINE rec == [protocol |-> TARGET_PROTOCOL]
           layout == RequestNetworkSettings
<1>1. Stands(<<"protocol", Big(4)>>, rec)
  <2>1. FitsWide(rec["protocol"])
    BY DEF FitsWide, TARGET_PROTOCOL, MostFixed
  <2> HIDE DEF rec
  <2> QED
    BY <2>1, WideIs
<1>2. IsLayout(layout) /\ Sendable(layout, rec)
  BY <1>1, RequestNetworkSettingsLayout
<1>3. Len(layout) = 1 /\ \A k \in DOMAIN layout : layout[k][2].of \notin {"prefixed", "section"}
  BY DEF RequestNetworkSettings, Big
<1> HIDE DEF rec, layout
<1>4. Write(layout, rec) \in Seq(Byte) /\ Len(Write(layout, rec)) <= Len(layout) * 100
  BY <1>2, <1>3, BriefWritten
<1>5. Asking.body = Write(layout, rec)
  BY DEF Asking, NewPacket, layout, rec
<1>6. Asking.id = 193 /\ Asking.sender = 0 /\ Asking.target = 0
  BY DEF Asking, NewPacket, ID_REQUEST_NETWORK_SETTINGS
<1>7. Header(Asking) = 193
  BY <1>6 DEF Header
<1> QED
  BY <1>3, <1>4, <1>5, <1>7

\* The first payload has no method byte: to a server that has settled it is nothing.
LEMMA RequestIs ==
  /\ Request \in Seq(Byte) /\ Decode(Request) = Got(<< Asking >>, Len(Request) + 1)
  /\ DecodeWithMethod(Request) = Failed
<1> DEFINE v == Varint[Header(Asking)]
           inner == v \o Asking.body
           n == Len(inner)
           put == Varint[n] \o inner
<1>1. Asking \in Packet
  BY AskingSays DEF Says
<1>2. Request = Encode(<< Asking >>)
  BY DEF Request, Asking
<1>3. Decode(Request) = Got(<< Asking >>, Len(Request) + 1) /\ Request \in Seq(Byte)
  BY <1>1, <1>2, OneBatch, EncodeBytes
<1>4. v \in Seq(Byte) /\ Len(v) \in Nat /\ Len(v) <= 5
  BY AskingBody, VarintLength, VarintShape DEF IsVaried, MostVaried
<1>5. inner \in Seq(Byte) /\ n \in Nat /\ n <= 105
  <2> HIDE DEF v
  <2>1. inner \in Seq(Byte) /\ n = Len(v) + Len(Asking.body) /\ Len(Asking.body) \in Nat
    BY <1>4, AskingBody, JoinedLong
  <2> HIDE DEF n, inner
  <2> QED
    BY <1>4, <2>1, AskingBody
<1>6. Varint[n] = << n >>
  <2>1. \A w \in Nat : w < 128 => Varint[w] = << w >>
    <3> SUFFICES ASSUME NEW w \in Nat, w < 128 PROVE Varint[w] = << w >>
      OBVIOUS
    <3> QED
      BY VarintIs
  <2> HIDE DEF n
  <2>2. n \in Nat /\ n < 128
    BY <1>5
  <2> QED
    BY <2>1, <2>2
<1>7. PutPacket(Asking) = put
  <2>1. Prefixed.of = "prefixed"
    BY DEF Prefixed
  <2>2. PutField(Prefixed, inner) = Varint[n] \o inner
    BY <2>1, PutIs
  <2> QED
    BY <2>2 DEF PutPacket
<1>8. put = << n >> \o inner
  BY <1>6
<1> HIDE DEF n, put, inner
<1>9. n \in Byte
  BY <1>5 DEF Byte
<1>10. put[1] = n /\ put \in Seq(Byte) /\ Len(put) >= 1
  <2> HIDE DEF Byte
  <2> QED
    BY <1>5, <1>8, <1>9
<1>11. EncodePackets(<< Asking >>) = put
  <2>1. << Asking >> \in Seq(Packet)
    BY <1>1, OneIs
  <2> DEFINE batch == << Asking >>
  <2>2. Len(batch) = 1 /\ batch[1] = Asking
    OBVIOUS
  <2> HIDE DEF batch
  <2>3. PICK parts : /\ parts \in Seq(Seq(Byte)) /\ Len(parts) = Len(batch)
                     /\ EncodePackets(batch) = Concat(parts)
                     /\ \A k \in 1 .. Len(batch) : parts[k] = PutPacket(batch[k])
    BY <2>1, EncodedIs DEF batch
  <2>4. Concat(parts) = parts[1]
    BY <2>2, <2>3, ConcatOne
  <2>5. parts[1] = PutPacket(Asking)
    BY <2>2, <2>3
  <2> QED
    BY <1>7, <2>3, <2>4, <2>5 DEF batch
<1>12. Request = << MARKER >> \o put
  BY <1>2, <1>11 DEF Encode
<1>13. Request[2] = put[1]
  <2> HIDE DEF Byte
  <2>1. \A a : a = << MARKER >> \o put => a[2] = put[1]
    BY <1>10
  <2> QED
    BY <1>12, <2>1
<1>14. Request[2] # MethodNone
  BY <1>5, <1>10, <1>13 DEF MethodNone
<1>15. DecodeWithMethod(Request) = Failed
  BY <1>14 DEF DecodeWithMethod
<1> QED
  BY <1>3, <1>15
=============================================================================

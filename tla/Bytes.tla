------------------------------- MODULE Bytes -------------------------------
(***************************************************************************)
(* What both protocols write and read packets with: the two Writer/Reader  *)
(* pairs (raknet's wire.rs, the game's bytes.rs) and the socket addresses  *)
(* of address.rs.                                                          *)
(*                                                                         *)
(* A packet is a layout: a sequence of <<name, kind>>, a kind saying how   *)
(* one field stands on the wire. Write turns a record into bytes along a   *)
(* layout, Read reads one back, and fails where the code returns an error: *)
(* past the end, or at bytes that are not what the field must be. A read   *)
(* never looks at what follows the last field.                             *)
(*                                                                         *)
(* Numbers here are below 2^31, so the upper bytes of a wide field are     *)
(* zero; a field whose bytes say more reads as Huge. A float is carried as *)
(* a whole number of hundredths in its four bytes: rounding is left out.   *)
(***************************************************************************)
EXTENDS Integers, Sequences

Byte == 0 .. 255
Huge == 2147483647

\* The largest numbers a fixed field and a varint do not read as Huge.
MostFixed == 2147483391
MostVaried == 2147483519

-----------------------------------------------------------------------------
(* Integers.                                                                *)

\* Byte k of v, counted from the lowest.
ByteOf(v, k) == IF k > 3 THEN 0 ELSE (v \div <<1, 256, 65536, 16777216>>[k + 1]) % 256

LittleEndian(v, width) == [k \in 1 .. width |-> ByteOf(v, k - 1)]
BigEndian(v, width) == [k \in 1 .. width |-> ByteOf(v, width - k)]

FromBig(bytes) ==
  LET more(high, byte) == IF high >= 8388607 THEN Huge ELSE 256 * high + byte
      upTo[k \in 0 .. Len(bytes)] == IF k = 0 THEN 0 ELSE more(upTo[k - 1], bytes[k])
  IN upTo[Len(bytes)]

FromLittle(bytes) == FromBig([k \in 1 .. Len(bytes) |-> bytes[Len(bytes) + 1 - k]])

\* Seven bits a byte, the lowest first; the top bit says that more follow.
Varint[v \in Nat] == IF v < 128 THEN <<v>> ELSE <<(v % 128) + 128>> \o Varint[v \div 128]

FromVarint(bytes) ==
  LET more(high, byte) == IF high >= 16777215 THEN Huge ELSE 128 * high + (byte % 128)
      upFrom[k \in 1 .. Len(bytes) + 1] ==
        IF k > Len(bytes) THEN 0 ELSE more(upFrom[k + 1], bytes[k])
  IN upFrom[1]

\* Small negatives to small naturals: 0, -1, 1, -2, 2, ...
ZigZag(v) == IF v >= 0 THEN 2 * v ELSE (-2) * v - 1
FromZigZag(n) == IF n % 2 = 0 THEN n \div 2 ELSE -((n + 1) \div 2)

-----------------------------------------------------------------------------
(* Addresses: [ip, port], the ip four octets or sixteen.                    *)

UnassignedAddress == [ip |-> <<255, 255, 255, 255>>, port |-> 0]

IsEmptySlot(a) ==
  /\ a.port = 0
  /\ \/ \A k \in DOMAIN a.ip : a.ip[k] = 0
     \/ Len(a.ip) = 4 /\ \A k \in DOMAIN a.ip : a.ip[k] = 255

\* The tag of IPv4, the octets complemented, the port. There is no layout for
\* IPv6: it is written as unassigned.
AddressBytes(a) ==
  LET v4 == IF Len(a.ip) = 4 THEN a ELSE UnassignedAddress
  IN <<4>> \o [k \in 1 .. 4 |-> 255 - v4.ip[k]] \o BigEndian(v4.port, 2)

FromAddress(bytes) ==
  [ip |-> [k \in 1 .. 4 |-> 255 - bytes[k + 1]], port |-> FromBig(SubSeq(bytes, 6, 7))]

-----------------------------------------------------------------------------
(* The kinds of field.                                                      *)

Big(width) == [of |-> "big", width |-> width]
Little(width) == [of |-> "little", width |-> width]
U8 == Big(1)
Var(most) == [of |-> "varint", most |-> most]     \* at most so many bytes
Zig(most) == [of |-> "zigzag", most |-> most]
Is(bytes) == [of |-> "literal", bytes |-> bytes]
Raw(width) == [of |-> "raw", width |-> width]
Prefixed == [of |-> "prefixed"]                   \* a varint length, the bytes
Counted(width) == [of |-> "counted", width |-> width]
Section(limit) == [of |-> "section", limit |-> limit]
Option(width) == [of |-> "option", width |-> width]
Address == [of |-> "address"]
Float == [of |-> "float"]                         \* a whole number of hundredths
Slots(tail) == [of |-> "slots", tail |-> tail]    \* up to the last tail bytes
Rest == [of |-> "rest"]

Failed == [ok |-> FALSE, value |-> <<>>, next |-> 0]
Got(value, next) == [ok |-> TRUE, value |-> value, next |-> next]

\* Sequences one after the other.
Concat(parts) ==
  LET upTo[k \in 0 .. Len(parts)] == IF k = 0 THEN <<>> ELSE upTo[k - 1] \o parts[k]
  IN upTo[Len(parts)]

PutField(kind, v) ==
  CASE kind.of = "big"      -> BigEndian(v, kind.width)
    [] kind.of = "little"   -> LittleEndian(v, kind.width)
    [] kind.of = "varint"   -> Varint[v]
    [] kind.of = "zigzag"   -> Varint[ZigZag(v)]
    [] kind.of = "literal"  -> kind.bytes
    [] kind.of = "prefixed" -> Varint[Len(v)] \o v
    [] kind.of = "counted"  -> BigEndian(Len(v), kind.width) \o v
    [] kind.of = "section"  -> LittleEndian(Len(v), 4) \o v
    [] kind.of = "option"   -> IF v = <<>> THEN <<0>> ELSE <<1>> \o BigEndian(v[1], kind.width)
    [] kind.of = "address"  -> AddressBytes(v)
    [] kind.of = "float"    -> LittleEndian(ZigZag(v), 4)
    [] kind.of = "slots"    -> Concat([k \in DOMAIN v |-> AddressBytes(v[k])])
    [] kind.of \in {"raw", "rest"} -> v

\* Reader::bytes: the next n of buf, or an error.
TakeBytes(buf, at, n) ==
  IF n > Len(buf) - at + 1 THEN Failed ELSE Got(SubSeq(buf, at, at + n - 1), at + n)

\* Reader::varint: up to the first byte that says nothing follows. A fifth
\* byte's upper bits are dropped, so the same number has overlong forms.
TakeVarint(buf, at, most) ==
  LET ends == {k \in 1 .. most : at + k - 1 <= Len(buf) /\ buf[at + k - 1] < 128}
      n    == CHOOSE k \in ends : \A j \in ends : k <= j
  IN IF ends = {} THEN Failed ELSE Got(FromVarint(SubSeq(buf, at, at + n - 1)), at + n)

TakeAddress(buf, at) ==
  LET got == TakeBytes(buf, at, 7)
  IN IF ~ got.ok \/ buf[at] # 4 THEN Failed ELSE Got(FromAddress(got.value), got.next)

\* What was read, before the rest.
Before(one, rest) ==
  IF one.ok /\ rest.ok THEN Got(<<one.value>> \o rest.value, rest.next) ELSE Failed

\* Addresses while more than tail bytes are left: how many there are is not
\* on the wire.
TakeSlots(buf, at, tail) ==
  LET from[k \in Nat] ==
        IF Len(buf) - k + 1 <= tail THEN Got(<<>>, k)
        ELSE Before(TakeAddress(buf, k), from[k + 7])
  IN from[at]

\* A length, then as many bytes; none past a limit.
TakeCounted(buf, length, limit) ==
  IF ~ length.ok \/ length.value > limit THEN Failed
  ELSE TakeBytes(buf, length.next, length.value)

TakeOption(buf, at, width) ==
  LET flag  == TakeBytes(buf, at, 1)
      value == TakeBytes(buf, at + 1, width)
  IN IF ~ flag.ok THEN Failed
     ELSE IF flag.value = <<0>> THEN Got(<<>>, at + 1)
     ELSE IF value.ok THEN Got(<<FromBig(value.value)>>, value.next)
     ELSE Failed

\* got, its value taken through Meaning.
Then(got, Meaning(_)) == IF got.ok THEN Got(Meaning(got.value), got.next) ELSE Failed

TakeField(kind, buf, at) ==
  CASE kind.of = "big"      -> Then(TakeBytes(buf, at, kind.width), FromBig)
    [] kind.of = "little"   -> Then(TakeBytes(buf, at, kind.width), FromLittle)
    [] kind.of = "varint"   -> TakeVarint(buf, at, kind.most)
    [] kind.of = "zigzag"   -> Then(TakeVarint(buf, at, kind.most), FromZigZag)
    [] kind.of = "literal"  -> LET got == TakeBytes(buf, at, Len(kind.bytes))
                               IN IF got.value = kind.bytes THEN got ELSE Failed
    [] kind.of = "raw"      -> TakeBytes(buf, at, kind.width)
    [] kind.of = "prefixed" -> TakeCounted(buf, TakeVarint(buf, at, 5), Huge)
    [] kind.of = "counted"  -> TakeCounted(buf, Then(TakeBytes(buf, at, kind.width), FromBig), Huge)
    [] kind.of = "section"  -> TakeCounted(buf, Then(TakeBytes(buf, at, 4), FromLittle), kind.limit)
    [] kind.of = "option"   -> TakeOption(buf, at, kind.width)
    [] kind.of = "address"  -> TakeAddress(buf, at)
    [] kind.of = "float"    -> Then(Then(TakeBytes(buf, at, 4), FromLittle), FromZigZag)
    [] kind.of = "slots"    -> TakeSlots(buf, at, kind.tail)
    [] kind.of = "rest"     -> Got(SubSeq(buf, at, Len(buf)), Len(buf) + 1)

-----------------------------------------------------------------------------
(* Layouts. A literal has no name and is in no record.                      *)

With(rec, name, value) == [n \in DOMAIN rec \cup {name} |-> IF n = name THEN value ELSE rec[n]]

Write(layout, rec) ==
  Concat([k \in DOMAIN layout |->
            PutField(layout[k][2], IF layout[k][2].of = "literal" THEN <<>> ELSE rec[layout[k][1]])])

\* What has been read, with the field got; and with the next field read.
Extended(before, field, got) ==
  IF ~ got.ok THEN Failed
  ELSE Got(IF field[2].of = "literal" THEN before.value ELSE With(before.value, field[1], got.value),
           got.next)

ReadField(before, field, buf) ==
  IF before.ok THEN Extended(before, field, TakeField(field[2], buf, before.next)) ELSE Failed

Read(layout, buf, start) ==
  LET upTo[k \in 0 .. Len(layout)] ==
        IF k = 0 THEN Got([n \in {} |-> <<>>], start)
        ELSE ReadField(upTo[k - 1], layout[k], buf)
  IN upTo[Len(layout)]

\* A field with no name, whose bytes must stand there.
Fixed(bytes) == <<"", Is(bytes)>>
=============================================================================

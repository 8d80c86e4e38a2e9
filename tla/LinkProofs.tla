----------------------------- MODULE LinkProofs ------------------------------
(***************************************************************************)
(* Theorems about two sessions on a network, for any scripts, any windows  *)
(* and any limits.                                                         *)
(*                                                                         *)
(* First what every method of Session keeps: the types of its fields and   *)
(* three relations between them. SendingOK relates the indices spent to    *)
(* the payloads accepted, WindowOK bounds the window and has a datagram    *)
(* past its retries mark the session dead, PendingOK counts the fragments  *)
(* held. Every method is taken loop by loop; the loops go through Folding. *)
(*                                                                         *)
(* Then LinkOK, of each session by itself: every variable keeps its type,  *)
(* no index is spent on a payload that was not sent whole, and what a      *)
(* session holds stays within the limits of its configuration.             *)
(*                                                                         *)
(* Last LinkAgrees, of each session and its peer. ids gives the payloads   *)
(* of a log the numbers they were cut under, which nothing in the program  *)
(* keeps: a fragment in flight or on the network, a held payload and a     *)
(* piece of one are then all of the payload the sender logged there. From  *)
(* it follow, until an index wraps (Fits): buffers match what was sent,    *)
(* nothing is skipped, every answer is given once, a disconnect closes,    *)
(* and the link implements two abstract channels.                          *)
(***************************************************************************)
EXTENDS Link, FiniteSetTheorems, SequenceTheorems, TLAPS

Maps(D, V) == UNION {[X -> V] : X \in SUBSET D}

Kinds ==
  {"user", "request", "accepted", "incoming", "ping", "pong", "disconnect", "garbled"}
Payload == [kind : Kinds, id : Nat, parts : Nat \ {0}]
Split == [id : Nat, count : Nat, index : Nat]
Frame == [rel : Nat, ord : Nat, payload : Payload, split : Split]
Batch == Seq(Frame)
FramesDatagram == [type : {"frames"}, seq : Nat, frames : Batch]
AckDatagram == [type : {"ack"}, seqs : SUBSET Nat]
Datagrams == FramesDatagram \cup AckDatagram

Entry == [datagram : FramesDatagram, retries : Nat]
Assembly == [count : Nat, pieces : Maps(Nat, Payload)]

States == {"Connecting", "Connected"} \cup Reasons
Faults == {"split", "order", "reply", "expired"}
InFlights == Maps(Nat, Entry)
Pendings == Maps(Nat, Assembly)
Orderings ==
  {o \in [expected : Nat, buffered : Maps(Nat, Payload)] :
     \A k \in DOMAIN o.buffered : o.expected < k /\ k < o.expected + OrderWindow}
Dedups == {d \in [floor : Nat, seen : SUBSET Nat] : \E n \in Nat : d.seen \subseteq 0 .. n}

SessionType ==
  [state : States,
   nextSeq : Nat, nextRel : Nat, nextOrd : Nat, nextSplit : Nat,
   inFlight : InFlights, dead : BOOLEAN, outbox : Seq(Datagrams),
   pending : Pendings, buffered : Nat,
   ordering : Orderings, dedup : Dedups, pendingAcks : SUBSET Nat,
   log : Seq(Payload), faults : SUBSET Faults]

SendingOK(s) ==
  /\ s.nextOrd = Len(s.log)
  /\ s.nextRel = FirstFrame(s.log, Len(s.log) + 1)

WindowOK(s) ==
  /\ IsFiniteSet(DOMAIN s.inFlight)
  /\ Cardinality(DOMAIN s.inFlight) <= MaxInFlight
  /\ \A q \in DOMAIN s.inFlight :
       /\ q < s.nextSeq
       /\ Exhausted(s.inFlight[q]) => s.dead

PendingOK(s) ==
  /\ IsFiniteSet(DOMAIN s.pending)
  /\ Cardinality(DOMAIN s.pending) <= MaxPending
  /\ \A id \in DOMAIN s.pending : IsFiniteSet(DOMAIN s.pending[id].pieces)
  /\ IsFiniteSet(Pieces(s))
  /\ s.buffered = Cardinality(Pieces(s))
  /\ s.buffered <= MaxBuffered

SessionOK(s) == s \in SessionType /\ SendingOK(s) /\ WindowOK(s) /\ PendingOK(s)

-----------------------------------------------------------------------------

LEMMA MapsDef ==
  ASSUME NEW D, NEW V, NEW m
  PROVE  m \in Maps(D, V) <=>
           /\ m = [k \in DOMAIN m |-> m[k]]
           /\ DOMAIN m \subseteq D
           /\ \A k \in DOMAIN m : m[k] \in V
<1>1. m \in Maps(D, V) <=> \E X \in SUBSET D : m \in [X -> V]
  BY DEF Maps
<1> QED
  BY <1>1

LEMMA MapsEmpty == ASSUME NEW D, NEW V PROVE EmptyMap \in Maps(D, V)
<1>1. EmptyMap = [k \in DOMAIN EmptyMap |-> EmptyMap[k]] /\ DOMAIN EmptyMap = {}
  BY DEF EmptyMap
<1> QED
  BY <1>1, MapsDef

LEMMA MapsRestrict ==
  ASSUME NEW D, NEW V, NEW m \in Maps(D, V), NEW X, X \subseteq DOMAIN m
  PROVE  [k \in X |-> m[k]] \in Maps(D, V)
<1> DEFINE r == [k \in X |-> m[k]]
<1>1. DOMAIN r = X /\ r = [k \in DOMAIN r |-> r[k]] /\ \A k \in X : r[k] = m[k]
  OBVIOUS
<1>2. X \subseteq D /\ \A k \in X : m[k] \in V
  BY MapsDef
<1> HIDE DEF r
<1>3. r \in Maps(D, V)
  BY <1>1, <1>2, MapsDef
<1> QED
  BY <1>3 DEF r

LEMMA MapsExtend ==
  ASSUME NEW D, NEW V, NEW m \in Maps(D, V), NEW x \in D, NEW v \in V,
         NEW X, X \subseteq DOMAIN m
  PROVE  [k \in X \cup {x} |-> IF k = x THEN v ELSE m[k]] \in Maps(D, V)
<1> DEFINE r == [k \in X \cup {x} |-> IF k = x THEN v ELSE m[k]]
<1>1. DOMAIN r = X \cup {x} /\ r = [k \in DOMAIN r |-> r[k]] /\ r[x] = v
      /\ \A k \in X : k # x => r[k] = m[k]
  OBVIOUS
<1>2. DOMAIN m \subseteq D /\ \A k \in DOMAIN m : m[k] \in V
  BY MapsDef
<1> HIDE DEF r
<1>3. r \in Maps(D, V)
  BY <1>1, <1>2, MapsDef
<1> QED
  BY <1>3 DEF r

-----------------------------------------------------------------------------
(* FirstFrame, and the loop of SendFrames.                                  *)

AddParts(n, p) == n + p.parts
IsTotal(fixed, n, k) == n \in Nat
Sums == INSTANCE Folding WITH Op <- AddParts, Holds <- IsTotal

LEMMA FirstFrameIs ==
  \A log, k : FirstFrame(log, k) = Sums!Loop(0, SubSeq(log, 1, k - 1))
BY DEF FirstFrame, AddParts, Sums!Loop, Sums!MapThenFoldSet, Sums!Greatest,
       FoldLeft, MapThenFoldSet, Max

LEMMA FirstFrameEmpty == FirstFrame(<<>>, 1) = 0
<1>1. SubSeq(<<>>, 1, 1 - 1) = <<>>
  OBVIOUS
<1> QED
  BY <1>1, FirstFrameIs, Sums!FoldEmpty

LEMMA FirstFrameAppend ==
  ASSUME NEW log \in Seq(Payload), NEW p \in Payload
  PROVE  FirstFrame(Append(log, p), Len(log) + 2) = FirstFrame(log, Len(log) + 1) + p.parts
<1> DEFINE longer == Append(log, p)
<1>1. longer \in Seq(Payload) /\ Len(longer) = Len(log) + 1 /\ longer[Len(log) + 1] = p
      /\ longer # <<>>
  OBVIOUS
<1>2. SubSeq(longer, 1, Len(longer) - 1) = log
  OBVIOUS
<1>3. SubSeq(longer, 1, (Len(log) + 2) - 1) = longer
  OBVIOUS
<1>4. SubSeq(log, 1, (Len(log) + 1) - 1) = log
  OBVIOUS
<1> HIDE DEF longer
<1>5. Sums!Loop(0, longer)
        = AddParts(Sums!Loop(0, SubSeq(longer, 1, Len(longer) - 1)), longer[Len(longer)])
  BY <1>1, Sums!FoldLast
<1> QED
  BY <1>1, <1>2, <1>3, <1>4, <1>5, FirstFrameIs DEF AddParts, longer

LEMMA FirstFrameType ==
  ASSUME NEW log \in Seq(Payload)
  PROVE  FirstFrame(log, Len(log) + 1) \in Nat
<1>1. SubSeq(log, 1, (Len(log) + 1) - 1) = log
  OBVIOUS
<1>2. \A k \in 0 .. (Len(log) - 1) : \A n : IsTotal(0, n, k) => IsTotal(0, AddParts(n, log[k + 1]), k + 1)
  <2>1. \A k \in 0 .. (Len(log) - 1) : log[k + 1] \in Payload
    OBVIOUS
  <2> QED
    BY <2>1 DEF IsTotal, AddParts, Payload
<1>3. IsTotal(0, Sums!Loop(0, log), Len(log))
  <2>1. IsTotal(0, 0, 0)
    BY DEF IsTotal
  <2> QED
    BY <1>2, <2>1, Sums!FoldKeeps
<1> QED
  BY <1>1, <1>3, FirstFrameIs DEF IsTotal

\* m with v at x.
With(m, x, v) == [k \in DOMAIN m \cup {x} |-> IF k = x THEN v ELSE m[k]]

\* What the batches become: entries of the window, with their datagrams.
Entries(s, batches) ==
  [i \in 1 .. Len(batches) |->
     [datagram |-> [type |-> "frames", seq |-> Wire(s.nextSeq + i - 1), frames |-> batches[i]],
      retries |-> 0]]

\* The window old with the first k of the entries added from number n on.
Tracked(old, new, n, k, entries) ==
  /\ DOMAIN new = DOMAIN old \cup n .. (n + k - 1)
  /\ IsFiniteSet(DOMAIN new)
  /\ Cardinality(DOMAIN new) = Cardinality(DOMAIN old) + k
  /\ \A q \in DOMAIN old : new[q] = old[q]
  /\ \A i \in 1 .. k : new[n + i - 1] = entries[i]

\* The outbox old with the datagrams of the first k entries added.
Queued(old, new, k, entries) ==
  /\ new \in Seq(Datagrams)
  /\ Len(new) = Len(old) + k
  /\ \A i \in 1 .. Len(old) : new[i] = old[i]
  /\ \A i \in 1 .. k : new[Len(old) + i] = entries[i].datagram

FlushedSoFar(fixed, acc, k) ==
  LET s == fixed.s
      t == acc.s
      entries == Entries(s, fixed.batches)
  IN /\ acc = [s |-> t, ok |-> TRUE, flushed |-> k]
     /\ t = [s EXCEPT !.nextSeq = s.nextSeq + k, !.inFlight = t.inFlight, !.outbox = t.outbox]
     /\ t.inFlight \in InFlights
     /\ Tracked(s.inFlight, t.inFlight, s.nextSeq, k, entries)
     /\ Queued(s.outbox, t.outbox, k, entries)

Flushing == INSTANCE Folding WITH Op <- FlushBatch, Holds <- FlushedSoFar

LEMMA WireType == ASSUME NEW i \in Nat PROVE Wire(i) \in Nat
<1>1. IndexSpace \in Nat /\ IndexSpace > 0
  BY SessionAssumption
<1> QED
  BY <1>1 DEF Wire

LEMMA TrackOne ==
  ASSUME NEW old, NEW cur, NEW n \in Nat, NEW k \in Nat, NEW entries,
         DOMAIN old \subseteq 0 .. (n - 1), IsFiniteSet(DOMAIN old),
         Tracked(old, cur, n, k, entries)
  PROVE  Tracked(old, With(cur, n + k, entries[k + 1]), n, k + 1, entries)
<1> DEFINE new == With(cur, n + k, entries[k + 1])
<1>1. DOMAIN cur = DOMAIN old \cup n .. (n + k - 1)
  BY DEF Tracked
<1>2. /\ \A q \in DOMAIN old : cur[q] = old[q]
      /\ \A i \in 1 .. k : cur[n + i - 1] = entries[i]
  BY DEF Tracked
<1>3. DOMAIN new = DOMAIN cur \cup {n + k} /\ n + k \notin DOMAIN cur /\ new[n + k] = entries[k + 1]
      /\ \A q \in DOMAIN cur : new[q] = cur[q]
  BY <1>1 DEF With
<1> HIDE DEF new
<1>4. DOMAIN new = DOMAIN old \cup n .. (n + (k + 1) - 1)
  BY <1>1, <1>3
<1>5. IsFiniteSet(DOMAIN new) /\ Cardinality(DOMAIN new) = Cardinality(DOMAIN old) + (k + 1)
  <2>1. IsFiniteSet(DOMAIN cur) /\ Cardinality(DOMAIN cur) = Cardinality(DOMAIN old) + k
    BY DEF Tracked
  <2>2. IsFiniteSet(DOMAIN new) /\ Cardinality(DOMAIN new) = Cardinality(DOMAIN cur) + 1
    BY <1>3, <2>1, FS_AddElement
  <2>3. Cardinality(DOMAIN old) \in Nat
    BY FS_CardinalityType
  <2> QED
    BY <2>1, <2>2, <2>3
<1>6. ASSUME NEW q \in DOMAIN old PROVE new[q] = old[q]
  BY <1>1, <1>2, <1>3
<1>7. ASSUME NEW i \in 1 .. (k + 1) PROVE new[n + i - 1] = entries[i]
  <2>1. CASE i = k + 1
    <3>1. n + i - 1 = n + k
      BY <2>1
    <3> QED
      BY <1>3, <2>1, <3>1
  <2>2. CASE i # k + 1
    <3>1. i \in 1 .. k /\ n + i - 1 \in DOMAIN cur
      BY <1>1, <2>2
    <3> QED
      BY <1>2, <1>3, <3>1
  <2> QED
    BY <2>1, <2>2
<1>8. Tracked(old, new, n, k + 1, entries)
  BY <1>4, <1>5, <1>6, <1>7 DEF Tracked
<1> QED
  BY <1>8 DEF new

LEMMA QueueOne ==
  ASSUME NEW old \in Seq(Datagrams), NEW cur, NEW k \in Nat, NEW entries,
         Queued(old, cur, k, entries), entries[k + 1].datagram \in Datagrams
  PROVE  Queued(old, Append(cur, entries[k + 1].datagram), k + 1, entries)
<1> DEFINE d == entries[k + 1].datagram
           new == Append(cur, d)
<1>1. cur \in Seq(Datagrams) /\ Len(cur) = Len(old) + k /\ Len(old) \in Nat
  BY DEF Queued
<1>2. /\ new \in Seq(Datagrams) /\ Len(new) = Len(cur) + 1 /\ new[Len(cur) + 1] = d
      /\ \A i \in 1 .. Len(cur) : new[i] = cur[i]
  BY <1>1, AppendProperties
<1> HIDE DEF new
<1>3. ASSUME NEW i \in 1 .. Len(old) PROVE new[i] = old[i]
  BY <1>1, <1>2 DEF Queued
<1>4. ASSUME NEW i \in 1 .. (k + 1) PROVE new[Len(old) + i] = entries[i].datagram
  <2>1. CASE i = k + 1
    BY <1>1, <1>2, <2>1
  <2>2. CASE i # k + 1
    <3>1. i \in 1 .. k /\ Len(old) + i \in 1 .. Len(cur)
      BY <1>1, <2>2
    <3> QED
      BY <1>2, <3>1 DEF Queued
  <2> QED
    BY <2>1, <2>2
<1>5. Len(new) = Len(old) + (k + 1)
  BY <1>1, <1>2
<1>6. Queued(old, new, k + 1, entries)
  BY <1>2, <1>3, <1>4, <1>5 DEF Queued
<1> QED
  BY <1>6 DEF new

\* The window has room for the batches.
Takes(s, batches) ==
  /\ s \in SessionType
  /\ IsFiniteSet(DOMAIN s.inFlight)
  /\ DOMAIN s.inFlight \subseteq 0 .. (s.nextSeq - 1)
  /\ batches \in Seq(Batch)
  /\ Cardinality(DOMAIN s.inFlight) + Len(batches) <= MaxInFlight

LEMMA EntriesType ==
  ASSUME NEW s, NEW batches, Takes(s, batches), NEW i \in 1 .. Len(batches)
  PROVE  LET e == Entries(s, batches)[i]
         IN /\ e = [datagram |-> e.datagram, retries |-> 0]
            /\ e.datagram = [type |-> "frames", seq |-> Wire(s.nextSeq + i - 1), frames |-> batches[i]]
            /\ e.datagram \in FramesDatagram
            /\ e \in Entry
<1> DEFINE d == [type |-> "frames", seq |-> Wire(s.nextSeq + i - 1), frames |-> batches[i]]
           e == Entries(s, batches)[i]
<1>1. e = [datagram |-> d, retries |-> 0]
  BY DEF Entries
<1>2. d \in FramesDatagram
  <2>1. s.nextSeq \in Nat /\ batches \in Seq(Batch)
    BY DEF Takes, SessionType
  <2>2. i \in Nat /\ s.nextSeq + i - 1 \in Nat
    BY <2>1
  <2>3. Wire(s.nextSeq + i - 1) \in Nat
    BY <2>2, WireType
  <2> QED
    BY <2>1, <2>3 DEF FramesDatagram
<1> HIDE DEF d, e
<1>3. e.datagram = d /\ e \in Entry
  BY <1>1, <1>2 DEF Entry
<1>4. e = [datagram |-> e.datagram, retries |-> 0]
  BY <1>1, <1>3
<1> QED
  BY <1>2, <1>3, <1>4 DEF d, e

LEMMA FlushBatchStep ==
  ASSUME NEW s, NEW batches, Takes(s, batches),
         NEW k \in Nat, k < Len(batches), NEW acc,
         FlushedSoFar([s |-> s, batches |-> batches], acc, k)
  PROVE  FlushedSoFar([s |-> s, batches |-> batches], FlushBatch(acc, batches[k + 1]), k + 1)
<1> DEFINE t == acc.s
           entries == Entries(s, batches)
           entry == entries[k + 1]
           tracked == With(t.inFlight, s.nextSeq + k, entry)
           out == Append(t.outbox, entry.datagram)
           next == [t EXCEPT !.nextSeq = s.nextSeq + (k + 1), !.inFlight = tracked, !.outbox = out]
<1>1. /\ acc = [s |-> t, ok |-> TRUE, flushed |-> k]
      /\ t = [s EXCEPT !.nextSeq = s.nextSeq + k, !.inFlight = t.inFlight, !.outbox = t.outbox]
  BY DEF FlushedSoFar
<1>2. /\ t.inFlight \in InFlights
      /\ Tracked(s.inFlight, t.inFlight, s.nextSeq, k, entries)
      /\ Queued(s.outbox, t.outbox, k, entries)
  BY DEF FlushedSoFar
<1>3. /\ s \in SessionType /\ s.nextSeq \in Nat /\ s.outbox \in Seq(Datagrams)
      /\ DOMAIN s.inFlight \subseteq 0 .. (s.nextSeq - 1) /\ IsFiniteSet(DOMAIN s.inFlight)
  BY DEF Takes, SessionType
<1>4. ~ (Cardinality(DOMAIN t.inFlight) >= MaxInFlight)
  <2>1. Cardinality(DOMAIN s.inFlight) \in Nat
    BY <1>3, FS_CardinalityType
  <2>2. Cardinality(DOMAIN s.inFlight) + Len(batches) <= MaxInFlight /\ Len(batches) \in Nat
        /\ MaxInFlight \in Nat
    BY SessionAssumption DEF Takes
  <2>3. Cardinality(DOMAIN t.inFlight) = Cardinality(DOMAIN s.inFlight) + k
    BY <1>2 DEF Tracked
  <2> QED
    BY <2>1, <2>2, <2>3
<1>5. t \in SessionType /\ t.nextSeq = s.nextSeq + k
  <2>1. s.nextSeq + k \in Nat /\ t.outbox \in Seq(Datagrams)
    BY <1>2, <1>3 DEF Queued
  <2>2. t = [s EXCEPT !.nextSeq = s.nextSeq + k, !.inFlight = t.inFlight, !.outbox = t.outbox]
        /\ s \in SessionType /\ t.inFlight \in InFlights
    BY <1>1, <1>2, <1>3
  <2> HIDE DEF t
  <2> QED
    BY <2>1, <2>2 DEF SessionType
<1>6. /\ entry = [datagram |-> entry.datagram, retries |-> 0]
      /\ entry.datagram = [type |-> "frames", seq |-> Wire(t.nextSeq), frames |-> batches[k + 1]]
      /\ entry.datagram \in Datagrams /\ entry \in Entry
  <2>1. k + 1 \in 1 .. Len(batches)
    <3>1. Len(batches) \in Nat
      BY DEF Takes
    <3> QED
      BY <3>1
  <2>2. s.nextSeq + (k + 1) - 1 = t.nextSeq
    BY <1>3, <1>5
  <2>3. /\ entry = [datagram |-> entry.datagram, retries |-> 0]
        /\ entry.datagram = [type |-> "frames", seq |-> Wire(s.nextSeq + (k + 1) - 1), frames |-> batches[k + 1]]
        /\ entry.datagram \in FramesDatagram
        /\ entry \in Entry
    BY <2>1, EntriesType
  <2> QED
    BY <2>2, <2>3 DEF Datagrams
<1> HIDE DEF entries
<1>7. FlushBatch(acc, batches[k + 1]) = [s |-> next, ok |-> TRUE, flushed |-> k + 1]
  <2>1. acc.ok /\ acc.flushed = k
    BY <1>1
  <2>2. {"nextSeq", "inFlight", "outbox"} \subseteq DOMAIN t
    BY <1>5 DEF SessionType
  <2>3. t.nextSeq + 1 = s.nextSeq + (k + 1)
    BY <1>3, <1>5
  <2>4. [[t EXCEPT !.nextSeq = @ + 1] EXCEPT !.inFlight = tracked, !.outbox = Append(@, entry.datagram)] = next
    <3> HIDE DEF tracked, entry
    <3> QED
      BY <2>2, <2>3
  <2>5. tracked = [q \in DOMAIN t.inFlight \cup {t.nextSeq} |->
                     IF q = t.nextSeq THEN [datagram |-> entry.datagram, retries |-> 0] ELSE t.inFlight[q]]
    <3> HIDE DEF entry
    <3> QED
      BY <1>5, <1>6 DEF With
  <2> HIDE DEF tracked, entry, next
  <2> QED
    BY <1>4, <1>6, <2>1, <2>4, <2>5 DEF FlushBatch, Numbered
<1>8. tracked \in InFlights
  <2>1. s.nextSeq + k \in Nat
    BY <1>3
  <2> HIDE DEF entry
  <2> QED
    BY <1>2, <1>6, <2>1, MapsExtend DEF InFlights, With
<1>9. Tracked(s.inFlight, tracked, s.nextSeq, k + 1, entries)
  BY <1>2, <1>3, TrackOne
<1>10. Queued(s.outbox, out, k + 1, entries)
  BY <1>2, <1>3, <1>6, QueueOne
<1> HIDE DEF tracked, out
<1>11. next = [s EXCEPT !.nextSeq = s.nextSeq + (k + 1), !.inFlight = tracked, !.outbox = out]
       /\ next.inFlight = tracked /\ next.outbox = out
  <2> HIDE DEF t
  <2> QED
    BY <1>1, <1>3, <1>5 DEF SessionType, next
<1> HIDE DEF next
<1> DEFINE after == FlushBatch(acc, batches[k + 1])
<1>12. after = [s |-> next, ok |-> TRUE, flushed |-> k + 1] /\ after.s = next
  BY <1>7
<1> HIDE DEF after
<1>13. FlushedSoFar([s |-> s, batches |-> batches], after, k + 1)
  BY <1>8, <1>9, <1>10, <1>11, <1>12 DEF FlushedSoFar, entries
<1> QED
  BY <1>13 DEF after

\* Rounding up.
LEMMA Ceiling ==
  ASSUME NEW a \in Nat \ {0}, NEW b \in Nat \ {0}
  PROVE  LET n == (a + b - 1) \div b IN n \in Nat \ {0} /\ a <= n * b
<1> DEFINE x == a + b - 1
           n == x \div b
<1>1. x \in Nat /\ b \in Nat /\ b > 0
  OBVIOUS
<1> HIDE DEF x
<1>2. n \in Int /\ x <= n * b + b - 1
  BY <1>1
<1> HIDE DEF n
<1>3. a <= n * b
  BY <1>2 DEF x
<1>4. n > 0
  <2> SUFFICES ASSUME n <= 0 PROVE FALSE
    BY <1>2
  <2>1. n * b <= 0
    BY <1>1, <1>2
  <2> QED
    BY <1>2, <1>3, <2>1
<1> QED
  BY <1>2, <1>3, <1>4 DEF n, x

LEMMA FramesType ==
  ASSUME NEW s \in SessionType, NEW p \in Payload
  PROVE  /\ Frames(s, p) \in Seq(Frame)
         /\ Len(Frames(s, p)) = p.parts
<1>1. p.parts \in Nat /\ s.nextRel \in Nat /\ s.nextOrd \in Nat /\ s.nextSplit \in Nat
  BY DEF SessionType, Payload
<1>2. ASSUME NEW k \in 1 .. p.parts PROVE Frames(s, p)[k] \in Frame
  <2>1. Wire(s.nextRel + k - 1) \in Nat /\ Wire(s.nextOrd) \in Nat
    <3>1. s.nextRel + k - 1 \in Nat
      BY <1>1
    <3> QED
      BY <1>1, <3>1, WireType
  <2>2. NoSplit \in Split /\ [id |-> s.nextSplit, count |-> p.parts, index |-> k - 1] \in Split
    <3>1. k - 1 \in Nat
      OBVIOUS
    <3> QED
      BY <1>1, <3>1 DEF Split, NoSplit
  <2>3. Frames(s, p)[k] =
          [rel |-> Wire(s.nextRel + k - 1), ord |-> Wire(s.nextOrd), payload |-> p,
           split |-> IF p.parts = 1 THEN NoSplit
                     ELSE [id |-> s.nextSplit, count |-> p.parts, index |-> k - 1]]
    BY DEF Frames
  <2> QED
    BY <2>1, <2>2, <2>3 DEF Frame
<1>3. Frames(s, p) = [k \in 1 .. p.parts |-> Frames(s, p)[k]]
  BY DEF Frames
<1> HIDE DEF Frames
<1>4. Frames(s, p) \in [1 .. p.parts -> Frame]
  BY <1>2, <1>3
<1> QED
  BY <1>1, <1>4

LEMMA BatchesType ==
  ASSUME NEW frames \in Seq(Frame), Len(frames) # 0
  PROVE  /\ Batches(frames) \in Seq(Batch)
         /\ Len(Batches(frames)) = (Len(frames) + PerDatagram - 1) \div PerDatagram
         /\ \A b \in 1 .. Len(Batches(frames)) : \A i \in 1 .. Len(Batches(frames)[b]) :
              \E j \in 1 .. Len(frames) : Batches(frames)[b][i] = frames[j]
<1> DEFINE n == (Len(frames) + PerDatagram - 1) \div PerDatagram
           first(b) == (b - 1) * PerDatagram + 1
           last(b) == IF b * PerDatagram < Len(frames) THEN b * PerDatagram ELSE Len(frames)
           batch(b) == SubSeq(frames, first(b), last(b))
<1>1. PerDatagram \in Nat \ {0} /\ Len(frames) \in Nat \ {0}
  BY SessionAssumption
<1>2. n \in Nat
  BY <1>1, Ceiling
<1>3. Batches(frames) = [b \in 1 .. n |-> batch(b)]
  BY DEF Batches
<1>4. ASSUME NEW b \in 1 .. n
      PROVE  /\ batch(b) \in Seq(Frame)
             /\ \A i \in 1 .. Len(batch(b)) : \E j \in 1 .. Len(frames) : batch(b)[i] = frames[j]
  <2>1. b \in Nat /\ b >= 1
    BY <1>2
  <2>2. first(b) \in Nat /\ first(b) >= 1
    BY <1>1, <2>1
  <2>3. last(b) \in Nat /\ last(b) <= Len(frames)
    BY <1>1, <2>1
  <2> HIDE DEF first, last, n
  <2>4. \A i \in first(b) .. last(b) : frames[i] \in Frame
    BY <1>1, <2>2, <2>3
  <2>5. /\ batch(b) \in Seq(Frame)
        /\ Len(batch(b)) = (IF first(b) <= last(b) THEN last(b) - first(b) + 1 ELSE 0)
        /\ \A i \in 1 .. (last(b) - first(b) + 1) : batch(b)[i] = frames[first(b) + i - 1]
    BY <2>2, <2>3, <2>4, SubSeqProperties
  <2> HIDE DEF batch
  <2>6. ASSUME NEW i \in 1 .. Len(batch(b))
        PROVE  \E j \in 1 .. Len(frames) : batch(b)[i] = frames[j]
    <3>1. i \in 1 .. (last(b) - first(b) + 1)
      BY <2>2, <2>3, <2>5
    <3>2. first(b) + i - 1 \in 1 .. Len(frames)
      BY <1>1, <2>2, <2>3, <3>1
    <3> QED
      BY <2>5, <3>1, <3>2
  <2> QED
    BY <2>5, <2>6
<1> HIDE DEF n, batch
<1>5. Batches(frames) \in [1 .. n -> Batch]
  BY <1>3, <1>4 DEF Batch
<1>6. Batches(frames) \in Seq(Batch) /\ Len(Batches(frames)) = n
  BY <1>2, <1>5
<1>7. \A b \in 1 .. n : Batches(frames)[b] = batch(b)
  BY <1>3
<1>8. Len(Batches(frames)) = (Len(frames) + PerDatagram - 1) \div PerDatagram
  BY <1>6 DEF n
<1> QED
  BY <1>4, <1>6, <1>7, <1>8

\* A datagram of p's frames, as s numbers them.
Carries(s, p, d) ==
  /\ d \in FramesDatagram
  /\ \A i \in 1 .. Len(d.frames) : \E j \in 1 .. p.parts : d.frames[i] = Frames(s, p)[j]

\* What send makes of s when it takes p.
IsSent(s, p, t) ==
  /\ t \in SessionType
  /\ t = [s EXCEPT !.nextSeq = t.nextSeq, !.nextRel = s.nextRel + p.parts, !.nextOrd = s.nextOrd + 1,
                   !.nextSplit = NextSplit(s, p), !.inFlight = t.inFlight, !.outbox = t.outbox,
                   !.log = Append(s.log, p)]
  /\ IsFiniteSet(DOMAIN t.inFlight) /\ Cardinality(DOMAIN t.inFlight) <= MaxInFlight
  /\ \A q \in DOMAIN t.inFlight :
       \/ q \in DOMAIN s.inFlight /\ t.inFlight[q] = s.inFlight[q] /\ q < t.nextSeq
       \/ t.inFlight[q].retries = 0 /\ Carries(s, p, t.inFlight[q].datagram) /\ q < t.nextSeq
  /\ \A i \in 1 .. Len(t.outbox) :
       \/ i \in 1 .. Len(s.outbox) /\ t.outbox[i] = s.outbox[i]
       \/ Carries(s, p, t.outbox[i])

LEMMA FlushingIs ==
  \A base, seq : FoldLeft(FlushBatch, base, seq) = Flushing!Loop(base, seq)
BY DEF Flushing!Loop, Flushing!MapThenFoldSet, Flushing!Greatest, FoldLeft, MapThenFoldSet, Max

\* The loop of send_frames queues every batch.
LEMMA AllFlushed ==
  ASSUME NEW s, NEW batches, Takes(s, batches)
  PROVE  FlushedSoFar([s |-> s, batches |-> batches],
                      FoldLeft(FlushBatch, [s |-> s, ok |-> TRUE, flushed |-> 0], batches),
                      Len(batches))
<1> DEFINE fixed == [s |-> s, batches |-> batches]
           base == [s |-> s, ok |-> TRUE, flushed |-> 0]
<1>1. s \in SessionType /\ batches \in Seq(Batch) /\ s.nextSeq \in Nat /\ s.outbox \in Seq(Datagrams)
      /\ s.inFlight \in InFlights /\ Len(batches) \in Nat
  BY DEF Takes, SessionType
<1>2. FlushedSoFar(fixed, base, 0)
  <2>1. base.s = s /\ fixed.s = s /\ fixed.batches = batches
    OBVIOUS
  <2>2. s = [s EXCEPT !.nextSeq = s.nextSeq + 0, !.inFlight = s.inFlight, !.outbox = s.outbox]
    <3>1. s.nextSeq + 0 = s.nextSeq
      BY <1>1
    <3>2. s = [s EXCEPT !.nextSeq = s.nextSeq, !.inFlight = s.inFlight, !.outbox = s.outbox]
      BY <1>1 DEF SessionType
    <3> QED
      BY <3>1, <3>2
  <2>3. Tracked(s.inFlight, s.inFlight, s.nextSeq, 0, Entries(s, batches))
    <3>1. IsFiniteSet(DOMAIN s.inFlight) /\ Cardinality(DOMAIN s.inFlight) \in Nat
      BY FS_CardinalityType DEF Takes
    <3>2. s.nextSeq .. (s.nextSeq + 0 - 1) = {}
      BY <1>1
    <3> QED
      BY <3>1, <3>2 DEF Tracked
  <2>4. Queued(s.outbox, s.outbox, 0, Entries(s, batches))
    <3>1. Len(s.outbox) \in Nat
      BY <1>1
    <3> QED
      BY <1>1, <3>1 DEF Queued
  <2> HIDE DEF fixed, base
  <2>5. base = [s |-> base.s, ok |-> TRUE, flushed |-> 0]
    BY <2>1 DEF base
  <2> QED
    BY <1>1, <2>1, <2>2, <2>3, <2>4, <2>5 DEF FlushedSoFar
<1>3. ASSUME NEW k \in 0 .. (Len(batches) - 1), NEW acc, FlushedSoFar(fixed, acc, k)
      PROVE  FlushedSoFar(fixed, FlushBatch(acc, batches[k + 1]), k + 1)
  <2>1. k \in Nat /\ k < Len(batches)
    BY <1>1
  <2> QED
    BY <1>3, <2>1, FlushBatchStep
<1> HIDE DEF fixed, base
<1>4. FlushedSoFar(fixed, Flushing!Loop(base, batches), Len(batches))
  BY <1>1, <1>2, <1>3, Flushing!FoldKeeps
<1> QED
  BY <1>4, FlushingIs DEF fixed, base

LEMMA SendFramesIs ==
  ASSUME NEW s, SessionOK(s), NEW p \in Payload, HasRoom(s, p)
  PROVE  LET sent == SendFrames(s, p)
             t == [sent.s EXCEPT !.nextSplit = NextSplit(s, p)]
         IN sent = [s |-> sent.s, ok |-> TRUE] /\ IsSent(s, p, t)
<1> DEFINE batches == Batches(Frames(s, p))
           entries == Entries(s, batches)
           packed == FoldLeft(FlushBatch, [s |-> s, ok |-> TRUE, flushed |-> 0], batches)
           f == packed.s
           n == Len(batches)
           numbered == (n + 1) * PerDatagram + 1
           sent == SendFrames(s, p)
           t == [sent.s EXCEPT !.nextSplit = NextSplit(s, p)]
<1>1. s \in SessionType /\ p.parts \in Nat \ {0} /\ PerDatagram \in Nat \ {0} /\ MaxInFlight \in Nat
  BY SessionAssumption DEF SessionOK, Payload
<1>2. /\ batches \in Seq(Batch)
      /\ n = DatagramsNeeded(p)
      /\ \A b \in 1 .. n : \A i \in 1 .. Len(batches[b]) : \E j \in 1 .. p.parts : batches[b][i] = Frames(s, p)[j]
  <2>1. Frames(s, p) \in Seq(Frame) /\ Len(Frames(s, p)) = p.parts
    BY <1>1, FramesType
  <2> DEFINE frames == Frames(s, p)
  <2>2. frames \in Seq(Frame) /\ Len(frames) # 0
    BY <1>1, <2>1
  <2>3. Len(frames) = p.parts
    BY <2>1
  <2> HIDE DEF frames
  <2>4. /\ Batches(frames) \in Seq(Batch)
        /\ Len(Batches(frames)) = (Len(frames) + PerDatagram - 1) \div PerDatagram
        /\ \A b \in 1 .. Len(Batches(frames)) : \A i \in 1 .. Len(Batches(frames)[b]) :
             \E j \in 1 .. Len(frames) : Batches(frames)[b][i] = frames[j]
    BY <2>2, BatchesType
  <2> QED
    BY <2>3, <2>4 DEF DatagramsNeeded, frames
<1> HIDE DEF batches
<1>3. n \in Nat \ {0} /\ p.parts <= n * PerDatagram
  BY <1>1, <1>2, Ceiling DEF DatagramsNeeded
<1>4. Takes(s, batches)
  <2>1. s.nextSeq \in Nat /\ DOMAIN s.inFlight \subseteq Nat
    BY <1>1, MapsDef DEF SessionType, InFlights
  <2>2. IsFiniteSet(DOMAIN s.inFlight) /\ \A q \in DOMAIN s.inFlight : q < s.nextSeq
    BY DEF SessionOK, WindowOK
  <2>3. DOMAIN s.inFlight \subseteq 0 .. (s.nextSeq - 1)
    BY <2>1, <2>2
  <2>4. Cardinality(DOMAIN s.inFlight) + n <= MaxInFlight
    BY <1>2 DEF HasRoom
  <2> QED
    BY <1>1, <1>2, <2>2, <2>3, <2>4 DEF Takes
<1>5. FlushedSoFar([s |-> s, batches |-> batches], packed, n)
  BY <1>4, AllFlushed
<1> HIDE DEF packed
<1>6. /\ packed = [s |-> f, ok |-> TRUE, flushed |-> n]
      /\ f = [s EXCEPT !.nextSeq = s.nextSeq + n, !.inFlight = f.inFlight, !.outbox = f.outbox]
  BY <1>5 DEF FlushedSoFar
<1>7. /\ f.inFlight \in InFlights
      /\ Tracked(s.inFlight, f.inFlight, s.nextSeq, n, entries)
      /\ Queued(s.outbox, f.outbox, n, entries)
  BY <1>5 DEF FlushedSoFar
<1>8. ~ (numbered < p.parts)
  <2>1. n * PerDatagram \in Nat /\ (n + 1) * PerDatagram = n * PerDatagram + PerDatagram
    BY <1>1, <1>3
  <2> QED
    BY <1>1, <1>3, <2>1
<1>9. /\ s.nextSeq \in Nat /\ s.nextSeq + n \in Nat /\ s.nextRel + p.parts \in Nat /\ s.nextOrd + 1 \in Nat
      /\ NextSplit(s, p) \in Nat /\ f.outbox \in Seq(Datagrams) /\ Append(s.log, p) \in Seq(Payload)
      /\ s.outbox \in Seq(Datagrams)
  <2>1. s.nextSeq \in Nat /\ s.nextRel \in Nat /\ s.nextOrd \in Nat /\ s.nextSplit \in Nat
        /\ s.log \in Seq(Payload) /\ s.outbox \in Seq(Datagrams)
    BY <1>1 DEF SessionType
  <2>2. NextSplit(s, p) \in Nat
    <3>1. SplitSpace \in Nat /\ SplitSpace > 0
      BY SessionAssumption
    <3> QED
      BY <2>1, <3>1 DEF NextSplit
  <2> QED
    BY <1>1, <1>3, <1>7, <2>1, <2>2, SMTT(20) DEF Queued
<1>10. sent = [s |-> [f EXCEPT !.nextRel = s.nextRel + p.parts, !.nextOrd = s.nextOrd + 1,
                               !.log = Append(s.log, p)],
               ok |-> TRUE]
  <2>1. packed.ok /\ packed.flushed = n /\ n + 1 >= n
    BY <1>3, <1>6
  <2>2. /\ f.nextRel = s.nextRel /\ f.nextOrd = s.nextOrd /\ f.log = s.log
        /\ {"nextRel", "nextOrd", "log"} \subseteq DOMAIN f
    BY <1>1, <1>6 DEF SessionType
  <2>3. sent = [s |-> [f EXCEPT !.nextRel = @ + IF numbered < p.parts THEN numbered ELSE p.parts,
                                !.nextOrd = IF packed.flushed + 1 >= n THEN @ + 1 ELSE @,
                                !.log = IF packed.ok THEN Append(@, p) ELSE @],
                ok |-> packed.ok]
    BY <2>1 DEF SendFrames, packed, batches
  <2> HIDE DEF f, n, numbered
  <2> QED
    BY <1>8, <2>1, <2>2, <2>3
<1>11. t = [s EXCEPT !.nextSeq = s.nextSeq + n, !.nextRel = s.nextRel + p.parts, !.nextOrd = s.nextOrd + 1,
                     !.nextSplit = NextSplit(s, p), !.inFlight = f.inFlight, !.outbox = f.outbox,
                     !.log = Append(s.log, p)]
  <2>1. sent.s = [f EXCEPT !.nextRel = s.nextRel + p.parts, !.nextOrd = s.nextOrd + 1,
                           !.log = Append(s.log, p)]
    BY <1>10
  <2>2. f = [s EXCEPT !.nextSeq = s.nextSeq + n, !.inFlight = f.inFlight, !.outbox = f.outbox]
    BY <1>6
  <2> HIDE DEF f, n, sent
  <2>3. t = [sent.s EXCEPT !.nextSplit = NextSplit(s, p)]
    OBVIOUS
  <2> HIDE DEF t
  <2> QED
    BY <1>1, <2>1, <2>2, <2>3 DEF SessionType
<1> HIDE DEF t, sent, f
<1>12. t \in SessionType /\ t.nextSeq = s.nextSeq + n /\ t.inFlight = f.inFlight /\ t.outbox = f.outbox
  BY <1>1, <1>7, <1>9, <1>11 DEF SessionType
<1>13. \A i \in 1 .. n : entries[i].retries = 0 /\ Carries(s, p, entries[i].datagram)
  <2> SUFFICES ASSUME NEW i \in 1 .. n PROVE entries[i].retries = 0 /\ Carries(s, p, entries[i].datagram)
    OBVIOUS
  <2>1. /\ entries[i] = [datagram |-> entries[i].datagram, retries |-> 0]
        /\ entries[i].datagram = [type |-> "frames", seq |-> Wire(s.nextSeq + i - 1), frames |-> batches[i]]
        /\ entries[i].datagram \in FramesDatagram
    BY <1>4, EntriesType
  <2> HIDE DEF entries
  <2>2. entries[i].retries = 0 /\ entries[i].datagram.frames = batches[i]
    BY <2>1
  <2> QED
    BY <1>2, <2>1, <2>2 DEF Carries
<1>14. IsFiniteSet(DOMAIN t.inFlight) /\ Cardinality(DOMAIN t.inFlight) <= MaxInFlight
  BY <1>4, <1>7, <1>12 DEF Takes, Tracked
<1>15. ASSUME NEW q \in DOMAIN t.inFlight
       PROVE  \/ q \in DOMAIN s.inFlight /\ t.inFlight[q] = s.inFlight[q] /\ q < t.nextSeq
              \/ t.inFlight[q].retries = 0 /\ Carries(s, p, t.inFlight[q].datagram) /\ q < t.nextSeq
  <2>1. CASE q \in DOMAIN s.inFlight
    <3>1. q \in 0 .. (s.nextSeq - 1)
      BY <1>4, <2>1 DEF Takes
    <3>2. q < t.nextSeq
      BY <1>3, <1>9, <1>12, <3>1
    <3> QED
      BY <1>7, <1>12, <2>1, <3>2 DEF Tracked
  <2>2. CASE q \notin DOMAIN s.inFlight
    <3>1. q \in s.nextSeq .. (s.nextSeq + n - 1)
      BY <1>7, <1>12, <2>2 DEF Tracked
    <3>2. q - s.nextSeq + 1 \in 1 .. n /\ s.nextSeq + (q - s.nextSeq + 1) - 1 = q /\ q < t.nextSeq
      BY <1>3, <1>9, <1>12, <3>1, SMTT(20)
    <3>3. f.inFlight[s.nextSeq + (q - s.nextSeq + 1) - 1] = entries[q - s.nextSeq + 1]
      BY <1>7, <3>2 DEF Tracked
    <3> HIDE DEF entries
    <3> QED
      BY <1>12, <1>13, <3>2, <3>3
  <2> QED
    BY <2>1, <2>2
<1>16. ASSUME NEW i \in 1 .. Len(t.outbox)
       PROVE  \/ i \in 1 .. Len(s.outbox) /\ t.outbox[i] = s.outbox[i]
              \/ Carries(s, p, t.outbox[i])
  <2>1. Len(s.outbox) \in Nat /\ Len(t.outbox) = Len(s.outbox) + n
    BY <1>7, <1>9, <1>12 DEF Queued
  <2>2. CASE i \in 1 .. Len(s.outbox)
    BY <1>7, <1>12, <2>2 DEF Queued
  <2>3. CASE i \notin 1 .. Len(s.outbox)
    <3>1. i - Len(s.outbox) \in 1 .. n /\ Len(s.outbox) + (i - Len(s.outbox)) = i
      BY <1>3, <2>1, <2>3
    <3>2. t.outbox[Len(s.outbox) + (i - Len(s.outbox))] = entries[i - Len(s.outbox)].datagram
      BY <1>7, <1>12, <3>1 DEF Queued
    <3> HIDE DEF entries
    <3> QED
      BY <1>13, <3>1, <3>2
  <2> QED
    BY <2>2, <2>3
<1>17. t = [s EXCEPT !.nextSeq = t.nextSeq, !.nextRel = s.nextRel + p.parts, !.nextOrd = s.nextOrd + 1,
                     !.nextSplit = NextSplit(s, p), !.inFlight = t.inFlight, !.outbox = t.outbox,
                     !.log = Append(s.log, p)]
  BY <1>11, <1>12
<1>18. sent = [s |-> sent.s, ok |-> TRUE]
  BY <1>10
<1>19. IsSent(s, p, t)
  BY <1>12, <1>14, <1>15, <1>16, <1>17 DEF IsSent
<1> QED
  BY <1>18, <1>19 DEF t, sent

\* What each part of SessionOK is about.
LEMMA SendingSame ==
  ASSUME NEW s, NEW t, SendingOK(s), t.nextOrd = s.nextOrd, t.nextRel = s.nextRel, t.log = s.log
  PROVE  SendingOK(t)
BY DEF SendingOK

LEMMA WindowSame ==
  ASSUME NEW s, NEW t, WindowOK(s), t.inFlight = s.inFlight, t.nextSeq = s.nextSeq, t.dead = s.dead
  PROVE  WindowOK(t)
BY DEF WindowOK

LEMMA PendingSame ==
  ASSUME NEW s, NEW t, PendingOK(s), t.pending = s.pending, t.buffered = s.buffered
  PROVE  PendingOK(t)
BY DEF PendingOK, Pieces

LEMMA SentIsOK ==
  ASSUME NEW s, SessionOK(s), NEW p \in Payload, NEW t, IsSent(s, p, t)
  PROVE  SessionOK(t)
<1>1. s \in SessionType /\ t \in SessionType
  BY DEF SessionOK, IsSent
<1>2. /\ t.nextRel = s.nextRel + p.parts /\ t.nextOrd = s.nextOrd + 1 /\ t.log = Append(s.log, p)
      /\ t.dead = s.dead /\ t.pending = s.pending /\ t.buffered = s.buffered
  <2>1. t = [s EXCEPT !.nextSeq = t.nextSeq, !.nextRel = s.nextRel + p.parts, !.nextOrd = s.nextOrd + 1,
                   !.nextSplit = NextSplit(s, p), !.inFlight = t.inFlight, !.outbox = t.outbox,
                   !.log = Append(s.log, p)]
    BY DEF IsSent
  <2> QED
    BY <1>1, <2>1 DEF SessionType
<1>3. SendingOK(t)
  <2>1. s.log \in Seq(Payload) /\ SendingOK(s)
    BY DEF SessionOK, SessionType
  <2>2. Len(t.log) = Len(s.log) + 1 /\ Len(s.log) \in Nat
    BY <1>2, <2>1
  <2>3. FirstFrame(t.log, Len(s.log) + 2) = FirstFrame(s.log, Len(s.log) + 1) + p.parts
    BY <1>2, <2>1, FirstFrameAppend
  <2>4. Len(t.log) + 1 = Len(s.log) + 2
    BY <2>2
  <2> QED
    BY <1>2, <2>1, <2>2, <2>3, <2>4 DEF SendingOK
<1>4. WindowOK(t)
  <2>1. WindowOK(s) /\ MaxRetries \in Nat
    BY SessionAssumption DEF SessionOK
  <2>2. IsFiniteSet(DOMAIN t.inFlight) /\ Cardinality(DOMAIN t.inFlight) <= MaxInFlight
    BY DEF IsSent
  <2>3. ASSUME NEW q \in DOMAIN t.inFlight
        PROVE  /\ q < t.nextSeq
               /\ Exhausted(t.inFlight[q]) => t.dead
    <3>1. CASE q \in DOMAIN s.inFlight /\ t.inFlight[q] = s.inFlight[q] /\ q < t.nextSeq
      BY <1>2, <2>1, <3>1 DEF WindowOK
    <3>2. CASE t.inFlight[q].retries = 0 /\ q < t.nextSeq
      BY <2>1, <3>2 DEF Exhausted
    <3> QED
      BY <3>1, <3>2 DEF IsSent
  <2> QED
    BY <2>2, <2>3 DEF WindowOK
<1>5. PendingOK(t)
  BY <1>2, PendingSame DEF SessionOK
<1> QED
  BY <1>1, <1>3, <1>4, <1>5 DEF SessionOK

LEMMA NextSplitType == ASSUME NEW s \in SessionType, NEW p PROVE NextSplit(s, p) \in Nat
<1>1. SplitSpace \in Nat /\ SplitSpace > 0 /\ s.nextSplit \in Nat
  BY SessionAssumption DEF SessionType
<1> QED
  BY <1>1 DEF NextSplit

\* The outcomes of send.
LEMMA SendIs ==
  ASSUME NEW s, SessionOK(s), NEW p \in Payload
  PROVE  LET sent == Send(s, p)
         IN /\ sent = [s |-> sent.s, ok |-> sent.ok]
            /\ sent.ok \in BOOLEAN
            /\ sent.ok => ~ IsClosed(s) /\ IsSent(s, p, sent.s)
            /\ ~ sent.ok => sent.s = s \/ sent.s = [s EXCEPT !.nextSplit = NextSplit(s, p)]
<1> DEFINE cut == [s EXCEPT !.nextSplit = NextSplit(s, p)]
<1>1. CASE IsClosed(s)
  BY <1>1 DEF Send
<1>2. CASE ~ IsClosed(s) /\ ~ HasRoom(s, p)
  BY <1>2 DEF Send
<1>3. CASE ~ IsClosed(s) /\ HasRoom(s, p)
  <2> DEFINE sent == SendFrames(s, p)
  <2>1. sent = [s |-> sent.s, ok |-> TRUE] /\ IsSent(s, p, [sent.s EXCEPT !.nextSplit = NextSplit(s, p)])
    BY <1>3, SendFramesIs
  <2>2. cut.nextSplit = NextSplit(s, p)
    BY DEF SessionOK, SessionType
  <2>3. Send(s, p) = [sent EXCEPT !.s.nextSplit = cut.nextSplit]
    BY <1>3 DEF Send
  <2> HIDE DEF sent, cut
  <2>4. Send(s, p) = [s |-> [sent.s EXCEPT !.nextSplit = NextSplit(s, p)], ok |-> TRUE]
    <3>1. sent = [s |-> sent.s, ok |-> TRUE]
      BY <2>1
    <3> DEFINE a == sent.s
               b == [a EXCEPT !.nextSplit = NextSplit(s, p)]
    <3>2. Send(s, p) = [sent EXCEPT !.s = b]
      BY <2>2, <2>3
    <3>3. sent = [s |-> a, ok |-> TRUE]
      BY <3>1
    <3> HIDE DEF a, b
    <3>4. [sent EXCEPT !.s = b] = [s |-> b, ok |-> TRUE]
      <4>1. \A c : [[s |-> a, ok |-> c] EXCEPT !.s = b] = [s |-> b, ok |-> c]
        OBVIOUS
      <4> QED
        BY <3>3, <4>1
    <3> QED
      BY <3>2, <3>4 DEF a, b
  <2> QED
    BY <1>3, <2>1, <2>4
<1> QED
  BY <1>1, <1>2, <1>3

LEMMA SendKeeps ==
  ASSUME NEW s, SessionOK(s), NEW p \in Payload
  PROVE  /\ SessionOK(Send(s, p).s)
         /\ Send(s, p).ok \in BOOLEAN
         /\ LET t == Send(s, p).s
            IN /\ t.state = s.state /\ t.dead = s.dead /\ t.faults = s.faults /\ t.pending = s.pending
               /\ t.ordering = s.ordering /\ t.pendingAcks = s.pendingAcks /\ t.buffered = s.buffered
               /\ t.dedup = s.dedup
<1> DEFINE t == Send(s, p).s
<1>1. s \in SessionType /\ SendingOK(s) /\ WindowOK(s) /\ PendingOK(s)
  BY DEF SessionOK
<1>2. Send(s, p).ok \in BOOLEAN
  BY SendIs
<1> HIDE DEF t
<1> DEFINE Rest == /\ t.state = s.state /\ t.dead = s.dead /\ t.faults = s.faults /\ t.pending = s.pending
                   /\ t.ordering = s.ordering /\ t.pendingAcks = s.pendingAcks
                   /\ t.buffered = s.buffered /\ t.dedup = s.dedup
<1>3. CASE IsSent(s, p, t)
  <2>1. t = [s EXCEPT !.nextSeq = t.nextSeq, !.nextRel = s.nextRel + p.parts, !.nextOrd = s.nextOrd + 1,
                   !.nextSplit = NextSplit(s, p), !.inFlight = t.inFlight, !.outbox = t.outbox,
                   !.log = Append(s.log, p)]
    BY <1>3 DEF IsSent
  <2>2. Rest
    BY <1>1, <2>1 DEF SessionType
  <2> QED
    BY <1>2, <1>3, <2>2, SentIsOK DEF t
<1>4. CASE t = s
  BY <1>2, <1>4 DEF t
<1>5. CASE t = [s EXCEPT !.nextSplit = NextSplit(s, p)]
  <2>1. /\ t \in SessionType
        /\ t.nextOrd = s.nextOrd /\ t.nextRel = s.nextRel /\ t.log = s.log
        /\ t.inFlight = s.inFlight /\ t.nextSeq = s.nextSeq /\ t.dead = s.dead
        /\ t.pending = s.pending /\ t.buffered = s.buffered
    BY <1>1, <1>5, NextSplitType DEF SessionType
  <2>2. SendingOK(t) /\ WindowOK(t) /\ PendingOK(t)
    BY <1>1, <2>1, SendingSame, WindowSame, PendingSame
  <2>3. Rest
    BY <1>1, <1>5 DEF SessionType
  <2>4. SessionOK(t)
    BY <2>1, <2>2 DEF SessionOK
  <2> QED
    BY <1>2, <2>3, <2>4 DEF t
<1>6. IsSent(s, p, t) \/ t = s \/ t = [s EXCEPT !.nextSplit = NextSplit(s, p)]
  BY SendIs DEF t
<1> QED
  BY <1>3, <1>4, <1>5, <1>6

LEMMA AscendingExists ==
  ASSUME NEW bound \in Nat, NEW S \in SUBSET (0 .. bound)
  PROVE  \E f \in [1 .. Cardinality(S) -> S] : \A i, j \in DOMAIN f : i < j => f[i] < f[j]
<1> DEFINE Has(X) == \E f \in [1 .. Cardinality(X) -> X] : \A i, j \in DOMAIN f : i < j => f[i] < f[j]
           T == {m \in 0 .. (bound + 1) : \A X \in SUBSET (0 .. (m - 1)) : Has(X)}
<1>1. 0 \in T
  <2>1. ASSUME NEW X \in SUBSET (0 .. (0 - 1)) PROVE Has(X)
    <3>1. X = {} /\ Cardinality(X) = 0
      <4>1. \A x \in X : FALSE
        OBVIOUS
      <4>2. X = {}
        BY <4>1
      <4> QED
        BY <4>2, FS_EmptySet
    <3> DEFINE f == [i \in 1 .. 0 |-> 0]
    <3>2. f \in [1 .. Cardinality(X) -> X] /\ DOMAIN f = {}
      BY <3>1
    <3> HIDE DEF f
    <3> QED
      BY <3>2
  <2>2. 0 \in 0 .. (bound + 1)
    OBVIOUS
  <2> HIDE DEF Has
  <2> QED
    BY <2>1, <2>2
<1>2. ASSUME NEW m \in 0 .. ((bound + 1) - 1), m \in T PROVE m + 1 \in T
  <2> SUFFICES ASSUME NEW X \in SUBSET (0 .. m) PROVE Has(X)
    BY <1>2
  <2> DEFINE Y == X \ {m}
  <2>1. Y \in SUBSET (0 .. (m - 1)) /\ m \in Nat
    OBVIOUS
  <2>2. PICK g \in [1 .. Cardinality(Y) -> Y] : \A i, j \in DOMAIN g : i < j => g[i] < g[j]
    BY <1>2, <2>1
  <2>3. IsFiniteSet(Y) /\ Cardinality(Y) \in Nat
    <3>1. IsFiniteSet(0 .. (m - 1))
      BY <2>1, FS_Interval
    <3> QED
      BY <2>1, <3>1, FS_Subset, FS_CardinalityType
  <2>4. CASE m \notin X
    <3>1. X = Y
      BY <2>4
    <3> QED
      BY <2>2, <3>1
  <2>5. CASE m \in X
    <3> DEFINE n == Cardinality(Y)
               f == [i \in 1 .. (n + 1) |-> IF i = n + 1 THEN m ELSE g[i]]
    <3>1. X = Y \cup {m} /\ m \notin Y
      BY <2>5
    <3>2. Cardinality(X) = n + 1
      <4> HIDE DEF Y
      <4> QED
        BY <2>3, <3>1, FS_AddElement
    <3> HIDE DEF Y, n
    <3>3. \A i \in 1 .. n : g[i] \in Y /\ g[i] < m /\ g[i] \in Nat
      <4>1. \A i \in 1 .. n : g[i] \in Y
        BY <2>2 DEF n
      <4>2. \A y \in Y : y < m /\ y \in Nat
        BY <2>1
      <4> QED
        BY <4>1, <4>2
    <3>4. f \in [1 .. (n + 1) -> X]
      BY <2>3, <3>1, <3>3 DEF n
    <3>5. ASSUME NEW i \in 1 .. (n + 1), NEW j \in 1 .. (n + 1), i < j PROVE f[i] < f[j]
      <4>1. n \in Nat
        BY <2>3 DEF n
      <4>2. i \in 1 .. n /\ f[i] = g[i]
        BY <3>5, <4>1
      <4>3. CASE j = n + 1
        BY <3>3, <4>2, <4>3
      <4>4. CASE j # n + 1
        <5>1. j \in 1 .. n /\ f[j] = g[j]
          BY <4>1, <4>4
        <5>2. DOMAIN g = 1 .. n
          BY <2>2 DEF n
        <5> QED
          BY <2>2, <3>5, <4>2, <5>1, <5>2
      <4> QED
        BY <4>3, <4>4
    <3>6. DOMAIN f = 1 .. (n + 1)
      OBVIOUS
    <3> HIDE DEF f
    <3> QED
      BY <3>2, <3>4, <3>5, <3>6
  <2> QED
    BY <2>4, <2>5
<1>3. bound + 1 \in T
  <2>1. \A m \in 0 .. (bound + 1) : m \in T
    <3> HIDE DEF T
    <3> QED
      BY <1>1, <1>2, Sums!UpTo
  <2> QED
    BY <2>1
<1>4. (bound + 1) - 1 = bound
  OBVIOUS
<1> QED
  BY <1>3, <1>4

LEMMA AscendingIs ==
  ASSUME NEW bound \in Nat, NEW S \in SUBSET (0 .. bound)
  PROVE  Ascending(S) \in Seq(S) /\ \A i \in 1 .. Len(Ascending(S)) : Ascending(S)[i] \in S
<1>1. Ascending(S) \in [1 .. Cardinality(S) -> S]
  BY AscendingExists DEF Ascending
<1>2. Cardinality(S) \in Nat
  <2>1. IsFiniteSet(0 .. bound)
    BY FS_Interval
  <2> QED
    BY <2>1, FS_Subset, FS_CardinalityType
<1> QED
  BY <1>1, <1>2

\* Everything but the window, the outbox, pendingAcks and dead.
SameBesides(s, t) ==
  t = [s EXCEPT !.inFlight = t.inFlight, !.dead = t.dead, !.outbox = t.outbox,
                !.pendingAcks = t.pendingAcks]

LEMMA SameBesidesKeeps ==
  ASSUME NEW s, SessionOK(s), NEW t, SameBesides(s, t),
         t.inFlight \in InFlights, t.dead \in BOOLEAN, t.outbox \in Seq(Datagrams),
         t.pendingAcks \in SUBSET Nat, WindowOK(t)
  PROVE  SessionOK(t)
<1>1. s \in SessionType /\ SendingOK(s) /\ PendingOK(s)
  BY DEF SessionOK
<1>2. t \in SessionType /\ t.nextOrd = s.nextOrd /\ t.nextRel = s.nextRel /\ t.log = s.log
      /\ t.pending = s.pending /\ t.buffered = s.buffered
  BY <1>1 DEF SessionType, SameBesides
<1> QED
  BY <1>1, <1>2, SendingSame, PendingSame DEF SessionOK

LEMMA OnAckKeeps ==
  ASSUME NEW s, SessionOK(s), NEW seqs
  PROVE  LET t == OnAck(s, seqs)
         IN /\ SessionOK(t) /\ SameBesides(s, t)
            /\ t.outbox = s.outbox /\ t.dead = s.dead /\ t.pendingAcks = s.pendingAcks
            /\ DOMAIN t.inFlight \subseteq DOMAIN s.inFlight
            /\ \A q \in DOMAIN t.inFlight : t.inFlight[q] = s.inFlight[q]
<1> DEFINE m == [k \in DOMAIN s.inFlight \ seqs |-> s.inFlight[k]]
           t == OnAck(s, seqs)
<1>1. s \in SessionType /\ WindowOK(s) /\ s.inFlight \in InFlights
  BY DEF SessionOK, SessionType
<1>2. t = [s EXCEPT !.inFlight = m]
  BY DEF OnAck
<1>3. m \in InFlights /\ DOMAIN m \subseteq DOMAIN s.inFlight /\ \A q \in DOMAIN m : m[q] = s.inFlight[q]
  BY <1>1, MapsRestrict DEF InFlights
<1> HIDE DEF t, m
<1>4. t.inFlight = m /\ t.outbox = s.outbox /\ t.dead = s.dead /\ t.pendingAcks = s.pendingAcks
      /\ t.nextSeq = s.nextSeq /\ SameBesides(s, t)
  BY <1>1, <1>2 DEF SessionType, SameBesides
<1>5. WindowOK(t)
  <2>1. IsFiniteSet(DOMAIN m) /\ Cardinality(DOMAIN m) <= Cardinality(DOMAIN s.inFlight)
        /\ Cardinality(DOMAIN m) \in Nat /\ Cardinality(DOMAIN s.inFlight) \in Nat
    BY <1>1, <1>3, FS_Subset, FS_CardinalityType DEF WindowOK
  <2>2. Cardinality(DOMAIN m) <= MaxInFlight
    <3>1. Cardinality(DOMAIN s.inFlight) <= MaxInFlight /\ MaxInFlight \in Nat
      BY <1>1, SessionAssumption DEF WindowOK
    <3> QED
      BY <2>1, <3>1
  <2> QED
    BY <1>1, <1>3, <1>4, <2>1, <2>2 DEF WindowOK
<1>6. SessionOK(t)
  <2>1. t.outbox \in Seq(Datagrams) /\ t.dead \in BOOLEAN /\ t.pendingAcks \in SUBSET Nat
    BY <1>1, <1>4 DEF SessionType
  <2> QED
    BY <1>3, <1>4, <1>5, <2>1, SameBesidesKeeps
<1> QED
  BY <1>3, <1>4, <1>6 DEF t

LEMMA FlushAcksKeeps ==
  ASSUME NEW s, SessionOK(s)
  PROVE  LET t == FlushAcks(s)
         IN /\ SessionOK(t) /\ SameBesides(s, t)
            /\ t.inFlight = s.inFlight /\ t.dead = s.dead
            /\ \A i \in 1 .. Len(t.outbox) :
                 \/ i \in 1 .. Len(s.outbox) /\ t.outbox[i] = s.outbox[i]
                 \/ t.outbox[i] \in AckDatagram
<1> DEFINE t == FlushAcks(s)
           ack == [type |-> "ack", seqs |-> s.pendingAcks]
           out == IF Len(s.outbox) < MaxOutbox THEN Append(s.outbox, ack) ELSE s.outbox
<1>1. s \in SessionType /\ WindowOK(s) /\ s.inFlight \in InFlights /\ s.outbox \in Seq(Datagrams)
      /\ s.dead \in BOOLEAN /\ s.pendingAcks \in SUBSET Nat
  BY DEF SessionOK, SessionType
<1>2. CASE s.pendingAcks = {}
  <2>1. t = s
    BY <1>2 DEF FlushAcks
  <2>2. SameBesides(s, s)
    BY <1>1 DEF SameBesides, SessionType
  <2> QED
    BY <2>1, <2>2
<1>3. CASE s.pendingAcks # {}
  <2>1. t = [s EXCEPT !.pendingAcks = {}, !.outbox = out]
    BY <1>3 DEF FlushAcks
  <2>2. ack \in AckDatagram
    BY <1>1 DEF AckDatagram
  <2>3. out \in Seq(Datagrams)
        /\ \A i \in 1 .. Len(out) : \/ i \in 1 .. Len(s.outbox) /\ out[i] = s.outbox[i]
                                    \/ out[i] \in AckDatagram
    <3>1. CASE Len(s.outbox) < MaxOutbox
      <4>1. out = Append(s.outbox, ack)
        BY <3>1
      <4>2. ack \in Datagrams
        BY <2>2 DEF Datagrams
      <4> HIDE DEF out, ack
      <4>3. Append(s.outbox, ack) \in Seq(Datagrams) /\ Len(Append(s.outbox, ack)) = Len(s.outbox) + 1
            /\ \A i \in 1 .. Len(s.outbox) : Append(s.outbox, ack)[i] = s.outbox[i]
            /\ Append(s.outbox, ack)[Len(s.outbox) + 1] = ack
        BY <1>1, <4>2, AppendProperties
      <4>4. Len(s.outbox) \in Nat
        BY <1>1
      <4>5. \A i \in 1 .. (Len(s.outbox) + 1) : i \in 1 .. Len(s.outbox) \/ i = Len(s.outbox) + 1
        BY <4>4
      <4> QED
        BY <2>2, <4>1, <4>3, <4>5
    <3>2. CASE ~ (Len(s.outbox) < MaxOutbox)
      BY <1>1, <3>2
    <3> QED
      BY <3>1, <3>2
  <2> HIDE DEF out, ack, t
  <2>4. t.inFlight = s.inFlight /\ t.dead = s.dead /\ t.outbox = out /\ t.pendingAcks = {}
        /\ t.nextSeq = s.nextSeq /\ SameBesides(s, t)
    BY <1>1, <2>1 DEF SessionType, SameBesides
  <2>5. WindowOK(t)
    BY <1>1, <2>4, WindowSame
  <2>6. SessionOK(t)
    BY <1>1, <2>3, <2>4, <2>5, SameBesidesKeeps
  <2> QED
    BY <2>3, <2>4, <2>6 DEF t
<1> QED
  BY <1>2, <1>3

\* What sending datagrams again does to a session, however many and however
\* often.
Resent(s, t) ==
  /\ SessionOK(t) /\ SameBesides(s, t)
  /\ t.pendingAcks = s.pendingAcks
  /\ DOMAIN t.inFlight = DOMAIN s.inFlight
  /\ \A q \in DOMAIN t.inFlight : t.inFlight[q].datagram = s.inFlight[q].datagram
  /\ \A i \in 1 .. Len(t.outbox) :
       \/ i \in 1 .. Len(s.outbox) /\ t.outbox[i] = s.outbox[i]
       \/ \E q \in DOMAIN s.inFlight : t.outbox[i] = s.inFlight[q].datagram

LEMMA ResendKeeps ==
  ASSUME NEW s, SessionOK(s), NEW seqs, seqs \subseteq DOMAIN s.inFlight
  PROVE  Resent(s, Resend(s, seqs))
<1> DEFINE ordered == Ascending(seqs)
           room == MaxOutbox - Len(s.outbox)
           most == IF room < Len(ordered) THEN room ELSE Len(ordered)
           queued == SubSeq(ordered, 1, most)
           m == [k \in DOMAIN s.inFlight |->
                   IF k \in seqs THEN SpendRetry(s.inFlight[k]) ELSE s.inFlight[k]]
           more == [j \in 1 .. Len(queued) |-> m[queued[j]].datagram]
           dead == \E k \in DOMAIN m : Exhausted(m[k])
           t == Resend(s, seqs)
<1>1. s \in SessionType /\ WindowOK(s) /\ s.inFlight \in InFlights /\ s.outbox \in Seq(Datagrams)
      /\ s.nextSeq \in Nat /\ s.pendingAcks \in SUBSET Nat
  BY DEF SessionOK, SessionType
<1>2. t = [s EXCEPT !.inFlight = m, !.outbox = s.outbox \o more, !.dead = s.dead \/ dead]
  BY DEF Resend
<1>3. /\ DOMAIN s.inFlight \subseteq Nat
      /\ \A k \in DOMAIN s.inFlight :
           /\ s.inFlight[k] \in Entry
           /\ SpendRetry(s.inFlight[k]) \in Entry
           /\ SpendRetry(s.inFlight[k]).datagram = s.inFlight[k].datagram
           /\ SpendRetry(s.inFlight[k]).retries = s.inFlight[k].retries + 1
  <2>1. DOMAIN s.inFlight \subseteq Nat /\ \A k \in DOMAIN s.inFlight : s.inFlight[k] \in Entry
    BY <1>1, MapsDef DEF InFlights
  <2>2. \A e \in Entry : /\ SpendRetry(e) \in Entry
                         /\ SpendRetry(e).datagram = e.datagram
                         /\ SpendRetry(e).retries = e.retries + 1
    BY DEF SpendRetry, Entry
  <2> QED
    BY <2>1, <2>2
<1>4. DOMAIN m = DOMAIN s.inFlight /\ m = [k \in DOMAIN m |-> m[k]]
      /\ \A k \in DOMAIN m : /\ m[k] \in Entry /\ m[k].datagram = s.inFlight[k].datagram
                             /\ m[k].retries \in {s.inFlight[k].retries, s.inFlight[k].retries + 1}
  BY <1>3
<1> HIDE DEF m
<1>5. m \in InFlights
  BY <1>3, <1>4, MapsDef DEF InFlights
<1>6. ordered \in Seq(seqs) /\ \A i \in 1 .. Len(ordered) : ordered[i] \in seqs
  <2>1. \A q \in DOMAIN s.inFlight : q < s.nextSeq
    BY <1>1 DEF WindowOK
  <2>2. seqs \in SUBSET (0 .. s.nextSeq)
    BY <1>1, <1>3, <2>1
  <2> QED
    BY <1>1, <2>2, AscendingIs
<1> HIDE DEF ordered
<1>7. most \in Int /\ most <= Len(ordered)
  <2>1. Len(ordered) \in Nat /\ room \in Int
    BY <1>1, <1>6, SessionAssumption
  <2> HIDE DEF room
  <2> QED
    BY <2>1
<1> HIDE DEF most
<1>8. queued \in Seq(seqs) /\ Len(queued) \in Nat /\ \A i \in 1 .. Len(queued) : queued[i] \in seqs
  <2>1. \A i \in 1 .. most : ordered[i] \in seqs
    BY <1>6, <1>7
  <2>2. queued \in Seq(seqs)
    BY <1>7, <2>1, SubSeqProperties
  <2> HIDE DEF queued
  <2> QED
    BY <2>2
<1> HIDE DEF queued
<1>9. more \in Seq(Datagrams) /\ Len(more) = Len(queued)
      /\ \A i \in 1 .. Len(more) : \E q \in DOMAIN s.inFlight : more[i] = s.inFlight[q].datagram
  <2>1. \A i \in 1 .. Len(queued) : more[i] = s.inFlight[queued[i]].datagram /\ queued[i] \in DOMAIN s.inFlight
        /\ more[i] \in Datagrams
    BY <1>4, <1>8 DEF Entry, Datagrams
  <2>2. more \in [1 .. Len(queued) -> Datagrams]
    BY <2>1
  <2>3. more \in Seq(Datagrams) /\ Len(more) = Len(queued)
    BY <1>8, <2>2
  <2> HIDE DEF more
  <2> QED
    BY <2>1, <2>3
<1> HIDE DEF more, t
<1> DEFINE out == s.outbox \o more
<1>10. out \in Seq(Datagrams)
       /\ \A i \in 1 .. Len(out) : \/ i \in 1 .. Len(s.outbox) /\ out[i] = s.outbox[i]
                                   \/ \E q \in DOMAIN s.inFlight : out[i] = s.inFlight[q].datagram
  <2>1. more \in Seq(Datagrams) /\ s.outbox \in Seq(Datagrams)
    BY <1>1, <1>9
  <2>2. Len(s.outbox) \in Nat /\ Len(more) \in Nat
    BY <2>1
  <2>3. /\ out \in Seq(Datagrams) /\ Len(out) = Len(s.outbox) + Len(more)
        /\ \A i \in 1 .. (Len(s.outbox) + Len(more)) :
             out[i] = IF i <= Len(s.outbox) THEN s.outbox[i] ELSE more[i - Len(s.outbox)]
    BY <2>1, ConcatProperties
  <2> HIDE DEF out
  <2>4. ASSUME NEW i \in 1 .. (Len(s.outbox) + Len(more))
        PROVE  \/ i \in 1 .. Len(s.outbox) /\ out[i] = s.outbox[i]
               \/ i - Len(s.outbox) \in 1 .. Len(more) /\ out[i] = more[i - Len(s.outbox)]
    <3>1. CASE i <= Len(s.outbox)
      <4>1. i \in 1 .. Len(s.outbox)
        BY <2>2, <3>1
      <4>2. out[i] = s.outbox[i]
        BY <2>3, <3>1
      <4> QED
        BY <4>1, <4>2
    <3>2. CASE ~ (i <= Len(s.outbox))
      BY <2>2, <2>3, <3>2
    <3> QED
      BY <3>1, <3>2
  <2> QED
    BY <1>9, <2>3, <2>4
<1> HIDE DEF out
<1>11. t.dead = (s.dead \/ dead) /\ t.dead \in BOOLEAN
  <2> HIDE DEF dead
  <2>1. t.dead = (s.dead \/ dead)
    BY <1>1, <1>2 DEF SessionType
  <2> QED
    BY <2>1
<1>12. t.inFlight = m /\ t.outbox = out /\ t.pendingAcks = s.pendingAcks /\ t.nextSeq = s.nextSeq
  <2> HIDE DEF dead
  <2> QED
    BY <1>1, <1>2 DEF SessionType, out
<1>13. SameBesides(s, t)
  <2>1. t = [s EXCEPT !.inFlight = t.inFlight, !.outbox = t.outbox, !.dead = t.dead]
    <3> HIDE DEF dead
    <3> QED
      BY <1>2, <1>11, <1>12 DEF out
  <2> QED
    BY <1>1, <1>12, <2>1 DEF SessionType, SameBesides
<1>14. WindowOK(t)
  <2>1. IsFiniteSet(DOMAIN m) /\ Cardinality(DOMAIN m) <= MaxInFlight
    BY <1>1, <1>4 DEF WindowOK
  <2>2. ASSUME NEW q \in DOMAIN m
        PROVE  q < s.nextSeq /\ (Exhausted(m[q]) => t.dead)
    <3>1. q < s.nextSeq
      BY <1>1, <1>4 DEF WindowOK
    <3>2. Exhausted(m[q]) => t.dead
      BY <1>11
    <3> QED
      BY <3>1, <3>2
  <2> QED
    BY <1>12, <2>1, <2>2 DEF WindowOK
<1>15. SessionOK(t)
  BY <1>1, <1>5, <1>10, <1>11, <1>12, <1>13, <1>14, SameBesidesKeeps
<1> QED
  BY <1>4, <1>10, <1>12, <1>13, <1>15 DEF t, Resent

\* on_nack goes from range to range, the retries spent or not.
LEMMA ResentSame == ASSUME NEW s, SessionOK(s) PROVE Resent(s, s)
<1>1. s \in SessionType
  BY DEF SessionOK
<1>2. SameBesides(s, s)
  BY <1>1 DEF SessionType, SameBesides
<1> QED
  BY <1>2 DEF Resent

LEMMA ResentTwice ==
  ASSUME NEW s, SessionOK(s), NEW t, Resent(s, t), NEW u, Resent(t, u)
  PROVE  Resent(s, u)
<1>1. s \in SessionType /\ t \in SessionType /\ u \in SessionType
  BY DEF SessionOK, Resent
<1>2. SameBesides(s, t) /\ SameBesides(t, u)
  BY DEF Resent
<1>3. SameBesides(s, u)
  BY <1>1, <1>2 DEF SessionType, SameBesides
<1>4. ASSUME NEW i \in 1 .. Len(u.outbox)
      PROVE  \/ i \in 1 .. Len(s.outbox) /\ u.outbox[i] = s.outbox[i]
             \/ \E q \in DOMAIN s.inFlight : u.outbox[i] = s.inFlight[q].datagram
  BY DEF Resent
<1> QED
  BY <1>3, <1>4 DEF Resent

ResentSoFar(s, t, k) == Resent(s, t)
Nacking == INSTANCE Folding WITH Op <- SendMissing, Holds <- ResentSoFar

LEMMA OnNackIs ==
  \A base, seq : OnNack(base, seq) = Nacking!Loop(base, seq)
BY DEF OnNack, Nacking!Loop, Nacking!MapThenFoldSet, Nacking!Greatest,
       FoldLeft, MapThenFoldSet, Max

LEMMA OnNackKeeps ==
  ASSUME NEW s, SessionOK(s), NEW ranges \in Seq(SUBSET Nat)
  PROVE  Resent(s, OnNack(s, ranges))
<1>1. ASSUME NEW t, Resent(s, t), NEW range PROVE Resent(s, SendMissing(t, range))
  <2>1. SessionOK(t)
    BY <1>1 DEF Resent
  <2> DEFINE seqs == range \cap DOMAIN t.inFlight
  <2>2. seqs \subseteq DOMAIN t.inFlight /\ SendMissing(t, range) = Resend(t, seqs)
    BY DEF SendMissing
  <2> HIDE DEF seqs
  <2>3. Resent(t, SendMissing(t, range))
    BY <2>1, <2>2, ResendKeeps
  <2> QED
    BY <1>1, <2>3, ResentTwice
<1>2. \A k \in 0 .. (Len(ranges) - 1) : \A t :
        ResentSoFar(s, t, k) => ResentSoFar(s, SendMissing(t, ranges[k + 1]), k + 1)
  BY <1>1 DEF ResentSoFar
<1>3. ResentSoFar(s, s, 0)
  BY ResentSame DEF ResentSoFar
<1>4. ResentSoFar(s, Nacking!Loop(s, ranges), Len(ranges))
  BY <1>2, <1>3, Nacking!FoldKeeps
<1> QED
  BY <1>4, OnNackIs DEF ResentSoFar

LEMMA Highest ==
  ASSUME NEW n \in Nat, NEW S \in SUBSET (0 .. n), S # {}
  PROVE  \E h \in S : \A k \in S : k <= h
<1> DEFINE T == {m \in 0 .. n : \A y \in S : y <= m}
<1>1. n \in T
  OBVIOUS
<1>2. PICK m \in T : \A k \in T : m <= k
  <2>1. T \subseteq Nat
    OBVIOUS
  <2> HIDE DEF T
  <2> QED
    BY <1>1, <2>1, Sums!LeastNatural
<1>3. m \in S
  <2> SUFFICES ASSUME m \notin S PROVE FALSE
    OBVIOUS
  <2>1. m # 0
    <3>1. PICK y \in S : TRUE
      OBVIOUS
    <3>2. y >= 0 /\ y <= m /\ y # m
      OBVIOUS
    <3> QED
      BY <3>2
  <2>2. m - 1 \in T
    BY <2>1
  <2> QED
    BY <1>2, <2>2
<1> QED
  BY <1>3

LEMMA DedupType ==
  ASSUME NEW d \in Dedups, NEW r \in Nat
  PROVE  DedupAccept(d, r) \in Dedups
<1> DEFINE seen == d.seen \cup {r}
           highest == CHOOSE h \in seen : \A k \in seen : k <= h
           floor == highest - DedupWindow
<1>1. PICK n \in Nat : d.seen \subseteq 0 .. n
  BY DEF Dedups
<1>2. PICK m \in Nat : seen \in SUBSET (0 .. m)
  <2>1. CASE r <= n
    BY <1>1, <2>1
  <2>2. CASE r > n
    BY <1>1, <2>2
  <2> QED
    BY <2>1, <2>2
<1>3. highest \in Nat
  <2>1. seen # {}
    OBVIOUS
  <2> HIDE DEF seen
  <2>2. highest \in seen
    BY <1>2, <2>1, Highest
  <2>3. \A k \in 0 .. m : k \in Nat
    BY <1>2
  <2> HIDE DEF highest
  <2> QED
    BY <1>2, <2>2, <2>3
<1> HIDE DEF highest, seen
<1>4. d.floor \in Nat
  BY DEF Dedups
<1>5. floor > d.floor => floor \in Nat
  BY <1>3, <1>4, DedupWindowAssumption
<1> HIDE DEF floor
<1>6. DedupAccept(d, r) = IF floor > d.floor
                          THEN [floor |-> floor, seen |-> {k \in seen : k >= floor}]
                          ELSE [floor |-> d.floor, seen |-> seen]
  BY DEF DedupAccept, floor, highest, seen
<1>7. seen \in SUBSET Nat /\ seen \subseteq 0 .. m /\ {k \in seen : k >= floor} \subseteq seen
  <2>1. \A k \in 0 .. m : k \in Nat
    BY <1>2
  <2> QED
    BY <1>2, <2>1
<1>8. ASSUME NEW f \in Nat, NEW S, S \subseteq seen PROVE [floor |-> f, seen |-> S] \in Dedups
  <2>1. S \in SUBSET Nat /\ S \subseteq 0 .. m /\ m \in Nat
    BY <1>2, <1>7, <1>8
  <2>2. [floor |-> f, seen |-> S] \in [floor : Nat, seen : SUBSET Nat]
        /\ [floor |-> f, seen |-> S].seen = S
    BY <2>1
  <2> QED
    BY <2>1, <2>2 DEF Dedups
<1>9. CASE floor > d.floor
  BY <1>5, <1>6, <1>7, <1>8, <1>9
<1>10. CASE ~ (floor > d.floor)
  BY <1>4, <1>6, <1>8, <1>10
<1> QED
  BY <1>9, <1>10

-----------------------------------------------------------------------------
LEMMA FirstGapIs ==
  ASSUME NEW e \in Nat, NEW held \in SUBSET Nat,
         \A k \in held : e <= k /\ k < e + OrderWindow
  PROVE  LET g == FirstGap(e, held)
         IN /\ g \in Nat /\ e <= g /\ g <= e + OrderWindow
            /\ g \notin held
            /\ \A k \in e .. (g - 1) : k \in held
<1>1. OrderWindow \in Nat
  BY OrderWindowAssumption
<1> DEFINE T == {g \in e .. (e + OrderWindow) : g \notin held}
<1>2. e + OrderWindow \in T
  BY <1>1
<1>3. PICK m \in T : \A k \in T : m <= k
  <2>1. T \subseteq Nat
    BY <1>1
  <2> HIDE DEF T
  <2> QED
    BY <1>2, <2>1, Sums!LeastNatural
<1>4. \A k \in e .. (m - 1) : k \in held
  <2> SUFFICES ASSUME NEW k \in e .. (m - 1), k \notin held PROVE FALSE
    OBVIOUS
  <2>1. k \in T /\ k < m
    BY <1>1
  <2> QED
    BY <1>1, <1>3, <2>1
<1>5. m \in e .. (e + OrderWindow) /\ m \notin held
  OBVIOUS
<1>6. LET g == FirstGap(e, held)
      IN g \in e .. (e + OrderWindow) /\ g \notin held /\ \A k \in e .. (g - 1) : k \in held
  BY <1>4, <1>5 DEF FirstGap
<1> QED
  BY <1>1, <1>6

\* A payload put into the window, and the ones it sets free.
LEMMA OrderingPushIs ==
  ASSUME NEW o \in Orderings, NEW i \in Nat, NEW p \in Payload
  PROVE  LET t == OrderingPush(o, i, p)
         IN /\ t.ordering \in Orderings
            /\ t.ready \in Seq(Payload)
            /\ t.refused \in BOOLEAN
            /\ t.refused \/ i < o.expected => t.ordering = o /\ t.ready = <<>>
            /\ ~ t.refused /\ i >= o.expected =>
                 /\ Len(t.ready) = t.ordering.expected - o.expected
                 /\ \A j \in 1 .. Len(t.ready) :
                      t.ready[j] = Held(o, i, p)[o.expected + j - 1]
                 /\ \A j \in 1 .. Len(t.ready) : o.expected + j - 1 \in DOMAIN Held(o, i, p)
                 /\ DOMAIN t.ordering.buffered \subseteq DOMAIN Held(o, i, p)
                 /\ \A k \in DOMAIN t.ordering.buffered : t.ordering.buffered[k] = Held(o, i, p)[k]
            /\ o.expected <= t.ordering.expected
<1> DEFINE t == OrderingPush(o, i, p)
           held == Held(o, i, p)
           gap == FirstGap(o.expected, DOMAIN held)
           kept == HeldFrom(held, gap)
           ready == [j \in 1 .. (gap - o.expected) |-> held[o.expected + j - 1]]
<1>1. /\ o.expected \in Nat /\ o.buffered \in Maps(Nat, Payload) /\ OrderWindow \in Nat
      /\ \A k \in DOMAIN o.buffered : o.expected < k /\ k < o.expected + OrderWindow
      /\ o = [expected |-> o.expected, buffered |-> o.buffered]
  BY OrderWindowAssumption DEF Orderings
<1>2. CASE IsOld(o, i)
  <2>1. t = [ordering |-> o, ready |-> <<>>, refused |-> FALSE] /\ i < o.expected
    BY <1>2 DEF OrderingPush, IsOld
  <2>2. <<>> \in Seq(Payload)
    OBVIOUS
  <2>3. o.expected <= o.expected /\ ~ (i >= o.expected)
    BY <1>1, <2>1
  <2> HIDE DEF t
  <2> QED
    BY <2>1, <2>2, <2>3 DEF t
<1>3. CASE ~ IsOld(o, i) /\ IsOutOfWindow(o, i)
  <2>1. t = [ordering |-> o, ready |-> <<>>, refused |-> TRUE]
    BY <1>3 DEF OrderingPush
  <2>2. <<>> \in Seq(Payload)
    OBVIOUS
  <2>3. o.expected <= o.expected
    BY <1>1
  <2> HIDE DEF t
  <2> QED
    BY <2>1, <2>2, <2>3 DEF t
<1>4. CASE ~ IsOld(o, i) /\ ~ IsOutOfWindow(o, i)
  <2>1. t = [ordering |-> [expected |-> gap, buffered |-> kept], ready |-> ready, refused |-> FALSE]
    BY <1>4 DEF OrderingPush
  <2>2. i >= o.expected /\ i < o.expected + OrderWindow
    BY <1>1, <1>4 DEF IsOld, IsOutOfWindow
  <2>3. held \in Maps(Nat, Payload)
    BY <1>1, MapsExtend DEF Held
  <2>4. DOMAIN held = DOMAIN o.buffered \cup {i}
    BY DEF Held
  <2> HIDE DEF held
  <2>5. DOMAIN held \in SUBSET Nat /\ \A k \in DOMAIN held : held[k] \in Payload
    BY <2>3, MapsDef
  <2>6. \A k \in DOMAIN held : o.expected <= k /\ k < o.expected + OrderWindow
    BY <1>1, <2>2, <2>4, <2>5
  <2>7. /\ gap \in Nat /\ o.expected <= gap /\ gap <= o.expected + OrderWindow
        /\ gap \notin DOMAIN held
        /\ \A k \in o.expected .. (gap - 1) : k \in DOMAIN held
    BY <1>1, <2>5, <2>6, FirstGapIs
  <2> HIDE DEF gap
  <2>8. kept \in Maps(Nat, Payload) /\ DOMAIN kept = {j \in DOMAIN held : j >= gap}
        /\ \A k \in DOMAIN kept : kept[k] = held[k]
    <3>1. {j \in DOMAIN held : j >= gap} \subseteq DOMAIN held
      OBVIOUS
    <3>2. kept = [k \in {j \in DOMAIN held : j >= gap} |-> held[k]]
      BY DEF HeldFrom
    <3>3. [k \in {j \in DOMAIN held : j >= gap} |-> held[k]] \in Maps(Nat, Payload)
      BY <2>3, <3>1, MapsRestrict
    <3> QED
      BY <3>2, <3>3
  <2> HIDE DEF kept
  <2>9. \A k \in DOMAIN kept : gap < k /\ k < gap + OrderWindow
    <3> SUFFICES ASSUME NEW k \in DOMAIN kept PROVE gap < k /\ k < gap + OrderWindow
      OBVIOUS
    <3>1. k \in DOMAIN held /\ k >= gap /\ k # gap /\ k \in Nat
      BY <2>5, <2>7, <2>8
    <3> QED
      BY <1>1, <2>6, <2>7, <3>1
  <2>10. [expected |-> gap, buffered |-> kept] \in Orderings
    BY <2>7, <2>8, <2>9 DEF Orderings
  <2>11. \A j \in 1 .. (gap - o.expected) : o.expected + j - 1 \in DOMAIN held
    BY <1>1, <2>7
  <2>12. ready \in Seq(Payload) /\ Len(ready) = gap - o.expected
         /\ \A j \in 1 .. (gap - o.expected) : ready[j] = held[o.expected + j - 1]
    <3>1. gap - o.expected \in Nat
      BY <1>1, <2>7
    <3>2. ready \in [1 .. (gap - o.expected) -> Payload]
      BY <2>5, <2>11
    <3>3. \A j \in 1 .. (gap - o.expected) : ready[j] = held[o.expected + j - 1]
      OBVIOUS
    <3> DEFINE n == gap - o.expected
    <3>4. n \in Nat /\ ready \in [1 .. n -> Payload]
      BY <3>1, <3>2
    <3> HIDE DEF ready, n
    <3>5. ready \in Seq(Payload) /\ Len(ready) = n
      BY <3>4
    <3> QED
      BY <3>3, <3>5 DEF n
  <2> HIDE DEF ready, t
  <2> QED
    BY <2>1, <2>2, <2>7, <2>8, <2>10, <2>11, <2>12, <1>1 DEF t, held
<1> QED
  BY <1>2, <1>3, <1>4

\* Everything but the receiving side.
SameSending(s, t) ==
  t = [s EXCEPT !.state = t.state, !.pending = t.pending, !.buffered = t.buffered,
                !.ordering = t.ordering, !.dedup = t.dedup, !.pendingAcks = t.pendingAcks,
                !.faults = t.faults]

LEMMA SameSendingKeeps ==
  ASSUME NEW s, SessionOK(s), NEW t, SameSending(s, t),
         t.state \in States, t.pending \in Pendings, t.buffered \in Nat, t.ordering \in Orderings,
         t.dedup \in Dedups, t.pendingAcks \in SUBSET Nat, t.faults \in SUBSET Faults, PendingOK(t)
  PROVE  SessionOK(t)
<1>1. s \in SessionType /\ SendingOK(s) /\ WindowOK(s)
  BY DEF SessionOK
<1>2. t \in SessionType
  BY <1>1 DEF SessionType, SameSending
<1>3. t.nextOrd = s.nextOrd /\ t.nextRel = s.nextRel /\ t.log = s.log
      /\ t.inFlight = s.inFlight /\ t.nextSeq = s.nextSeq /\ t.dead = s.dead
  BY <1>1 DEF SessionType, SameSending
<1> QED
  BY <1>1, <1>2, <1>3, SendingSame, WindowSame DEF SessionOK

-----------------------------------------------------------------------------
LEMMA PiecesIs ==
  ASSUME NEW s, NEW x
  PROVE  x \in Pieces(s) <=>
           \E id \in DOMAIN s.pending : \E j \in DOMAIN s.pending[id].pieces : x = <<id, j>>
BY DEF Pieces

PiecesOf(s, ids) == {x \in Pieces(s) : x[1] \in ids}

LEMMA OnePiecesCount ==
  ASSUME NEW id, NEW D, IsFiniteSet(D)
  PROVE  /\ IsFiniteSet({<<id, j>> : j \in D})
         /\ Cardinality({<<id, j>> : j \in D}) = Cardinality(D)
<1> DEFINE T == {<<id, j>> : j \in D}
           f == [j \in D |-> <<id, j>>]
<1>1. f \in Bijection(D, T)
  BY DEF Bijection, Injection, Surjection, IsInjective
<1> QED
  BY <1>1, FS_Bijection DEF ExistsBijection

LEMMA PiecesOfOne ==
  ASSUME NEW s, NEW id \in DOMAIN s.pending
  PROVE  PiecesOf(s, {id}) = {<<id, j>> : j \in DOMAIN s.pending[id].pieces}
<1>1. ASSUME NEW x \in PiecesOf(s, {id}) PROVE x \in {<<id, j>> : j \in DOMAIN s.pending[id].pieces}
  BY PiecesIs DEF PiecesOf
<1>2. ASSUME NEW j \in DOMAIN s.pending[id].pieces PROVE <<id, j>> \in PiecesOf(s, {id})
  <2>1. <<id, j>> \in Pieces(s)
    BY PiecesIs
  <2> QED
    BY <2>1 DEF PiecesOf
<1> QED
  BY <1>1, <1>2

LEMMA PiecesOfAdd ==
  ASSUME NEW s, PendingOK(s), NEW ids, NEW id \in DOMAIN s.pending, id \notin ids
  PROVE  /\ IsFiniteSet(PiecesOf(s, ids))
         /\ Cardinality(PiecesOf(s, ids)) \in Nat
         /\ Cardinality(DOMAIN s.pending[id].pieces) \in Nat
         /\ Cardinality(PiecesOf(s, ids \cup {id}))
              = Cardinality(DOMAIN s.pending[id].pieces) + Cardinality(PiecesOf(s, ids))
<1> DEFINE A == PiecesOf(s, ids)
           B == PiecesOf(s, {id})
<1>1. IsFiniteSet(A) /\ IsFiniteSet(B)
  <2>1. IsFiniteSet(Pieces(s)) /\ A \in SUBSET Pieces(s) /\ B \in SUBSET Pieces(s)
    BY DEF PendingOK, PiecesOf
  <2> HIDE DEF A, B
  <2> QED
    BY <2>1, FS_Subset
<1>2. A \cap B = {} /\ PiecesOf(s, ids \cup {id}) = A \cup B
  BY DEF PiecesOf
<1>3. IsFiniteSet(DOMAIN s.pending[id].pieces)
  BY DEF PendingOK
<1>4. Cardinality(B) = Cardinality(DOMAIN s.pending[id].pieces)
  <2> DEFINE D == DOMAIN s.pending[id].pieces
  <2>1. B = {<<id, j>> : j \in D}
    BY PiecesOfOne
  <2> HIDE DEF B, D
  <2>2. Cardinality({<<id, j>> : j \in D}) = Cardinality(D)
    BY <1>3, OnePiecesCount DEF D
  <2> QED
    BY <2>1, <2>2 DEF D
<1> HIDE DEF A, B
<1>5. Cardinality(A) \in Nat /\ Cardinality(B) \in Nat
  BY <1>1, FS_CardinalityType
<1>6. Cardinality(A \cup B) = Cardinality(A) + Cardinality(B) - Cardinality(A \cap B)
  BY <1>1, FS_Union
<1>7. Cardinality(A \cap B) = 0
  BY <1>2, FS_EmptySet
<1>8. Cardinality(A \cup B) = Cardinality(B) + Cardinality(A)
  BY <1>5, <1>6, <1>7
<1> QED
  BY <1>1, <1>2, <1>4, <1>5, <1>8 DEF A

\* What expire takes off the count.
LEMMA ExpiredCount ==
  ASSUME NEW s, PendingOK(s), NEW ids, ids \subseteq DOMAIN s.pending
  PROVE  MapThenSumSet(LAMBDA k : Cardinality(DOMAIN s.pending[k].pieces), ids)
           = Cardinality(PiecesOf(s, ids))
<1> DEFINE size(k) == Cardinality(DOMAIN s.pending[k].pieces)
           one(t) == CHOOSE x \in t : TRUE
           g == [t \in SUBSET ids |-> Cardinality(PiecesOf(s, t))]
           Is(iter) == iter = [t \in SUBSET ids |->
                                 IF t = {} THEN 0 ELSE size(one(t)) + iter[t \ {one(t)}]]
<1>1. MapThenSumSet(LAMBDA k : Cardinality(DOMAIN s.pending[k].pieces), ids) = (CHOOSE iter : Is(iter))[ids]
  BY DEF MapThenSumSet, MapThenFoldSet
<1>2. IsFiniteSet(ids)
  BY FS_Subset DEF PendingOK
<1>3. Cardinality(PiecesOf(s, {})) = 0
  <2>1. PiecesOf(s, {}) = {}
    BY DEF PiecesOf
  <2> QED
    BY <2>1, FS_EmptySet
<1>4. ASSUME NEW t \in SUBSET ids, t # {}
      PROVE  /\ one(t) \in t
             /\ t \ {one(t)} \in SUBSET ids
             /\ Cardinality(PiecesOf(s, t)) = size(one(t)) + Cardinality(PiecesOf(s, t \ {one(t)}))
  <2>1. one(t) \in t
    BY <1>4
  <2> DEFINE x == one(t)
             u == t \ {x}
  <2> HIDE DEF x
  <2>2. x \in DOMAIN s.pending /\ x \notin u /\ t = u \cup {x} /\ u \in SUBSET ids
    BY <2>1 DEF x
  <2> HIDE DEF u
  <2>3. Cardinality(PiecesOf(s, t)) = size(x) + Cardinality(PiecesOf(s, u))
    BY <2>2, PiecesOfAdd
  <2> QED
    BY <2>1, <2>2, <2>3 DEF x, u
<1> HIDE DEF one, size
<1>5. Is(g)
  <2>1. \A t \in SUBSET ids : g[t] = IF t = {} THEN 0 ELSE size(one(t)) + g[t \ {one(t)}]
    BY <1>3, <1>4
  <2>2. g = [t \in SUBSET ids |-> g[t]]
    OBVIOUS
  <2> HIDE DEF g
  <2> QED
    BY <2>1, <2>2
<1> DEFINE h == CHOOSE iter : Is(iter)
<1>6. Is(h)
  <2> HIDE DEF Is
  <2> QED
    BY <1>5
<1> HIDE DEF h
<1> DEFINE n == Cardinality(ids)
           T == {m \in 0 .. n : \A t \in SUBSET ids : Cardinality(t) = m => h[t] = Cardinality(PiecesOf(s, t))}
<1>7. n \in Nat
  BY <1>2, FS_CardinalityType
<1>8. \A t \in SUBSET ids : IsFiniteSet(t)
  BY <1>2, FS_Subset
<1>9. 0 \in T
  <2>1. ASSUME NEW t \in SUBSET ids, Cardinality(t) = 0 PROVE h[t] = Cardinality(PiecesOf(s, t))
    <3>1. t = {}
      BY <1>8, <2>1, FS_EmptySet
    <3> QED
      BY <1>3, <1>6, <3>1
  <2>2. 0 \in 0 .. n
    BY <1>7
  <2> QED
    BY <2>1, <2>2
<1>10. ASSUME NEW m \in 0 .. (n - 1), m \in T PROVE m + 1 \in T
  <2>0. m \in Nat /\ m + 1 \in 0 .. n
    BY <1>7
  <2>1. ASSUME NEW t \in SUBSET ids, Cardinality(t) = m + 1 PROVE h[t] = Cardinality(PiecesOf(s, t))
    <3>1. t # {}
      BY <2>0, <2>1, FS_EmptySet
    <3> DEFINE u == t \ {one(t)}
    <3>2. u \in SUBSET ids /\ one(t) \in t
          /\ Cardinality(PiecesOf(s, t)) = size(one(t)) + Cardinality(PiecesOf(s, u))
      BY <1>4, <3>1
    <3>3. Cardinality(u) = m
      <4>1. Cardinality(u) = Cardinality(t) - 1
        BY <1>8, <3>2, FS_RemoveElement
      <4> QED
        BY <2>0, <2>1, <4>1
    <3>4. h[t] = size(one(t)) + h[u]
      BY <1>6, <3>1
    <3> HIDE DEF u
    <3>5. h[u] = Cardinality(PiecesOf(s, u))
      BY <1>10, <3>2, <3>3
    <3> QED
      BY <3>2, <3>4, <3>5
  <2> QED
    BY <2>0, <2>1
<1>11. \A m \in 0 .. n : m \in T
  <2> HIDE DEF T, n
  <2> QED
    BY <1>7, <1>9, <1>10, Sums!UpTo
<1>12. n \in T
  BY <1>7, <1>11
<1>13. h[ids] = Cardinality(PiecesOf(s, ids))
  BY <1>12
<1> QED
  BY <1>1, <1>13 DEF h

LEMMA PendingPartsType ==
  ASSUME NEW s \in SessionType
  PROVE  /\ s.pending \in Pendings /\ s.buffered \in Nat /\ DOMAIN s.pending \in SUBSET Nat
         /\ \A id \in DOMAIN s.pending :
              /\ s.pending[id] \in Assembly
              /\ s.pending[id].count \in Nat
              /\ s.pending[id].pieces \in Maps(Nat, Payload)
<1>1. s.pending \in Pendings /\ s.buffered \in Nat
  BY DEF SessionType
<1>2. DOMAIN s.pending \subseteq Nat /\ \A id \in DOMAIN s.pending : s.pending[id] \in Assembly
  BY <1>1, MapsDef DEF Pendings
<1> QED
  BY <1>1, <1>2 DEF Assembly

LEMMA FaultsType ==
  ASSUME NEW s \in SessionType
  PROVE  s.state \in States /\ s.faults \in SUBSET Faults /\ s.ordering \in Orderings /\ s.dedup \in Dedups
         /\ s.pendingAcks \in SUBSET Nat
BY DEF SessionType

\* Some reassemblies are taken out.
LEMMA WithoutPending ==
  ASSUME NEW s, SessionOK(s), NEW ids, ids \subseteq DOMAIN s.pending, NEW t,
         t.pending = [k \in DOMAIN s.pending \ ids |-> s.pending[k]],
         t.buffered = s.buffered - Cardinality(PiecesOf(s, ids))
  PROVE  t.pending \in Pendings /\ t.buffered \in Nat /\ PendingOK(t)
<1>1. PendingOK(s) /\ s.pending \in Pendings /\ s.buffered \in Nat
  BY PendingPartsType DEF SessionOK
<1>2. t.pending \in Pendings
  <2>1. DOMAIN s.pending \ ids \subseteq DOMAIN s.pending
    OBVIOUS
  <2> QED
    BY <1>1, <2>1, MapsRestrict DEF Pendings
<1>3. DOMAIN t.pending = DOMAIN s.pending \ ids /\ \A k \in DOMAIN t.pending : t.pending[k] = s.pending[k]
  OBVIOUS
<1>4. Pieces(t) = Pieces(s) \ PiecesOf(s, ids)
  <2>1. ASSUME NEW x \in Pieces(t) PROVE x \in Pieces(s) /\ x \notin PiecesOf(s, ids)
    <3>1. PICK id \in DOMAIN t.pending : \E j \in DOMAIN t.pending[id].pieces : x = <<id, j>>
      BY PiecesIs
    <3>2. id \in DOMAIN s.pending /\ id \notin ids /\ t.pending[id] = s.pending[id]
      BY <1>3
    <3>3. x \in Pieces(s) /\ x[1] = id
      BY <3>1, <3>2, PiecesIs
    <3> QED
      BY <3>2, <3>3 DEF PiecesOf
  <2>2. ASSUME NEW x \in Pieces(s), x \notin PiecesOf(s, ids) PROVE x \in Pieces(t)
    <3>1. PICK id \in DOMAIN s.pending : \E j \in DOMAIN s.pending[id].pieces : x = <<id, j>>
      BY PiecesIs
    <3>2. x[1] = id
      BY <3>1
    <3>3. id \in DOMAIN t.pending /\ t.pending[id] = s.pending[id]
      BY <1>3, <2>2, <3>2 DEF PiecesOf
    <3> QED
      BY <3>1, <3>3, PiecesIs
  <2> QED
    BY <2>1, <2>2
<1> DEFINE P == Pieces(s)
           Q == PiecesOf(s, ids)
<1>5. IsFiniteSet(P) /\ Q \subseteq P /\ s.buffered = Cardinality(P) /\ s.buffered <= MaxBuffered
  BY <1>1 DEF PendingOK, PiecesOf
<1> HIDE DEF P, Q
<1>6. IsFiniteSet(Q) /\ Cardinality(Q) \in Nat /\ Cardinality(P) \in Nat /\ Cardinality(Q) <= Cardinality(P)
  BY <1>5, FS_Subset, FS_CardinalityType
<1>7. IsFiniteSet(P \ Q) /\ Cardinality(P \ Q) = Cardinality(P) - Cardinality(Q)
  <2>1. P \cap Q = Q
    BY <1>5
  <2>2. QED
    <3>1. IsFiniteSet(P \ Q) /\ Cardinality(P \ Q) = Cardinality(P) - Cardinality(P \cap Q)
      BY <1>5, FS_Difference
    <3> QED
      BY <2>1, <3>1
<1>8. t.buffered \in Nat /\ t.buffered = Cardinality(Pieces(t)) /\ t.buffered <= MaxBuffered
  <2>1. t.buffered = Cardinality(P) - Cardinality(Q)
    BY <1>5 DEF Q
  <2>2. t.buffered = Cardinality(Pieces(t))
    BY <1>4, <1>7, <2>1 DEF P, Q
  <2>3. MaxBuffered \in Nat
    BY SessionAssumption
  <2> QED
    BY <1>5, <1>6, <2>1, <2>2, <2>3
<1>9. IsFiniteSet(DOMAIN t.pending) /\ Cardinality(DOMAIN t.pending) <= MaxPending
  <2> DEFINE D == DOMAIN s.pending
             E == DOMAIN t.pending
  <2>1. IsFiniteSet(D) /\ Cardinality(D) <= MaxPending /\ E \in SUBSET D
    BY <1>1, <1>3 DEF PendingOK
  <2> HIDE DEF D, E
  <2>2. IsFiniteSet(E) /\ Cardinality(E) <= Cardinality(D) /\ Cardinality(E) \in Nat /\ Cardinality(D) \in Nat
    BY <2>1, FS_Subset, FS_CardinalityType
  <2>3. MaxPending \in Nat
    BY SessionAssumption
  <2>4. Cardinality(E) <= MaxPending
    BY <2>1, <2>2, <2>3
  <2> QED
    BY <2>2, <2>4 DEF E
<1>10. \A id \in DOMAIN t.pending : IsFiniteSet(DOMAIN t.pending[id].pieces)
  BY <1>1, <1>3 DEF PendingOK
<1>11. IsFiniteSet(Pieces(t))
  BY <1>4, <1>7 DEF P, Q
<1> QED
  BY <1>2, <1>8, <1>9, <1>10, <1>11 DEF PendingOK

LEMMA ExpireKeeps ==
  ASSUME NEW s, SessionOK(s), NEW ids, ids \subseteq DOMAIN s.pending
  PROVE  LET t == Expire(s, ids)
         IN /\ SessionOK(t) /\ SameSending(s, t)
            /\ t.state = s.state /\ t.ordering = s.ordering /\ t.dedup = s.dedup
            /\ t.pendingAcks = s.pendingAcks
            /\ t.faults \in {s.faults, s.faults \cup {"expired"}}
            /\ DOMAIN t.pending \subseteq DOMAIN s.pending
            /\ \A k \in DOMAIN t.pending : t.pending[k] = s.pending[k]
<1> DEFINE t == Expire(s, ids)
           m == [k \in DOMAIN s.pending \ ids |-> s.pending[k]]
           b == s.buffered - Cardinality(PiecesOf(s, ids))
           f == IF ids = {} THEN s.faults ELSE s.faults \cup {"expired"}
<1>1. s \in SessionType /\ PendingOK(s)
  BY DEF SessionOK
<1>2. t = [s EXCEPT !.pending = m, !.buffered = b, !.faults = f]
  BY <1>1, ExpiredCount DEF Expire
<1>3. DOMAIN m \subseteq DOMAIN s.pending /\ \A k \in DOMAIN m : m[k] = s.pending[k]
  OBVIOUS
<1>4. f \in SUBSET Faults /\ f \in {s.faults, s.faults \cup {"expired"}}
  BY <1>1, FaultsType DEF Faults
<1> HIDE DEF m, b, f, t
<1>5. t.pending = m /\ t.buffered = b /\ t.faults = f /\ SameSending(s, t)
      /\ t.state = s.state /\ t.ordering = s.ordering /\ t.dedup = s.dedup
      /\ t.pendingAcks = s.pendingAcks
  BY <1>1, <1>2 DEF SessionType, SameSending
<1>6. t.pending \in Pendings /\ t.buffered \in Nat /\ PendingOK(t)
  BY <1>5, WithoutPending DEF m, b
<1>7. SessionOK(t)
  BY <1>1, <1>4, <1>5, <1>6, FaultsType, SameSendingKeeps
<1> QED
  BY <1>3, <1>4, <1>5, <1>7 DEF t

\* The pieces of f's payload that had come before it, and with it.
Before(s, f) == IF f.split.id \in DOMAIN s.pending THEN s.pending[f.split.id].pieces ELSE EmptyMap
Joining(s, f) ==
  [k \in DOMAIN Before(s, f) \cup {f.split.index} |->
     IF k = f.split.index THEN f.payload ELSE Before(s, f)[k]]

LEMMA FrameType ==
  ASSUME NEW f \in Frame
  PROVE  /\ f.rel \in Nat /\ f.ord \in Nat /\ f.payload \in Payload /\ f.split \in Split
         /\ f.split.id \in Nat /\ f.split.count \in Nat /\ f.split.index \in Nat
BY DEF Frame, Split

LEMMA JoiningType ==
  ASSUME NEW s, SessionOK(s), NEW f \in Frame
  PROVE  /\ Before(s, f) \in Maps(Nat, Payload) /\ IsFiniteSet(DOMAIN Before(s, f))
         /\ Joining(s, f) \in Maps(Nat, Payload) /\ IsFiniteSet(DOMAIN Joining(s, f))
         /\ DOMAIN Joining(s, f) = DOMAIN Before(s, f) \cup {f.split.index}
         /\ Joining(s, f)[f.split.index] = f.payload
         /\ \A k \in DOMAIN Before(s, f) : k # f.split.index => Joining(s, f)[k] = Before(s, f)[k]
<1>1. s \in SessionType /\ PendingOK(s)
  BY DEF SessionOK
<1>2. Before(s, f) \in Maps(Nat, Payload) /\ IsFiniteSet(DOMAIN Before(s, f))
  <2>1. CASE f.split.id \in DOMAIN s.pending
    BY <1>1, <2>1, PendingPartsType DEF Before, PendingOK
  <2>2. CASE f.split.id \notin DOMAIN s.pending
    <3>1. Before(s, f) = EmptyMap /\ DOMAIN EmptyMap = {}
      BY <2>2 DEF Before, EmptyMap
    <3> QED
      BY <3>1, MapsEmpty, FS_EmptySet
  <2> QED
    BY <2>1, <2>2
<1>3. f.payload \in Payload /\ f.split.index \in Nat
  BY FrameType
<1>4. DOMAIN Joining(s, f) = DOMAIN Before(s, f) \cup {f.split.index}
      /\ Joining(s, f)[f.split.index] = f.payload
      /\ \A k \in DOMAIN Before(s, f) : k # f.split.index => Joining(s, f)[k] = Before(s, f)[k]
  BY DEF Joining
<1>5. Joining(s, f) \in Maps(Nat, Payload)
  <2> DEFINE m == Before(s, f)
             x == f.split.index
             v == f.payload
  <2>1. m \in Maps(Nat, Payload) /\ x \in Nat /\ v \in Payload
    BY <1>2, <1>3
  <2>2. Joining(s, f) = [k \in DOMAIN m \cup {x} |-> IF k = x THEN v ELSE m[k]]
    BY DEF Joining
  <2> HIDE DEF m, x, v
  <2>3. [k \in DOMAIN m \cup {x} |-> IF k = x THEN v ELSE m[k]] \in Maps(Nat, Payload)
    BY <2>1, MapsExtend
  <2> QED
    BY <2>2, <2>3
<1>6. IsFiniteSet(DOMAIN Joining(s, f))
  BY <1>2, <1>4, FS_AddElement
<1> QED
  BY <1>2, <1>4, <1>5, <1>6

LEMMA JoinedType ==
  ASSUME NEW m \in Maps(Nat, Payload), IsFiniteSet(DOMAIN m), DOMAIN m # {}
  PROVE  Joined(m) \in Payload
<1>1. \A p \in Range(m) : p \in Payload
  BY MapsDef DEF Range
<1>2. Cardinality(DOMAIN m) \in Nat \ {0}
  BY FS_CardinalityType, FS_EmptySet
<1>3. CASE \E p \in Range(m) : \A q \in Range(m) : q = p
  BY <1>1, <1>3 DEF Joined
<1>4. CASE ~ \E p \in Range(m) : \A q \in Range(m) : q = p
  <2> DEFINE n == Cardinality(DOMAIN m)
  <2>1. Joined(m) = [kind |-> "garbled", id |-> 0, parts |-> n]
    BY <1>4 DEF Joined
  <2>2. n \in Nat \ {0}
    BY <1>2
  <2>3. "garbled" \in Kinds /\ 0 \in Nat
    BY DEF Kinds
  <2> HIDE DEF n
  <2>4. [kind |-> "garbled", id |-> 0, parts |-> n] \in Payload
    BY <2>2, <2>3 DEF Payload
  <2> QED
    BY <2>1, <2>4
<1> QED
  BY <1>3, <1>4

\* What push does with a fragment.
IsStored(s, f, t) ==
  t = [s EXCEPT !.buffered = @ + 1,
                !.pending = [k \in (DOMAIN s.pending \ {f.split.id}) \cup {f.split.id} |->
                   IF k = f.split.id THEN [count |-> f.split.count, pieces |-> Joining(s, f)]
                   ELSE s.pending[k]]]
IsCompleted(s, f, t) ==
  t = [s EXCEPT !.buffered = @ - Cardinality(DOMAIN Before(s, f)),
                !.pending = [k \in DOMAIN s.pending \ {f.split.id} |-> s.pending[k]]]

LEMMA PushFragmentIs ==
  ASSUME NEW s, NEW f
  PROVE  LET got == PushFragment(s, f)
         IN \/ /\ f.split = NoSplit
               /\ got = [s |-> s, whole |-> <<f.payload>>, refused |-> FALSE]
            \/ /\ f.split # NoSplit /\ FragmentRefused(s, f)
               /\ got = [s |-> s, whole |-> <<>>, refused |-> TRUE]
            \/ /\ f.split # NoSplit /\ ~ FragmentRefused(s, f)
               /\ Cardinality(DOMAIN Joining(s, f)) < f.split.count
               /\ got = [s |-> got.s, whole |-> <<>>, refused |-> FALSE]
               /\ IsStored(s, f, got.s)
            \/ /\ f.split # NoSplit /\ ~ FragmentRefused(s, f)
               /\ ~ (Cardinality(DOMAIN Joining(s, f)) < f.split.count)
               /\ got = [s |-> got.s, whole |-> <<Joined(Joining(s, f))>>, refused |-> FALSE]
               /\ IsCompleted(s, f, got.s)
<1>1. CASE f.split = NoSplit
  BY <1>1 DEF PushFragment
<1>2. CASE f.split # NoSplit /\ FragmentRefused(s, f)
  BY <1>2 DEF PushFragment
<1>3. CASE f.split # NoSplit /\ ~ FragmentRefused(s, f) /\ Cardinality(DOMAIN Joining(s, f)) < f.split.count
  BY <1>3 DEF PushFragment, Joining, Before, IsStored
<1>4. CASE f.split # NoSplit /\ ~ FragmentRefused(s, f) /\ ~ (Cardinality(DOMAIN Joining(s, f)) < f.split.count)
  BY <1>4 DEF PushFragment, Joining, Before, IsCompleted
<1> QED
  BY <1>1, <1>2, <1>3, <1>4

LEMMA StoredKeeps ==
  ASSUME NEW s, SessionOK(s), NEW f \in Frame, f.split # NoSplit, ~ FragmentRefused(s, f),
         NEW t, IsStored(s, f, t)
  PROVE  SessionOK(t)
<1> DEFINE id == f.split.id
           index == f.split.index
           D == DOMAIN s.pending
           m == [k \in (D \ {id}) \cup {id} |->
                   IF k = id THEN [count |-> f.split.count, pieces |-> Joining(s, f)]
                   ELSE s.pending[k]]
           P == Pieces(s)
<1>1. s \in SessionType /\ PendingOK(s)
  BY DEF SessionOK
<1>2. t = [s EXCEPT !.buffered = s.buffered + 1, !.pending = m]
  BY DEF IsStored
<1>3. id \in Nat /\ index \in Nat /\ f.split.count \in Nat
  BY FrameType
<1>4. /\ Before(s, f) \in Maps(Nat, Payload) /\ IsFiniteSet(DOMAIN Before(s, f))
      /\ Joining(s, f) \in Maps(Nat, Payload) /\ IsFiniteSet(DOMAIN Joining(s, f))
      /\ DOMAIN Joining(s, f) = DOMAIN Before(s, f) \cup {index}
  BY JoiningType
<1>5. /\ s.buffered + 1 <= MaxBuffered
      /\ id \notin D => Cardinality(D) < MaxPending
      /\ id \in D => index \notin DOMAIN s.pending[id].pieces
  <2>1. MaxBuffered \in Nat /\ MaxPending \in Nat /\ s.buffered \in Nat
    BY <1>1, SessionAssumption, PendingPartsType
  <2>2. Cardinality(D) \in Nat
    BY <1>1, FS_CardinalityType DEF PendingOK
  <2>3. ~ (s.buffered + 1 > MaxBuffered) /\ (id \notin D => ~ (Cardinality(D) >= MaxPending))
    BY DEF FragmentRefused
  <2>4. id \in D => index \notin DOMAIN s.pending[id].pieces
    BY DEF FragmentRefused
  <2> HIDE DEF id, D
  <2> QED
    BY <2>1, <2>2, <2>3, <2>4
<1>6. /\ DOMAIN m = D \cup {id} /\ m[id] = [count |-> f.split.count, pieces |-> Joining(s, f)]
      /\ \A k \in D : k # id => m[k] = s.pending[k]
  OBVIOUS
<1>7. m \in Pendings
  <2>1. [count |-> f.split.count, pieces |-> Joining(s, f)] \in Assembly
    BY <1>3, <1>4 DEF Assembly
  <2>2. s.pending \in Maps(Nat, Assembly)
    BY <1>1, PendingPartsType DEF Pendings
  <2> DEFINE v == [count |-> f.split.count, pieces |-> Joining(s, f)]
             w == s.pending
             X == D \ {id}
  <2>3. v \in Assembly /\ w \in Maps(Nat, Assembly) /\ id \in Nat /\ X \subseteq DOMAIN w
    BY <1>3, <2>1, <2>2
  <2>4. m = [k \in X \cup {id} |-> IF k = id THEN v ELSE w[k]]
    OBVIOUS
  <2> HIDE DEF v, w, X, m, id
  <2>5. [k \in X \cup {id} |-> IF k = id THEN v ELSE w[k]] \in Maps(Nat, Assembly)
    BY <2>3, MapsExtend
  <2> QED
    BY <2>4, <2>5 DEF Pendings
<1> HIDE DEF m
<1>8. t.pending = m /\ t.buffered = s.buffered + 1 /\ SameSending(s, t)
      /\ t.state = s.state /\ t.ordering = s.ordering /\ t.dedup = s.dedup
      /\ t.pendingAcks = s.pendingAcks /\ t.faults = s.faults
  BY <1>1, <1>2 DEF SessionType, SameSending
<1>9. DOMAIN Before(s, f) = IF id \in D THEN DOMAIN s.pending[id].pieces ELSE {}
  BY DEF Before, EmptyMap
<1>10. Pieces(t) = P \cup {<<id, index>>} /\ <<id, index>> \notin P
  <2>1. ASSUME NEW x \in Pieces(t) PROVE x \in P \cup {<<id, index>>}
    <3>1. PICK k \in DOMAIN t.pending : \E j \in DOMAIN t.pending[k].pieces : x = <<k, j>>
      BY PiecesIs
    <3>2. PICK j \in DOMAIN t.pending[k].pieces : x = <<k, j>>
      BY <3>1
    <3>3. CASE k = id
      <4>1. j \in DOMAIN Joining(s, f)
        BY <1>6, <1>8, <3>2, <3>3
      <4>2. CASE j = index
        BY <3>2, <3>3, <4>2
      <4>3. CASE j # index
        <5>1. id \in D /\ j \in DOMAIN s.pending[id].pieces
          BY <1>4, <1>9, <4>1, <4>3
        <5>2. x \in Pieces(s)
          BY <3>2, <3>3, <5>1, PiecesIs
        <5> QED
          BY <5>2
      <4> QED
        BY <4>2, <4>3
    <3>4. CASE k # id
      <4>1. k \in D /\ t.pending[k] = s.pending[k]
        BY <1>6, <1>8, <3>4
      <4>2. x \in Pieces(s)
        BY <3>2, <4>1, PiecesIs
      <4> QED
        BY <4>2
    <3> QED
      BY <3>3, <3>4
  <2>2. <<id, index>> \in Pieces(t)
    <3>1. id \in DOMAIN t.pending /\ t.pending[id].pieces = Joining(s, f)
      BY <1>6, <1>8
    <3>2. index \in DOMAIN t.pending[id].pieces
      BY <1>4, <3>1
    <3> QED
      BY <3>1, <3>2, PiecesIs
  <2>3. ASSUME NEW x \in Pieces(s) PROVE x \in Pieces(t)
    <3>1. PICK k \in D : \E j \in DOMAIN s.pending[k].pieces : x = <<k, j>>
      BY PiecesIs
    <3>2. PICK j \in DOMAIN s.pending[k].pieces : x = <<k, j>>
      BY <3>1
    <3>3. k \in DOMAIN t.pending /\ j \in DOMAIN t.pending[k].pieces
      <4>1. CASE k = id
        BY <1>4, <1>6, <1>8, <1>9, <3>2, <4>1
      <4>2. CASE k # id
        BY <1>6, <1>8, <3>2, <4>2
      <4> QED
        BY <4>1, <4>2
    <3> QED
      BY <3>2, <3>3, PiecesIs
  <2>4. <<id, index>> \notin Pieces(s)
    <3> SUFFICES ASSUME <<id, index>> \in Pieces(s) PROVE FALSE
      OBVIOUS
    <3>1. PICK k \in D : \E j \in DOMAIN s.pending[k].pieces : <<id, index>> = <<k, j>>
      BY PiecesIs
    <3>2. k = id /\ index \in DOMAIN s.pending[id].pieces
      BY <3>1
    <3> QED
      BY <1>5, <3>2
  <2> QED
    BY <2>1, <2>2, <2>3, <2>4
<1>11. IsFiniteSet(P) /\ s.buffered = Cardinality(P) /\ s.buffered \in Nat /\ MaxBuffered \in Nat
  BY <1>1, PendingPartsType, SessionAssumption DEF PendingOK
<1>12. IsFiniteSet(Pieces(t)) /\ t.buffered = Cardinality(Pieces(t)) /\ t.buffered \in Nat
       /\ t.buffered <= MaxBuffered
  <2> DEFINE x == <<id, index>>
  <2>0. Pieces(t) = P \cup {x} /\ x \notin P
    BY <1>10
  <2> HIDE DEF P, x
  <2>1. IsFiniteSet(P \cup {x}) /\ Cardinality(P \cup {x}) = Cardinality(P) + 1
    BY <1>11, <2>0, FS_AddElement
  <2>2. t.buffered = Cardinality(P) + 1
    BY <1>8, <1>11
  <2>3. t.buffered \in Nat /\ t.buffered <= MaxBuffered
    BY <1>5, <1>8, <1>11
  <2> QED
    BY <2>0, <2>1, <2>2, <2>3
<1>13. IsFiniteSet(DOMAIN t.pending) /\ Cardinality(DOMAIN t.pending) <= MaxPending
  <2>1. DOMAIN t.pending = D \cup {id}
    BY <1>6, <1>8
  <2>2. IsFiniteSet(D) /\ Cardinality(D) <= MaxPending /\ MaxPending \in Nat
    BY <1>1, SessionAssumption DEF PendingOK
  <2> HIDE DEF D, id
  <2>3. IsFiniteSet(D \cup {id})
        /\ Cardinality(D \cup {id}) = IF id \in D THEN Cardinality(D) ELSE Cardinality(D) + 1
    BY <2>2, FS_AddElement
  <2>4. Cardinality(D) \in Nat
    BY <2>2, FS_CardinalityType
  <2>5. id \notin D => Cardinality(D) < MaxPending
    BY <1>5
  <2>6. Cardinality(D \cup {id}) <= MaxPending
    BY <2>2, <2>3, <2>4, <2>5
  <2> QED
    BY <2>1, <2>3, <2>6
<1>14. \A k \in DOMAIN t.pending : IsFiniteSet(DOMAIN t.pending[k].pieces)
  <2> SUFFICES ASSUME NEW k \in DOMAIN t.pending PROVE IsFiniteSet(DOMAIN t.pending[k].pieces)
    OBVIOUS
  <2>1. CASE k = id
    BY <1>4, <1>6, <1>8, <2>1
  <2>2. CASE k # id
    <3>1. k \in D /\ t.pending[k] = s.pending[k]
      BY <1>6, <1>8, <2>2
    <3> QED
      BY <1>1, <3>1 DEF PendingOK
  <2> QED
    BY <2>1, <2>2
<1>15. PendingOK(t)
  BY <1>12, <1>13, <1>14 DEF PendingOK
<1> QED
  BY <1>1, <1>7, <1>8, <1>12, <1>15, FaultsType, SameSendingKeeps

LEMMA CompletedKeeps ==
  ASSUME NEW s, SessionOK(s), NEW f, NEW t, IsCompleted(s, f, t)
  PROVE  SessionOK(t)
<1> DEFINE id == f.split.id
           D == DOMAIN s.pending
           m == [k \in D \ {id} |-> s.pending[k]]
           ids == D \cap {id}
           old == DOMAIN Before(s, f)
<1>1. s \in SessionType /\ PendingOK(s)
  BY DEF SessionOK
<1>2. t = [s EXCEPT !.buffered = s.buffered - Cardinality(old), !.pending = m]
  BY DEF IsCompleted
<1>3. ids \subseteq D /\ D \ ids = D \ {id}
  OBVIOUS
<1>4. Cardinality(old) = Cardinality(PiecesOf(s, ids))
  <2>1. CASE id \in D
    <3>1. ids = {id} /\ old = DOMAIN s.pending[id].pieces
      BY <2>1 DEF Before
    <3>2. PiecesOf(s, {id}) = {<<id, j>> : j \in DOMAIN s.pending[id].pieces}
      BY <2>1, PiecesOfOne
    <3>3. IsFiniteSet(DOMAIN s.pending[id].pieces)
      BY <1>1, <2>1 DEF PendingOK
    <3> DEFINE E == DOMAIN s.pending[id].pieces
    <3> HIDE DEF E, ids, old, id
    <3>4. Cardinality({<<id, j>> : j \in E}) = Cardinality(E)
      BY <3>3, OnePiecesCount DEF E
    <3> QED
      BY <3>1, <3>2, <3>4 DEF E
  <2>2. CASE id \notin D
    <3>1. ids = {} /\ old = {}
      BY <2>2 DEF Before, EmptyMap
    <3>2. PiecesOf(s, ids) = {}
      BY <3>1 DEF PiecesOf
    <3> QED
      BY <3>1, <3>2
  <2> QED
    BY <2>1, <2>2
<1>5. m = [k \in DOMAIN s.pending \ ids |-> s.pending[k]]
  BY <1>3
<1> HIDE DEF m, ids, old
<1>6. t.pending = m /\ t.buffered = s.buffered - Cardinality(old) /\ SameSending(s, t)
      /\ t.state = s.state /\ t.ordering = s.ordering /\ t.dedup = s.dedup
      /\ t.pendingAcks = s.pendingAcks /\ t.faults = s.faults
  BY <1>1, <1>2 DEF SessionType, SameSending
<1>7. t.pending \in Pendings /\ t.buffered \in Nat /\ PendingOK(t)
  <2>1. /\ ids \subseteq DOMAIN s.pending
        /\ t.pending = [k \in DOMAIN s.pending \ ids |-> s.pending[k]]
        /\ t.buffered = s.buffered - Cardinality(PiecesOf(s, ids))
    BY <1>3, <1>4, <1>5, <1>6
  <2> QED
    BY <2>1, WithoutPending
<1> QED
  BY <1>1, <1>6, <1>7, FaultsType, SameSendingKeeps

LEMMA PushFragmentKeeps ==
  ASSUME NEW s, SessionOK(s), NEW f \in Frame
  PROVE  LET got == PushFragment(s, f)
         IN /\ SessionOK(got.s) /\ got.refused \in BOOLEAN
            /\ got.whole # <<>> => got.whole[1] \in Payload
            /\ got.s = [s EXCEPT !.pending = got.s.pending, !.buffered = got.s.buffered]
<1>1. s \in SessionType
  BY DEF SessionOK
<1>2. s = [s EXCEPT !.pending = s.pending, !.buffered = s.buffered]
  BY <1>1 DEF SessionType
<1> DEFINE got == PushFragment(s, f)
           t == got.s
<1>3. CASE got = [s |-> s, whole |-> <<f.payload>>, refused |-> FALSE]
  BY <1>2, <1>3, FrameType
<1>4. CASE got = [s |-> s, whole |-> <<>>, refused |-> TRUE]
  BY <1>2, <1>4
<1>5. CASE /\ f.split # NoSplit /\ ~ FragmentRefused(s, f)
           /\ got = [s |-> got.s, whole |-> <<>>, refused |-> FALSE]
           /\ IsStored(s, f, t)
  <2>1. SessionOK(t)
    BY <1>5, StoredKeeps
  <2> HIDE DEF got
  <2>2. t = [s EXCEPT !.pending = t.pending, !.buffered = t.buffered]
    BY <1>1, <1>5 DEF IsStored, SessionType
  <2>3. got.refused = FALSE /\ got.whole = <<>>
    BY <1>5
  <2> QED
    BY <2>1, <2>2, <2>3 DEF got
<1>6. CASE /\ got = [s |-> got.s, whole |-> <<Joined(Joining(s, f))>>, refused |-> FALSE]
           /\ IsCompleted(s, f, t)
  <2>1. SessionOK(t)
    BY <1>6, CompletedKeeps
  <2> HIDE DEF got
  <2>2. t = [s EXCEPT !.pending = t.pending, !.buffered = t.buffered]
    BY <1>1, <1>6 DEF IsCompleted, SessionType
  <2>3. Joined(Joining(s, f)) \in Payload
    <3>1. f.split.index \in DOMAIN Joining(s, f)
      BY JoiningType
    <3> QED
      BY <3>1, JoiningType, JoinedType
  <2>4. got.refused = FALSE /\ got.whole = <<Joined(Joining(s, f))>>
    BY <1>6
  <2>5. got.whole[1] = Joined(Joining(s, f))
    BY <2>4
  <2> QED
    BY <2>1, <2>2, <2>3, <2>4, <2>5 DEF got
<1> QED
  BY <1>3, <1>4, <1>5, <1>6, PushFragmentIs

UserPayload == {p \in Payload : IsForCaller(p)}

AccOK(acc) ==
  /\ acc = [s |-> acc.s, out |-> acc.out, failed |-> acc.failed]
  /\ SessionOK(acc.s)
  /\ acc.out \in Seq(UserPayload)
  /\ acc.failed \in BOOLEAN

LEMMA AccIs ==
  ASSUME NEW s, SessionOK(s), NEW out \in Seq(UserPayload), NEW failed \in BOOLEAN,
         NEW acc, acc = [s |-> s, out |-> out, failed |-> failed]
  PROVE  AccOK(acc)
<1>1. acc.s = s /\ acc.out = out /\ acc.failed = failed
  OBVIOUS
<1> QED
  BY <1>1 DEF AccOK

LEMMA FaultKeeps ==
  ASSUME NEW s, SessionOK(s), NEW fault \in Faults
  PROVE  SessionOK([s EXCEPT !.faults = @ \cup {fault}])
<1> DEFINE t == [s EXCEPT !.faults = @ \cup {fault}]
<1>1. s \in SessionType /\ PendingOK(s)
  BY DEF SessionOK
<1>2. /\ SameSending(s, t) /\ t.state = s.state /\ t.pending = s.pending /\ t.buffered = s.buffered
      /\ t.ordering = s.ordering /\ t.dedup = s.dedup /\ t.pendingAcks = s.pendingAcks
      /\ t.faults = s.faults \cup {fault}
  BY <1>1 DEF SessionType, SameSending
<1> HIDE DEF t
<1>3. t.faults \in SUBSET Faults
  BY <1>1, <1>2, FaultsType
<1>4. SessionOK(t)
  BY <1>1, <1>2, <1>3, FaultsType, PendingPartsType, PendingSame, SameSendingKeeps
<1> QED
  BY <1>4 DEF t

LEMMA StateKeeps ==
  ASSUME NEW s, SessionOK(s), NEW state \in States
  PROVE  SessionOK([s EXCEPT !.state = state])
<1> DEFINE t == [s EXCEPT !.state = state]
<1>1. s \in SessionType /\ PendingOK(s)
  BY DEF SessionOK
<1>2. /\ SameSending(s, t) /\ t.state = state /\ t.pending = s.pending /\ t.buffered = s.buffered
      /\ t.ordering = s.ordering /\ t.dedup = s.dedup /\ t.pendingAcks = s.pendingAcks
      /\ t.faults = s.faults
  BY <1>1 DEF SessionType, SameSending
<1> HIDE DEF t
<1>3. SessionOK(t)
  BY <1>1, <1>2, FaultsType, PendingPartsType, PendingSame, SameSendingKeeps
<1> QED
  BY <1>3 DEF t

\* The session in the accumulator is another one.
LEMMA AccWith ==
  ASSUME NEW acc, AccOK(acc), NEW t
  PROVE  [acc EXCEPT !.s = t] = [s |-> t, out |-> acc.out, failed |-> acc.failed]
<1>1. acc = [s |-> acc.s, out |-> acc.out, failed |-> acc.failed]
  BY DEF AccOK
<1>2. \A a, b, c : [[s |-> a, out |-> b, failed |-> c] EXCEPT !.s = t] = [s |-> t, out |-> b, failed |-> c]
  OBVIOUS
<1> QED
  BY <1>1, <1>2

LEMMA FailedIs ==
  ASSUME NEW R, NEW O, NEW r \in [s : R, out : O, failed : BOOLEAN], NEW failed \in BOOLEAN
  PROVE  [r EXCEPT !.failed = failed] = [s |-> r.s, out |-> r.out, failed |-> failed]
OBVIOUS

LEMMA FailKeeps ==
  ASSUME NEW acc, AccOK(acc), NEW s, SessionOK(s), NEW fault \in Faults
  PROVE  AccOK(Fail(acc, s, fault))
<1> DEFINE t == [s EXCEPT !.faults = @ \cup {fault}]
           out == acc.out
<1>1. SessionOK(t)
  BY FaultKeeps
<1>2. Fail(acc, s, fault) = [acc EXCEPT !.s = t, !.failed = TRUE]
  BY DEF Fail
<1>3. acc = [s |-> acc.s, out |-> out, failed |-> acc.failed] /\ out \in Seq(UserPayload)
  BY DEF AccOK
<1> HIDE DEF t, out
<1>4. Fail(acc, s, fault) = [s |-> t, out |-> out, failed |-> TRUE]
  <2> DEFINE u == [acc EXCEPT !.s = t]
  <2>1. Fail(acc, s, fault) = [u EXCEPT !.failed = TRUE]
    BY <1>2
  <2>2. u = [s |-> t, out |-> out, failed |-> acc.failed]
    BY AccWith DEF out
  <2> HIDE DEF u
  <2>3. acc.failed \in BOOLEAN
    BY DEF AccOK
  <2>4. u \in [s : {t}, out : {out}, failed : BOOLEAN] /\ u.s = t /\ u.out = out
    BY <2>2, <2>3
  <2>5. [u EXCEPT !.failed = TRUE] = [s |-> u.s, out |-> u.out, failed |-> TRUE]
    BY <2>4, FailedIs
  <2> QED
    BY <2>1, <2>4, <2>5
<1>5. TRUE \in BOOLEAN
  OBVIOUS
<1> QED
  BY <1>1, <1>3, <1>4, <1>5, AccIs

LEMMA AccWithKeeps ==
  ASSUME NEW acc, AccOK(acc), NEW t, SessionOK(t)
  PROVE  AccOK([acc EXCEPT !.s = t])
<1>1. acc.out \in Seq(UserPayload) /\ acc.failed \in BOOLEAN
  BY DEF AccOK
<1>2. [acc EXCEPT !.s = t] = [s |-> t, out |-> acc.out, failed |-> acc.failed]
  BY AccWith
<1> QED
  BY <1>1, <1>2, AccIs

LEMMA ReplyType ==
  ASSUME NEW kind \in Kinds, NEW id \in Nat
  PROVE  [kind |-> kind, id |-> id, parts |-> 1] \in Payload
BY DEF Payload

LEMMA AnswerKeeps ==
  ASSUME NEW acc, AccOK(acc), NEW kind \in Kinds, NEW id \in Nat
  PROVE  AccOK(Answer(acc, kind, id))
<1> DEFINE p == [kind |-> kind, id |-> id, parts |-> 1]
           sent == Send(acc.s, p)
<1>1. p \in Payload /\ SessionOK(acc.s)
  BY ReplyType DEF AccOK
<1>2. SessionOK(sent.s)
  BY <1>1, SendKeeps
<1>3. Answer(acc, kind, id) = IF sent.ok THEN [acc EXCEPT !.s = sent.s] ELSE Fail(acc, sent.s, "reply")
  BY DEF Answer
<1>4. "reply" \in Faults
  BY DEF Faults
<1> HIDE DEF sent
<1> QED
  BY <1>2, <1>3, <1>4, AccWithKeeps, FailKeeps

LEMMA HandleKeeps ==
  ASSUME NEW acc, AccOK(acc), NEW p \in Payload
  PROVE  AccOK(HandleInternal(acc, p))
<1> DEFINE t == HandleInternal(acc, p)
<1>1. SessionOK(acc.s) /\ acc.out \in Seq(UserPayload) /\ acc.failed \in BOOLEAN
      /\ acc = [s |-> acc.s, out |-> acc.out, failed |-> acc.failed]
  BY DEF AccOK
<1>2. CASE acc.failed
  BY <1>2 DEF HandleInternal
<1>3. CASE ~ acc.failed /\ p.kind = "user"
  <2>1. t = [acc EXCEPT !.out = Append(acc.out, p)]
    BY <1>3 DEF HandleInternal, Return
  <2>2. p \in UserPayload
    BY <1>3 DEF UserPayload, IsForCaller
  <2> DEFINE out == Append(acc.out, p)
  <2>3. out \in Seq(UserPayload)
    BY <1>1, <2>2
  <2> HIDE DEF out, t
  <2>4. t = [s |-> acc.s, out |-> out, failed |-> acc.failed]
    <3>1. \A a, b, c : [[s |-> a, out |-> b, failed |-> c] EXCEPT !.out = out] = [s |-> a, out |-> out, failed |-> c]
      OBVIOUS
    <3>2. t = [acc EXCEPT !.out = out]
      BY <2>1 DEF out
    <3> QED
      BY <1>1, <3>1, <3>2
  <2>5. AccOK(t)
    BY <1>1, <2>3, <2>4, AccIs
  <2> QED
    BY <2>5 DEF t
<1>4. CASE ~ acc.failed /\ p.kind = "request"
  <2>1. t = Answer(acc, "accepted", p.id)
    BY <1>4 DEF HandleInternal
  <2>2. "accepted" \in Kinds /\ p.id \in Nat
    BY DEF Kinds, Payload
  <2> QED
    BY <2>1, <2>2, AnswerKeeps
<1>5. CASE ~ acc.failed /\ p.kind = "ping"
  <2>1. t = Answer(acc, "pong", p.id)
    BY <1>5 DEF HandleInternal
  <2>2. "pong" \in Kinds /\ p.id \in Nat
    BY DEF Kinds, Payload
  <2> QED
    BY <2>1, <2>2, AnswerKeeps
<1>6. CASE ~ acc.failed /\ p.kind = "incoming"
  <2> DEFINE u == [acc.s EXCEPT !.state = "Connected"]
  <2>1. t = [acc EXCEPT !.s = u]
    BY <1>6 DEF HandleInternal
  <2>2. "Connected" \in States
    BY DEF States
  <2> QED
    BY <1>1, <2>1, <2>2, StateKeeps, AccWithKeeps
<1>7. CASE ~ acc.failed /\ p.kind = "disconnect"
  <2> DEFINE u == [acc.s EXCEPT !.state = "ByPeer"]
  <2>1. t = [acc EXCEPT !.s = u]
    BY <1>7 DEF HandleInternal, ClosedByPeer
  <2>2. "ByPeer" \in States
    BY DEF States, Reasons
  <2> QED
    BY <1>1, <2>1, <2>2, StateKeeps, AccWithKeeps
<1>8. CASE /\ ~ acc.failed
           /\ p.kind \notin {"user", "request", "incoming", "ping", "disconnect"}
  <2>1. t = acc
    BY <1>8 DEF HandleInternal
  <2> QED
    BY <2>1
<1> QED
  BY <1>2, <1>3, <1>4, <1>5, <1>6, <1>7, <1>8

HandledOK(fixed, acc, k) == AccOK(acc)
Handling == INSTANCE Folding WITH Op <- HandleInternal, Holds <- HandledOK

LEMMA HandleAllIs ==
  \A base, seq : HandleAll(base, seq) = Handling!Loop(base, seq)
BY DEF HandleAll, Handling!Loop, Handling!MapThenFoldSet, Handling!Greatest,
       FoldLeft, MapThenFoldSet, Max

LEMMA HandleAllKeeps ==
  ASSUME NEW acc, AccOK(acc), NEW ready \in Seq(Payload)
  PROVE  AccOK(HandleAll(acc, ready))
<1>1. \A k \in 0 .. (Len(ready) - 1) : ready[k + 1] \in Payload
  OBVIOUS
<1>2. \A k \in 0 .. (Len(ready) - 1) : \A a :
        HandledOK(0, a, k) => HandledOK(0, HandleInternal(a, ready[k + 1]), k + 1)
  BY <1>1, HandleKeeps DEF HandledOK
<1>3. HandledOK(0, acc, 0)
  BY DEF HandledOK
<1>4. HandledOK(0, Handling!Loop(acc, ready), Len(ready))
  BY <1>2, <1>3, Handling!FoldKeeps
<1> QED
  BY <1>4, HandleAllIs DEF HandledOK

\* The receiving side changes, one field at a time.
LEMMA DedupKeeps ==
  ASSUME NEW s, SessionOK(s), NEW d \in Dedups
  PROVE  SessionOK([s EXCEPT !.dedup = d])
<1> DEFINE t == [s EXCEPT !.dedup = d]
<1>1. s \in SessionType /\ PendingOK(s)
  BY DEF SessionOK
<1>2. /\ SameSending(s, t) /\ t.state = s.state /\ t.pending = s.pending /\ t.buffered = s.buffered
      /\ t.ordering = s.ordering /\ t.dedup = d /\ t.pendingAcks = s.pendingAcks
      /\ t.faults = s.faults
  BY <1>1 DEF SessionType, SameSending
<1> HIDE DEF t
<1>3. SessionOK(t)
  BY <1>1, <1>2, FaultsType, PendingPartsType, PendingSame, SameSendingKeeps
<1> QED
  BY <1>3 DEF t

LEMMA OrderingKeeps ==
  ASSUME NEW s, SessionOK(s), NEW o \in Orderings
  PROVE  SessionOK([s EXCEPT !.ordering = o])
<1> DEFINE t == [s EXCEPT !.ordering = o]
<1>1. s \in SessionType /\ PendingOK(s)
  BY DEF SessionOK
<1>2. /\ SameSending(s, t) /\ t.state = s.state /\ t.pending = s.pending /\ t.buffered = s.buffered
      /\ t.ordering = o /\ t.dedup = s.dedup /\ t.pendingAcks = s.pendingAcks
      /\ t.faults = s.faults
  BY <1>1 DEF SessionType, SameSending
<1> HIDE DEF t
<1>3. SessionOK(t)
  BY <1>1, <1>2, FaultsType, PendingPartsType, PendingSame, SameSendingKeeps
<1> QED
  BY <1>3 DEF t

LEMMA AcksKeeps ==
  ASSUME NEW s, SessionOK(s), NEW acks \in SUBSET Nat
  PROVE  SessionOK([s EXCEPT !.pendingAcks = acks])
<1> DEFINE t == [s EXCEPT !.pendingAcks = acks]
<1>1. s \in SessionType /\ PendingOK(s)
  BY DEF SessionOK
<1>2. /\ SameSending(s, t) /\ t.state = s.state /\ t.pending = s.pending /\ t.buffered = s.buffered
      /\ t.ordering = s.ordering /\ t.dedup = s.dedup /\ t.pendingAcks = acks
      /\ t.faults = s.faults
  BY <1>1 DEF SessionType, SameSending
<1> HIDE DEF t
<1>3. SessionOK(t)
  BY <1>1, <1>2, FaultsType, PendingPartsType, PendingSame, SameSendingKeeps
<1> QED
  BY <1>3 DEF t

\* The steps of TakeFrame.
Marked(s, f) == [s EXCEPT !.dedup = DedupAccept(@, f.rel)]
Got(s, f) == PushFragment(Marked(s, f), f)
Pushed(s, f) == OrderingPush(Got(s, f).s.ordering, f.ord, Got(s, f).whole[1])
Placed(s, f) == [Got(s, f).s EXCEPT !.ordering = Pushed(s, f).ordering]

LEMMA TakeFrameIs ==
  ASSUME NEW acc, NEW f
  PROVE  LET s == acc.s
         IN \/ (acc.failed \/ IsHandled(s.dedup, f.rel)) /\ TakeFrame(acc, f) = acc
            \/ /\ ~ acc.failed /\ ~ IsHandled(s.dedup, f.rel)
               /\ \/ Got(s, f).refused /\ TakeFrame(acc, f) = Fail(acc, Got(s, f).s, "split")
                  \/ /\ ~ Got(s, f).refused /\ Got(s, f).whole = <<>>
                     /\ TakeFrame(acc, f) = [acc EXCEPT !.s = Got(s, f).s]
                  \/ /\ ~ Got(s, f).refused /\ Got(s, f).whole # <<>> /\ Pushed(s, f).refused
                     /\ TakeFrame(acc, f) = Fail(acc, Placed(s, f), "order")
                  \/ /\ ~ Got(s, f).refused /\ Got(s, f).whole # <<>> /\ ~ Pushed(s, f).refused
                     /\ TakeFrame(acc, f) = HandleAll([acc EXCEPT !.s = Placed(s, f)], Pushed(s, f).ready)
BY DEF TakeFrame, Marked, Got, Pushed, Placed

LEMMA StepsKeep ==
  ASSUME NEW s, SessionOK(s), NEW f \in Frame
  PROVE  /\ SessionOK(Marked(s, f)) /\ SessionOK(Got(s, f).s) /\ Got(s, f).refused \in BOOLEAN
         /\ Got(s, f).whole # <<>> =>
              /\ Got(s, f).whole[1] \in Payload
              /\ Pushed(s, f).ordering \in Orderings
              /\ Pushed(s, f).ready \in Seq(Payload)
              /\ SessionOK(Placed(s, f))
<1> DEFINE got == Got(s, f)
           pushed == Pushed(s, f)
           placed == Placed(s, f)
<1>1. f.rel \in Nat /\ f.ord \in Nat
  BY FrameType
<1>2. SessionOK(Marked(s, f))
  <2>1. s.dedup \in Dedups
    BY <1>1, FaultsType DEF SessionOK
  <2>2. DedupAccept(s.dedup, f.rel) \in Dedups
    BY <1>1, <2>1, DedupType
  <2> DEFINE d == DedupAccept(s.dedup, f.rel)
  <2>3. Marked(s, f) = [s EXCEPT !.dedup = d]
    BY DEF Marked
  <2> HIDE DEF d
  <2> QED
    BY <1>1, <2>2, <2>3, DedupKeeps DEF d
<1>3. SessionOK(got.s) /\ (got.whole # <<>> => got.whole[1] \in Payload) /\ got.refused \in BOOLEAN
  BY <1>2, PushFragmentKeeps DEF Got
<1>4. got.whole # <<>> =>
        pushed.ordering \in Orderings /\ pushed.ready \in Seq(Payload) /\ SessionOK(placed)
  <2> SUFFICES ASSUME got.whole # <<>>
               PROVE  pushed.ordering \in Orderings /\ pushed.ready \in Seq(Payload) /\ SessionOK(placed)
    OBVIOUS
  <2>1. got.s.ordering \in Orderings /\ got.whole[1] \in Payload
    BY <1>3, FaultsType DEF SessionOK
  <2>2. pushed.ordering \in Orderings /\ pushed.ready \in Seq(Payload)
    BY <1>1, <2>1, OrderingPushIs DEF Pushed
  <2>3. SessionOK(placed)
    BY <1>3, <2>2, OrderingKeeps DEF Placed
  <2> QED
    BY <2>2, <2>3
<1> QED
  BY <1>2, <1>3, <1>4

LEMMA TakeFrameKeeps ==
  ASSUME NEW acc, AccOK(acc), NEW f \in Frame
  PROVE  AccOK(TakeFrame(acc, f))
<1> DEFINE s == acc.s
           t == TakeFrame(acc, f)
           got == Got(s, f)
           pushed == Pushed(s, f)
           placed == Placed(s, f)
<1>1. SessionOK(s)
  BY DEF AccOK
<1>3. SessionOK(got.s)
  BY <1>1, StepsKeep
<1>4. got.whole # <<>> => pushed.ready \in Seq(Payload) /\ SessionOK(placed)
  BY <1>1, StepsKeep
<1> HIDE DEF got, pushed, placed, t, s
<1>5. "split" \in Faults /\ "order" \in Faults
  BY DEF Faults
<1>6. CASE t = acc
  BY <1>6 DEF t
<1>7. CASE t = Fail(acc, got.s, "split")
  BY <1>3, <1>5, <1>7, FailKeeps DEF t
<1>8. CASE t = [acc EXCEPT !.s = got.s]
  BY <1>3, <1>8, AccWithKeeps DEF t
<1>9. CASE got.whole # <<>> /\ t = Fail(acc, placed, "order")
  BY <1>4, <1>5, <1>9, FailKeeps DEF t
<1>10. CASE got.whole # <<>> /\ t = HandleAll([acc EXCEPT !.s = placed], pushed.ready)
  <2>1. AccOK([acc EXCEPT !.s = placed])
    BY <1>4, <1>10, AccWithKeeps
  <2> QED
    BY <1>4, <1>10, <2>1, HandleAllKeeps DEF t
<1> QED
  BY <1>6, <1>7, <1>8, <1>9, <1>10, TakeFrameIs DEF t, got, pushed, placed, s

Taking == INSTANCE Folding WITH Op <- TakeFrame, Holds <- HandledOK

LEMMA TakeAllIs ==
  \A base, seq : FoldLeft(TakeFrame, base, seq) = Taking!Loop(base, seq)
BY DEF Taking!Loop, Taking!MapThenFoldSet, Taking!Greatest, FoldLeft, MapThenFoldSet, Max

LEMMA TakeAllKeeps ==
  ASSUME NEW acc, AccOK(acc), NEW frames \in Seq(Frame)
  PROVE  AccOK(FoldLeft(TakeFrame, acc, frames))
<1>1. \A k \in 0 .. (Len(frames) - 1) : frames[k + 1] \in Frame
  OBVIOUS
<1>2. \A k \in 0 .. (Len(frames) - 1) : \A a :
        HandledOK(0, a, k) => HandledOK(0, TakeFrame(a, frames[k + 1]), k + 1)
  BY <1>1, TakeFrameKeeps DEF HandledOK
<1>3. HandledOK(0, acc, 0)
  BY DEF HandledOK
<1>4. HandledOK(0, Taking!Loop(acc, frames), Len(frames))
  BY <1>2, <1>3, Taking!FoldKeeps
<1> QED
  BY <1>4, TakeAllIs DEF HandledOK

\* A datagram a session may get.
IsArriving(d) ==
  \/ d \in Datagrams
  \/ d.type = "nack" /\ d.ranges \in Seq(SUBSET Nat)

LEMMA RangesType ==
  ASSUME NEW s, SessionOK(s), NEW n, NEW ranges \in SeqOf(SUBSET DOMAIN s.inFlight \ {{}}, n)
  PROVE  ranges \in Seq(SUBSET Nat)
<1>1. DOMAIN s.inFlight \subseteq Nat
  BY MapsDef DEF SessionOK, SessionType, InFlights
<1>2. PICK m \in 0 .. n : ranges \in [1 .. m -> SUBSET DOMAIN s.inFlight \ {{}}]
  BY DEF SeqOf
<1>3. ranges \in [1 .. m -> SUBSET Nat]
  BY <1>1, <1>2
<1> QED
  BY <1>2, <1>3

LEMMA ReceiveKeeps ==
  ASSUME NEW s, SessionOK(s), NEW d, IsArriving(d)
  PROVE  SessionOK(Receive(s, d).s) /\ Receive(s, d).out \in Seq(UserPayload)
<1> DEFINE got == Receive(s, d)
<1>0. <<>> \in Seq(UserPayload)
  OBVIOUS
<1>1. CASE IsClosed(s)
  BY <1>0, <1>1 DEF Receive
<1>2. CASE ~ IsClosed(s) /\ d.type = "ack"
  <2>1. got = [s |-> OnAck(s, d.seqs), out |-> <<>>]
    BY <1>2 DEF Receive
  <2>2. SessionOK(OnAck(s, d.seqs))
    BY OnAckKeeps
  <2> QED
    BY <1>0, <2>1, <2>2
<1>3. CASE ~ IsClosed(s) /\ d.type = "nack"
  <2>1. got = [s |-> OnNack(s, d.ranges), out |-> <<>>]
    BY <1>3 DEF Receive
  <2>2. d.ranges \in Seq(SUBSET Nat)
    BY <1>3 DEF IsArriving, Datagrams, FramesDatagram, AckDatagram
  <2>3. SessionOK(OnNack(s, d.ranges))
    BY <2>2, OnNackKeeps DEF Resent
  <2> QED
    BY <1>0, <2>1, <2>3
<1>4. CASE ~ IsClosed(s) /\ d.type = "frames"
  <2>1. d \in FramesDatagram
    BY <1>4 DEF IsArriving, Datagrams, AckDatagram
  <2>2. d.seq \in Nat /\ d.frames \in Seq(Frame)
    BY <2>1 DEF FramesDatagram, Batch
  <2> DEFINE acks == s.pendingAcks \cup {d.seq}
             u == [s EXCEPT !.pendingAcks = acks]
             first == [s |-> u, out |-> <<>>, failed |-> FALSE]
             taken == FoldLeft(TakeFrame, first, d.frames)
  <2>3. acks \in SUBSET Nat
    BY <2>2, FaultsType DEF SessionOK
  <2>4. SessionOK(u)
    <3> HIDE DEF acks
    <3> QED
      BY <2>3, AcksKeeps
  <2>5. got = [s |-> taken.s, out |-> IF taken.failed THEN <<>> ELSE taken.out]
    BY <1>4 DEF Receive
  <2>6. AccOK(first)
    <3> HIDE DEF u
    <3>1. FALSE \in BOOLEAN
      OBVIOUS
    <3> QED
      BY <1>0, <2>4, <3>1, AccIs
  <2> HIDE DEF first
  <2>7. AccOK(taken)
    BY <2>2, <2>6, TakeAllKeeps
  <2> HIDE DEF taken
  <2>8. SessionOK(taken.s) /\ taken.out \in Seq(UserPayload)
    BY <2>7 DEF AccOK
  <2> QED
    BY <1>0, <2>5, <2>8
<1>5. d.type \in {"ack", "nack", "frames"}
  BY DEF IsArriving, Datagrams, FramesDatagram, AckDatagram
<1> QED
  BY <1>1, <1>2, <1>3, <1>4, <1>5

-----------------------------------------------------------------------------
LEMMA TickKeeps ==
  ASSUME NEW s, SessionOK(s), NEW due, due \subseteq DOMAIN s.inFlight,
         NEW expired, expired \subseteq DOMAIN s.pending, NEW silent \in BOOLEAN, NEW ping \in BOOLEAN
  PROVE  SessionOK(Tick(s, due, expired, silent, ping))
<1> DEFINE t == Tick(s, due, expired, silent, ping)
           a == FlushAcks(s)
           b == Resend(a, due)
           c == Expire(b, expired)
           p == [kind |-> "ping", id |-> 0, parts |-> 1]
<1>1. CASE IsClosed(s)
  BY <1>1 DEF Tick
<1>2. CASE ~ IsClosed(s) /\ silent
  <2>1. "Timeout" \in States
    BY DEF States, Reasons
  <2> QED
    BY <1>2, <2>1, StateKeeps DEF Tick
<1>3. CASE ~ IsClosed(s) /\ ~ silent /\ s.dead
  <2>1. "Unreachable" \in States
    BY DEF States, Reasons
  <2> QED
    BY <1>3, <2>1, StateKeeps DEF Tick
<1>4. CASE ~ IsClosed(s) /\ ~ silent /\ ~ s.dead
  <2>1. t = IF ping THEN Send(c, p).s ELSE c
    BY <1>4 DEF Tick
  <2>2. SessionOK(a) /\ SameBesides(s, a) /\ a.inFlight = s.inFlight /\ a.dead = s.dead
    BY FlushAcksKeeps
  <2> HIDE DEF a
  <2>3. SessionOK(b) /\ SameBesides(a, b)
    BY <2>2, ResendKeeps DEF Resent
  <2> HIDE DEF b
  <2>4. b.pending = s.pending
    <3>1. a.pending = s.pending
      <4>1. s \in SessionType
        BY DEF SessionOK
      <4> QED
        BY <2>2, <4>1 DEF SameBesides, SessionType
    <3>2. b.pending = a.pending
      <4>1. a \in SessionType
        BY <2>2 DEF SessionOK
      <4> QED
        BY <2>3, <4>1 DEF SameBesides, SessionType
    <3> QED
      BY <3>1, <3>2
  <2>5. SessionOK(c)
    BY <2>3, <2>4, ExpireKeeps
  <2> HIDE DEF c
  <2>6. p \in Payload
    <3>1. "ping" \in Kinds /\ 0 \in Nat
      BY DEF Kinds
    <3> QED
      BY <3>1, ReplyType
  <2> HIDE DEF p
  <2>7. SessionOK(Send(c, p).s)
    BY <2>5, <2>6, SendKeeps
  <2> QED
    BY <2>1, <2>5, <2>7
<1> QED
  BY <1>1, <1>2, <1>3, <1>4

LEMMA CloseKeeps ==
  ASSUME NEW s, SessionOK(s)
  PROVE  SessionOK(Close(s))
<1> DEFINE p == [kind |-> "disconnect", id |-> 0, parts |-> 1]
           t == Send(s, p).s
<1>1. p \in Payload
  <2>1. "disconnect" \in Kinds /\ 0 \in Nat
    BY DEF Kinds
  <2> QED
    BY <2>1, ReplyType
<1>2. Close(s) = IF IsClosed(s) THEN s ELSE [t EXCEPT !.state = "ByUs"]
  BY DEF Close
<1> HIDE DEF p
<1>3. SessionOK(t)
  BY <1>1, SendKeeps
<1> HIDE DEF t
<1>4. "ByUs" \in States
  BY DEF States, Reasons
<1> QED
  BY <1>2, <1>3, <1>4, StateKeeps

-----------------------------------------------------------------------------
(* The sessions on their network.                                           *)


LEMMA OtherIs ==
  ASSUME NEW e \in Ends
  PROVE  /\ Other(e) \in Ends /\ Other(e) # e /\ Other(Other(e)) = e
         /\ \A x \in Ends : x = e \/ x = Other(e)
<1>1. IsFiniteSet(Ends) /\ Cardinality(Ends) = 2
  BY LinkAssumption
<1>2. \A x, y \in Ends : x # y => Ends = {x, y}
  <2> SUFFICES ASSUME NEW x \in Ends, NEW y \in Ends, x # y PROVE Ends = {x, y}
    OBVIOUS
  <2>1. IsFiniteSet({x}) /\ Cardinality({x}) = 1
    BY FS_Singleton
  <2>2. IsFiniteSet({x} \cup {y}) /\ Cardinality({x} \cup {y}) = Cardinality({x}) + 1
    BY <2>1, FS_AddElement
  <2>3. {x} \cup {y} \in SUBSET Ends /\ Cardinality({x} \cup {y}) = Cardinality(Ends)
    BY <1>1, <2>1, <2>2
  <2>4. {x} \cup {y} = Ends
    BY <1>1, <2>3, FS_Subset
  <2> QED
    BY <2>4
<1>3. \E x \in Ends : x # e
  <2> SUFFICES ASSUME \A x \in Ends : x = e PROVE FALSE
    OBVIOUS
  <2>1. Ends = {e}
    OBVIOUS
  <2>2. Cardinality({e}) = 1
    BY FS_Singleton
  <2> QED
    BY <1>1, <2>1, <2>2
<1>4. Other(e) \in Ends /\ Other(e) # e
  BY <1>3 DEF Other
<1>5. Ends = {e, Other(e)}
  BY <1>2, <1>4
<1>6. Other(Other(e)) = e
  <2> DEFINE o == Other(e)
  <2>1. \A x : x \in Ends /\ x # o <=> x = e
    BY <1>4, <1>5
  <2>2. Other(o) = CHOOSE x \in Ends : x # o
    BY DEF Other
  <2> HIDE DEF o
  <2>3. (CHOOSE x \in Ends : x # o) \in Ends /\ (CHOOSE x \in Ends : x # o) # o
    BY <2>1
  <2>4. Other(o) = e
    BY <2>1, <2>2, <2>3
  <2> QED
    BY <2>4 DEF o
<1> QED
  BY <1>4, <1>5, <1>6

\* The inductive invariant.
LinkOK ==
  /\ ses \in [Ends -> SessionType]
  /\ \A e \in Ends : SessionOK(ses[e]) /\ ses[e].outbox = <<>>
  /\ net \in [Ends -> SUBSET Datagrams]
  /\ delivered \in [Ends -> Seq(UserPayload)]
  /\ pos \in [Ends -> Nat]
  /\ \A e \in Ends : pos[e] <= Len(Script[e])

LEMMA EmptyFlights == EmptyMap \in InFlights /\ EmptyMap \in Pendings
BY MapsEmpty DEF InFlights, Pendings

LEMMA NewSessionKeeps == SessionOK(NewSession)
<1> DEFINE s == NewSession
<1>1. DOMAIN EmptyMap = {}
  BY DEF EmptyMap
<1>2. NewOrdering \in Orderings
  <2> DEFINE m == [i \in {} |-> {}]
  <2>1. m \in Maps(Nat, Payload) /\ DOMAIN m = {}
    BY MapsEmpty DEF EmptyMap
  <2> HIDE DEF m
  <2>2. [expected |-> 0, buffered |-> m] \in Orderings
    BY <2>1 DEF Orderings
  <2> QED
    BY <2>2 DEF NewOrdering, m
<1>3. NewDedup \in Dedups
  BY DEF NewDedup, Dedups
<1>4. <<>> \in Seq(Datagrams) /\ <<>> \in Seq(Payload) /\ Len(<<>>) = 0 /\ FALSE \in BOOLEAN
  OBVIOUS
<1>5. "Connecting" \in States
  BY DEF States
<1>6. s \in SessionType
  BY <1>2, <1>3, <1>4, <1>5, EmptyFlights DEF NewSession, SessionType
<1>7. /\ s.nextOrd = 0 /\ s.nextRel = 0 /\ s.log = <<>> /\ s.inFlight = EmptyMap /\ s.pending = EmptyMap
      /\ s.buffered = 0
  BY DEF NewSession
<1>8. SendingOK(s)
  BY <1>4, <1>7, FirstFrameEmpty DEF SendingOK
<1>9. IsFiniteSet({}) /\ Cardinality({}) = 0
  BY FS_EmptySet
<1>10. WindowOK(s)
  BY <1>1, <1>7, <1>9, SessionAssumption DEF WindowOK
<1>11. PendingOK(s)
  <2>1. Pieces(s) = {}
    <3>1. \A x : x \notin Pieces(s)
      BY <1>1, <1>7, PiecesIs
    <3> QED
      BY <3>1
  <2> QED
    BY <1>1, <1>7, <1>9, <2>1, SessionAssumption DEF PendingOK
<1> QED
  BY <1>6, <1>8, <1>10, <1>11 DEF SessionOK

LEMMA InitOK == Init => LinkOK
<1> SUFFICES ASSUME Init PROVE LinkOK
  OBVIOUS
<1>1. NewSession \in SessionType /\ NewSession.outbox = <<>>
  BY NewSessionKeeps DEF SessionOK, NewSession
<1>2. \A e \in Ends : ses[e] = NewSession
  BY DEF Init
<1>3. ses \in [Ends -> SessionType] /\ \A e \in Ends : SessionOK(ses[e]) /\ ses[e].outbox = <<>>
  BY <1>1, <1>2, NewSessionKeeps DEF Init
<1>4. net \in [Ends -> SUBSET Datagrams] /\ delivered \in [Ends -> Seq(UserPayload)] /\ pos \in [Ends -> Nat]
  BY DEF Init
<1>5. \A e \in Ends : pos[e] <= Len(Script[e])
  <2>1. \A e \in Ends : pos[e] = 0 /\ Len(Script[e]) \in Nat
    BY LinkAssumption DEF Init
  <2> QED
    BY <2>1
<1> QED
  BY <1>3, <1>4, <1>5 DEF LinkOK

LEMMA DrainedKeeps ==
  ASSUME NEW s, SessionOK(s)
  PROVE  SessionOK([s EXCEPT !.outbox = <<>>])
<1> DEFINE t == [s EXCEPT !.outbox = <<>>]
<1>1. s \in SessionType /\ WindowOK(s)
  BY DEF SessionOK
<1>2. /\ SameBesides(s, t) /\ t.inFlight = s.inFlight /\ t.dead = s.dead /\ t.outbox = <<>>
      /\ t.pendingAcks = s.pendingAcks /\ t.nextSeq = s.nextSeq
  BY <1>1 DEF SessionType, SameBesides
<1> HIDE DEF t
<1>3. t.inFlight \in InFlights /\ t.dead \in BOOLEAN /\ t.outbox \in Seq(Datagrams) /\ t.pendingAcks \in SUBSET Nat
  BY <1>1, <1>2 DEF SessionType
<1>4. SessionOK(t)
  BY <1>1, <1>2, <1>3, WindowSame, SameBesidesKeeps
<1> QED
  BY <1>4 DEF t

LEMMA DrainKeeps ==
  ASSUME LinkOK, NEW e \in Ends, NEW s, SessionOK(s),
         NEW netNow \in [Ends -> SUBSET Datagrams], Drain(e, s, netNow)
  PROVE  /\ ses' \in [Ends -> SessionType]
         /\ \A x \in Ends : SessionOK(ses'[x]) /\ ses'[x].outbox = <<>>
         /\ net' \in [Ends -> SUBSET Datagrams]
<1> DEFINE t == [s EXCEPT !.outbox = <<>>]
<1>1. SessionOK(t) /\ t \in SessionType /\ t.outbox = <<>>
  <2>1. SessionOK(t)
    BY DrainedKeeps
  <2>2. s \in SessionType
    BY DEF SessionOK
  <2> QED
    BY <2>1, <2>2 DEF SessionOK, SessionType
<1>2. ses' = [ses EXCEPT ![e] = t]
  BY DEF Drain
<1> HIDE DEF t
<1>3. ses' \in [Ends -> SessionType] /\ ses'[e] = t /\ \A x \in Ends : x # e => ses'[x] = ses[x]
  BY <1>1, <1>2 DEF LinkOK
<1>4. \A x \in Ends : SessionOK(ses'[x]) /\ ses'[x].outbox = <<>>
  BY <1>1, <1>3 DEF LinkOK
<1>5. PICK through \in SUBSET Range(s.outbox) : net' = [netNow EXCEPT ![Other(e)] = @ \cup through]
  BY DEF Drain
<1>6. through \subseteq Datagrams
  <2>1. s.outbox \in Seq(Datagrams)
    BY DEF SessionOK, SessionType
  <2>2. Range(s.outbox) \subseteq Datagrams
    BY <2>1 DEF Range
  <2> QED
    BY <2>2
<1>7. net' \in [Ends -> SUBSET Datagrams]
  BY <1>5, <1>6, OtherIs
<1> QED
  BY <1>3, <1>4, <1>7

LEMMA TakeKeeps ==
  ASSUME LinkOK, NEW e \in Ends, NEW d, IsArriving(d),
         NEW netNow \in [Ends -> SUBSET Datagrams], Take(e, d, netNow)
  PROVE  LinkOK'
<1>1. SessionOK(ses[e])
  BY DEF LinkOK
<1>2. SessionOK(Receive(ses[e], d).s) /\ Receive(ses[e], d).out \in Seq(UserPayload)
  BY <1>1, ReceiveKeeps
<1> DEFINE got == Receive(ses[e], d)
<1>3. Drain(e, got.s, netNow) /\ delivered' = [delivered EXCEPT ![e] = @ \o got.out] /\ UNCHANGED pos
  BY DEF Take
<1> HIDE DEF got
<1>4. /\ ses' \in [Ends -> SessionType]
      /\ \A x \in Ends : SessionOK(ses'[x]) /\ ses'[x].outbox = <<>>
      /\ net' \in [Ends -> SUBSET Datagrams]
  BY <1>2, <1>3, DrainKeeps DEF got
<1>5. delivered' \in [Ends -> Seq(UserPayload)]
  <2>1. delivered \in [Ends -> Seq(UserPayload)] /\ delivered[e] \in Seq(UserPayload)
    BY DEF LinkOK
  <2> DEFINE more == delivered[e] \o got.out
  <2>2. more \in Seq(UserPayload)
    BY <1>2, <2>1, ConcatProperties DEF got
  <2>3. delivered' = [delivered EXCEPT ![e] = more]
    BY <1>3
  <2> HIDE DEF more
  <2> QED
    BY <2>1, <2>2, <2>3
<1> QED
  BY <1>3, <1>4, <1>5 DEF LinkOK

LEMMA StepOK == LinkOK /\ [Next]_vars => LinkOK'
<1> SUFFICES ASSUME LinkOK, [Next]_vars PROVE LinkOK'
  OBVIOUS
<1>1. CASE UNCHANGED vars
  BY <1>1 DEF LinkOK, vars
<1>2. net \in [Ends -> SUBSET Datagrams] /\ \A e \in Ends : SessionOK(ses[e])
  BY DEF LinkOK
<1>3. ASSUME NEW e \in Ends, CallSend(e) PROVE LinkOK'
  <2> DEFINE p == Script[e][pos[e] + 1]
  <2>1. pos[e] \in Nat /\ pos[e] < Len(Script[e]) /\ pos \in [Ends -> Nat]
    BY <1>3 DEF CallSend, LinkOK
  <2>2. Script[e] \in Seq([kind : {"user", "request", "incoming"}, id : Nat, parts : Nat \ {0}])
    BY LinkAssumption
  <2>3. p \in Payload
    <3>1. pos[e] + 1 \in 1 .. Len(Script[e])
      BY <2>1, <2>2
    <3>2. p \in [kind : {"user", "request", "incoming"}, id : Nat, parts : Nat \ {0}]
      <4> DEFINE S == [kind : {"user", "request", "incoming"}, id : Nat, parts : Nat \ {0}]
                 script == Script[e]
      <4>1. script \in Seq(S) /\ pos[e] + 1 \in 1 .. Len(script)
        BY <2>2, <3>1
      <4> HIDE DEF S, script
      <4>2. script[pos[e] + 1] \in S
        BY <4>1
      <4> QED
        BY <4>2 DEF S, script
    <3> HIDE DEF p
    <3> QED
      BY <3>2 DEF Payload, Kinds
  <2>4. Drain(e, Send(ses[e], p).s, net) /\ pos' = [pos EXCEPT ![e] = @ + 1] /\ UNCHANGED delivered
    BY <1>3 DEF CallSend
  <2> HIDE DEF p
  <2>5. SessionOK(Send(ses[e], p).s)
    BY <1>2, <2>3, SendKeeps
  <2>6. /\ ses' \in [Ends -> SessionType]
        /\ \A x \in Ends : SessionOK(ses'[x]) /\ ses'[x].outbox = <<>>
        /\ net' \in [Ends -> SUBSET Datagrams]
    BY <1>2, <2>4, <2>5, DrainKeeps
  <2>7. pos' \in [Ends -> Nat] /\ \A x \in Ends : pos'[x] <= Len(Script[x])
    <3>1. pos'[e] = pos[e] + 1 /\ pos' \in [Ends -> Nat] /\ \A x \in Ends : x # e => pos'[x] = pos[x]
      BY <2>1, <2>4
    <3>2. pos[e] + 1 <= Len(Script[e])
      BY <2>1, <2>2
    <3> QED
      BY <3>1, <3>2 DEF LinkOK
  <2> QED
    BY <2>4, <2>6, <2>7 DEF LinkOK
<1>4. ASSUME NEW e \in Ends, NEW d \in net[e], Deliver(e, d) PROVE LinkOK'
  <2>1. PICK left \in {net[e], net[e] \ {d}} : Take(e, d, [net EXCEPT ![e] = left])
    BY <1>4 DEF Deliver
  <2>2. d \in Datagrams /\ left \subseteq Datagrams
    BY <1>2
  <2>3. [net EXCEPT ![e] = left] \in [Ends -> SUBSET Datagrams]
    BY <1>2, <2>2
  <2>4. IsArriving(d)
    BY <2>2 DEF IsArriving
  <2> QED
    BY <2>1, <2>3, <2>4, TakeKeeps
<1>5. ASSUME NEW e \in Ends, NEW ranges \in SeqOf(SUBSET DOMAIN ses[e].inFlight \ {{}}, MaxRanges),
             DeliverNack(e, ranges)
      PROVE  LinkOK'
  <2> DEFINE d == [type |-> "nack", ranges |-> ranges]
  <2>1. Take(e, d, net)
    BY <1>5 DEF DeliverNack
  <2>2. IsArriving(d)
    BY <1>2, <1>5, RangesType DEF IsArriving
  <2> HIDE DEF d
  <2> QED
    BY <1>2, <2>1, <2>2, TakeKeeps
<1>6. ASSUME NEW e \in Ends, NEW due \in SUBSET DOMAIN ses[e].inFlight,
             NEW expired \in SUBSET DOMAIN ses[e].pending, NEW silent \in BOOLEAN, NEW ping \in BOOLEAN,
             CallTick(e, due, expired, silent, ping)
      PROVE  LinkOK'
  <2> DEFINE t == Tick(ses[e], due, expired, silent, ping)
  <2>1. Drain(e, t, net) /\ UNCHANGED <<delivered, pos>>
    BY <1>6 DEF CallTick
  <2>2. SessionOK(t)
    BY <1>2, TickKeeps
  <2> HIDE DEF t
  <2>3. /\ ses' \in [Ends -> SessionType]
        /\ \A x \in Ends : SessionOK(ses'[x]) /\ ses'[x].outbox = <<>>
        /\ net' \in [Ends -> SUBSET Datagrams]
    BY <1>2, <2>1, <2>2, DrainKeeps
  <2> QED
    BY <2>1, <2>3 DEF LinkOK
<1>7. ASSUME NEW e \in Ends, CallClose(e) PROVE LinkOK'
  <2> DEFINE t == Close(ses[e])
  <2>1. Drain(e, t, net) /\ UNCHANGED <<delivered, pos>>
    BY <1>7 DEF CallClose
  <2>2. SessionOK(t)
    BY <1>2, CloseKeeps
  <2> HIDE DEF t
  <2>3. /\ ses' \in [Ends -> SessionType]
        /\ \A x \in Ends : SessionOK(ses'[x]) /\ ses'[x].outbox = <<>>
        /\ net' \in [Ends -> SUBSET Datagrams]
    BY <1>2, <2>1, <2>2, DrainKeeps
  <2> QED
    BY <2>1, <2>3 DEF LinkOK
<1>8. CASE Next
  BY <1>3, <1>4, <1>5, <1>6, <1>7, <1>8 DEF Next
<1> QED
  BY <1>1, <1>8

(* Every handler of Session, from any state it can be in, leaves both      *)
(* sessions typed, with no index spent on part of a payload, and within    *)
(* the limits of their configuration.                                      *)
THEOREM LinkInvariant == Spec => []LinkOK
<1>1. Init => LinkOK
  BY InitOK
<1>2. LinkOK /\ [Next]_vars => LinkOK'
  BY StepOK
<1> QED
  BY <1>1, <1>2, PTL DEF Spec

(* Every field of a session, the network and the callers' logs keep their  *)
(* type through send, receive, tick, close and whatever the network does.  *)
THEOREM TypeCorrect == Spec => []TypeOK
<1>1. LinkOK => TypeOK
  <2> SUFFICES ASSUME LinkOK, NEW e \in Ends
               PROVE  /\ ses[e].state \in {"Connecting", "Connected"} \cup Reasons
                      /\ ses[e].dead \in BOOLEAN
                      /\ ses[e].faults \subseteq {"split", "order", "reply", "expired"}
                      /\ \A q \in DOMAIN ses[e].inFlight : q < ses[e].nextSeq
                      /\ \A d \in net[e] : d.type \in {"frames", "ack"}
                      /\ pos[e] \in 0 .. Len(Script[e])
                      /\ \A p \in Range(delivered[e]) : IsForCaller(p)
    BY DEF TypeOK
  <2>1. ses[e] \in SessionType /\ WindowOK(ses[e])
    BY DEF LinkOK, SessionOK
  <2>2. ses[e].state \in States /\ ses[e].dead \in BOOLEAN /\ ses[e].faults \in SUBSET Faults
    BY <2>1 DEF SessionType
  <2>3. \A q \in DOMAIN ses[e].inFlight : q < ses[e].nextSeq
    BY <2>1 DEF WindowOK
  <2>4. \A d \in Datagrams : d.type \in {"frames", "ack"}
    BY DEF Datagrams, FramesDatagram, AckDatagram
  <2>5. net[e] \subseteq Datagrams
    BY DEF LinkOK
  <2>6. pos[e] \in 0 .. Len(Script[e])
    <3>1. pos[e] \in Nat /\ pos[e] <= Len(Script[e]) /\ Len(Script[e]) \in Nat
      BY LinkAssumption DEF LinkOK
    <3> QED
      BY <3>1
  <2>7. \A p \in Range(delivered[e]) : IsForCaller(p)
    <3>1. delivered[e] \in Seq(UserPayload)
      BY DEF LinkOK
    <3> QED
      BY <3>1 DEF UserPayload, Range
  <2> QED
    BY <2>2, <2>3, <2>4, <2>5, <2>6, <2>7 DEF States, Faults
<1> QED
  BY <1>1, LinkInvariant, PTL

(* send_frames: the order and reliable indices spent are exactly those of  *)
(* the payloads accepted, each of them queued whole.                       *)
THEOREM WholePayloads == Spec => []PayloadsWhole
<1>1. LinkOK => PayloadsWhole
  BY DEF LinkOK, SessionOK, SendingOK, PayloadsWhole
<1> QED
  BY <1>1, LinkInvariant, PTL

(* Reassembler and Retransmitter: the fragments held are counted as they   *)
(* are, the window has its bound, and a datagram past its retries, however *)
(* many ranges of however many NACKs took it there, has marked the session *)
(* dead.                                                                   *)
THEOREM BoundedBuffers == Spec => []BuffersBounded
<1>1. LinkOK => BuffersBounded
  BY DEF LinkOK, SessionOK, WindowOK, PendingOK, BuffersBounded
<1> QED
  BY <1>1, LinkInvariant, PTL

(* What the two ends agree on.                                              *)

\* log2 is log with more at its end, ids2 says the same of what is in log.
Grows(log, ids, log2, ids2) ==
  /\ Len(log) <= Len(log2)
  /\ \A k \in 1 .. Len(log) : log2[k] = log[k] /\ ids2[k] = ids[k]

\* f is a fragment of the k-th payload of log, cut under number ids[k]. Order
\* indices and split ids are told as long as they have not wrapped.
IsFragmentOf(log, ids, f, k) ==
  /\ k \in 1 .. Len(log)
  /\ f.payload = log[k]
  /\ k <= IndexSpace => f.ord = k - 1
  /\ log[k].parts = 1 => f.split = NoSplit
  /\ log[k].parts # 1 =>
       f.split.count = log[k].parts /\ (ids[k] < SplitSpace => f.split.id = ids[k])

Genuine(log, ids, d) ==
  d.type = "frames" =>
    \A i \in 1 .. Len(d.frames) : \E k \in 1 .. Len(log) : IsFragmentOf(log, ids, d.frames[i], k)

\* cuts payloads have been cut, and no two of log under the same number.
IdsOK(log, ids, cuts) ==
  /\ ids \in [Nat -> Nat] /\ cuts \in Nat
  /\ \A k \in 1 .. Len(log) : log[k].parts # 1 => ids[k] < cuts
  /\ \A k, m \in 1 .. Len(log) :
       log[k].parts # 1 /\ log[m].parts # 1 /\ ids[k] = ids[m] => k = m

\* What a session has sent and may send again is its own.
SenderOK(s, ids, cuts) ==
  /\ IdsOK(s.log, ids, cuts)
  /\ cuts < SplitSpace => s.nextSplit = cuts
  /\ \A q \in DOMAIN s.inFlight : Genuine(s.log, ids, s.inFlight[q].datagram)
  /\ \A i \in 1 .. Len(s.outbox) : Genuine(s.log, ids, s.outbox[i])

\* What a session holds is its peer's.
OrderedOK(o, log) ==
  /\ o.expected <= Len(log)
  /\ \A k \in DOMAIN o.buffered : k < Len(log) /\ o.buffered[k] = log[k + 1]

IsPieceOf(log, ids, id, count, p, k) ==
  /\ k \in 1 .. Len(log)
  /\ log[k].parts # 1 /\ ids[k] = id
  /\ p = log[k] /\ count = log[k].parts

PiecesOK(pending, log, ids) ==
  \A id \in DOMAIN pending : \A j \in DOMAIN pending[id].pieces :
    \E k \in 1 .. Len(log) : IsPieceOf(log, ids, id, pending[id].count, pending[id].pieces[j], k)

ReceiverOK(s, log, ids) == OrderedOK(s.ordering, log) /\ PiecesOK(s.pending, log, ids)

-----------------------------------------------------------------------------
LEMMA GrowsSame == ASSUME NEW log \in Seq(Payload), NEW ids PROVE Grows(log, ids, log, ids)
<1>1. Len(log) \in Nat
  OBVIOUS
<1> QED
  BY <1>1 DEF Grows

LEMMA GrowsMore ==
  ASSUME NEW a \in Seq(Payload), NEW b \in Seq(Payload), NEW c \in Seq(Payload),
         NEW x, NEW y, NEW z, Grows(a, x, b, y), Grows(b, y, c, z)
  PROVE  Grows(a, x, c, z)
<1>1. Len(a) \in Nat /\ Len(b) \in Nat /\ Len(c) \in Nat
  OBVIOUS
<1>2. Len(a) <= Len(b) /\ Len(b) <= Len(c)
  BY DEF Grows
<1>3. \A k \in 1 .. Len(a) : k \in 1 .. Len(b)
  BY <1>1, <1>2
<1>4. \A k \in 1 .. Len(a) : c[k] = a[k] /\ z[k] = x[k]
  BY <1>3 DEF Grows
<1>5. Len(a) <= Len(c)
  BY <1>1, <1>2
<1> QED
  BY <1>4, <1>5 DEF Grows

LEMMA GrowsAppend ==
  ASSUME NEW log \in Seq(Payload), NEW p \in Payload, NEW ids, NEW ids2,
         \A k \in 1 .. Len(log) : ids2[k] = ids[k]
  PROVE  Grows(log, ids, Append(log, p), ids2)
<1>1. Len(Append(log, p)) = Len(log) + 1 /\ \A k \in 1 .. Len(log) : Append(log, p)[k] = log[k]
  BY AppendProperties
<1>2. Len(log) \in Nat
  OBVIOUS
<1> QED
  BY <1>1, <1>2 DEF Grows

LEMMA InBoth ==
  ASSUME NEW log \in Seq(Payload), NEW log2 \in Seq(Payload), NEW ids, NEW ids2,
         Grows(log, ids, log2, ids2), NEW k \in 1 .. Len(log)
  PROVE  k \in 1 .. Len(log2) /\ log2[k] = log[k] /\ ids2[k] = ids[k]
<1>1. Len(log) \in Nat /\ Len(log2) \in Nat /\ Len(log) <= Len(log2)
  BY DEF Grows
<1> QED
  BY <1>1 DEF Grows

LEMMA GenuineGrows ==
  ASSUME NEW log \in Seq(Payload), NEW log2 \in Seq(Payload), NEW ids, NEW ids2,
         Grows(log, ids, log2, ids2), NEW d, Genuine(log, ids, d)
  PROVE  Genuine(log2, ids2, d)
<1> SUFFICES ASSUME d.type = "frames", NEW i \in 1 .. Len(d.frames)
             PROVE  \E k \in 1 .. Len(log2) : IsFragmentOf(log2, ids2, d.frames[i], k)
  BY DEF Genuine
<1>1. PICK k \in 1 .. Len(log) : IsFragmentOf(log, ids, d.frames[i], k)
  BY DEF Genuine
<1>2. k \in 1 .. Len(log2) /\ log2[k] = log[k] /\ ids2[k] = ids[k]
  BY InBoth
<1> QED
  BY <1>1, <1>2 DEF IsFragmentOf

LEMMA ReceiverGrows ==
  ASSUME NEW log \in Seq(Payload), NEW log2 \in Seq(Payload), NEW ids, NEW ids2,
         Grows(log, ids, log2, ids2), NEW s \in SessionType, ReceiverOK(s, log, ids)
  PROVE  ReceiverOK(s, log2, ids2)
<1>1. Len(log) \in Nat /\ Len(log2) \in Nat /\ Len(log) <= Len(log2)
  BY DEF Grows
<1>2. s.ordering.expected \in Nat /\ DOMAIN s.ordering.buffered \subseteq Nat
  <2>1. s.ordering \in Orderings
    BY FaultsType
  <2>2. s.ordering.expected \in Nat /\ s.ordering.buffered \in Maps(Nat, Payload)
    BY <2>1 DEF Orderings
  <2> QED
    BY <2>2, MapsDef
<1>3. OrderedOK(s.ordering, log2)
  <2>1. s.ordering.expected <= Len(log2)
    BY <1>1, <1>2 DEF ReceiverOK, OrderedOK
  <2>2. ASSUME NEW k \in DOMAIN s.ordering.buffered
        PROVE  k < Len(log2) /\ s.ordering.buffered[k] = log2[k + 1]
    <3>1. k \in Nat /\ k < Len(log) /\ s.ordering.buffered[k] = log[k + 1]
      BY <1>2 DEF ReceiverOK, OrderedOK
    <3>2. k + 1 \in 1 .. Len(log) /\ k < Len(log2)
      BY <1>1, <3>1
    <3> QED
      BY <3>1, <3>2, InBoth
  <2> QED
    BY <2>1, <2>2 DEF OrderedOK
<1>4. PiecesOK(s.pending, log2, ids2)
  <2> SUFFICES ASSUME NEW id \in DOMAIN s.pending, NEW j \in DOMAIN s.pending[id].pieces
               PROVE  \E k \in 1 .. Len(log2) :
                        IsPieceOf(log2, ids2, id, s.pending[id].count, s.pending[id].pieces[j], k)
    BY DEF PiecesOK
  <2>1. PICK k \in 1 .. Len(log) : IsPieceOf(log, ids, id, s.pending[id].count, s.pending[id].pieces[j], k)
    BY DEF ReceiverOK, PiecesOK
  <2>2. k \in 1 .. Len(log2) /\ log2[k] = log[k] /\ ids2[k] = ids[k]
    BY InBoth
  <2> QED
    BY <2>1, <2>2 DEF IsPieceOf
<1> QED
  BY <1>3, <1>4 DEF ReceiverOK

-----------------------------------------------------------------------------
(* ForCaller and Those.                                                     *)

IsUserSeq(fixed, got, k) == got \in Seq(UserPayload)
Callers == INSTANCE Folding WITH Op <- AddForCaller, Holds <- IsUserSeq

LEMMA ForCallerIs ==
  \A log : ForCaller(log) = Callers!Loop(<<>>, log)
BY DEF ForCaller, Callers!Loop, Callers!MapThenFoldSet, Callers!Greatest,
       FoldLeft, MapThenFoldSet, Max

LEMMA ForCallerEmpty == ForCaller(<<>>) = <<>>
BY ForCallerIs, Callers!FoldEmpty

LEMMA ForCallerLast ==
  ASSUME NEW log \in Seq(Payload), log # <<>>
  PROVE  ForCaller(log) = AddForCaller(ForCaller(SubSeq(log, 1, Len(log) - 1)), log[Len(log)])
<1>1. Callers!Loop(<<>>, log)
        = AddForCaller(Callers!Loop(<<>>, SubSeq(log, 1, Len(log) - 1)), log[Len(log)])
  BY Callers!FoldLast
<1> QED
  BY <1>1, ForCallerIs

LEMMA ForCallerType ==
  ASSUME NEW log \in Seq(Payload)
  PROVE  ForCaller(log) \in Seq(UserPayload)
<1>1. \A k \in 0 .. (Len(log) - 1) : \A got :
        IsUserSeq(0, got, k) => IsUserSeq(0, AddForCaller(got, log[k + 1]), k + 1)
  <2> SUFFICES ASSUME NEW k \in 0 .. (Len(log) - 1), NEW got, got \in Seq(UserPayload)
               PROVE  AddForCaller(got, log[k + 1]) \in Seq(UserPayload)
    BY DEF IsUserSeq
  <2>1. log[k + 1] \in Payload
    OBVIOUS
  <2>2. IsForCaller(log[k + 1]) => log[k + 1] \in UserPayload
    BY <2>1 DEF UserPayload
  <2> QED
    BY <2>2 DEF AddForCaller
<1>2. IsUserSeq(0, <<>>, 0)
  BY DEF IsUserSeq
<1>3. IsUserSeq(0, Callers!Loop(<<>>, log), Len(log))
  BY <1>1, <1>2, Callers!FoldKeeps
<1> QED
  BY <1>3, ForCallerIs DEF IsUserSeq

\* The payloads of log from the one after the base-th to the n-th.
Released(log, base, n) == SubSeq(log, base + 1, n)

LEMMA ReleasedIs ==
  ASSUME NEW log \in Seq(Payload), NEW base \in Nat, NEW n \in Nat, base <= n, n <= Len(log)
  PROVE  /\ Released(log, base, n) \in Seq(Payload)
         /\ Len(Released(log, base, n)) = n - base
         /\ \A i \in 1 .. (n - base) : Released(log, base, n)[i] = log[base + i]
<1>1. base + 1 \in Nat /\ Len(log) \in Nat
  OBVIOUS
<1>2. \A i \in (base + 1) .. n : log[i] \in Payload
  BY <1>1
<1>3. /\ SubSeq(log, base + 1, n) \in Seq(Payload)
      /\ Len(SubSeq(log, base + 1, n)) = (IF base + 1 <= n THEN n - (base + 1) + 1 ELSE 0)
      /\ \A i \in 1 .. (n - (base + 1) + 1) : SubSeq(log, base + 1, n)[i] = log[base + 1 + i - 1]
  BY <1>1, <1>2, SubSeqProperties
<1>4. (IF base + 1 <= n THEN n - (base + 1) + 1 ELSE 0) = n - base /\ n - (base + 1) + 1 = n - base
      /\ \A i \in 1 .. (n - base) : base + 1 + i - 1 = base + i
  OBVIOUS
<1> QED
  BY <1>3, <1>4 DEF Released

LEMMA ForCallerNext ==
  ASSUME NEW log \in Seq(Payload), NEW base \in Nat, NEW n \in Nat, base <= n, n + 1 <= Len(log)
  PROVE  ForCaller(Released(log, base, n + 1)) = AddForCaller(ForCaller(Released(log, base, n)), log[n + 1])
<1> DEFINE a == Released(log, base, n)
           b == Released(log, base, n + 1)
<1>1. Len(log) \in Nat /\ n + 1 \in Nat /\ base <= n + 1 /\ n <= Len(log)
  OBVIOUS
<1>2. /\ a \in Seq(Payload) /\ Len(a) = n - base /\ \A i \in 1 .. (n - base) : a[i] = log[base + i]
  BY <1>1, ReleasedIs
<1>3. /\ b \in Seq(Payload) /\ Len(b) = n + 1 - base /\ \A i \in 1 .. (n + 1 - base) : b[i] = log[base + i]
  <2> DEFINE m == n + 1
  <2>1. m \in Nat /\ base <= m /\ m <= Len(log)
    BY <1>1
  <2> HIDE DEF m
  <2>2. /\ Released(log, base, m) \in Seq(Payload) /\ Len(Released(log, base, m)) = m - base
        /\ \A i \in 1 .. (m - base) : Released(log, base, m)[i] = log[base + i]
    BY <2>1, ReleasedIs
  <2> QED
    BY <2>2 DEF m
<1> HIDE DEF a, b
<1>4. b # <<>> /\ n - base \in Nat /\ n + 1 - base \in 1 .. (n + 1 - base) /\ base + (n + 1 - base) = n + 1
  <2>1. n - base \in Nat /\ n + 1 - base \in 1 .. (n + 1 - base) /\ base + (n + 1 - base) = n + 1
    OBVIOUS
  <2>2. Len(b) # 0
    BY <1>3, <2>1
  <2> QED
    BY <2>1, <2>2
<1> DEFINE c == SubSeq(b, 1, Len(b) - 1)
<1>5. c = a
  <2>1. Len(b) - 1 = n - base
    BY <1>3
  <2>2. \A i \in 1 .. (n - base) : b[i] \in Payload /\ i \in 1 .. (n + 1 - base)
    BY <1>3, <1>4
  <2>3. /\ c \in Seq(Payload) /\ Len(c) = (IF 1 <= n - base THEN n - base - 1 + 1 ELSE 0)
        /\ \A i \in 1 .. (n - base - 1 + 1) : c[i] = b[1 + i - 1]
    BY <1>3, <1>4, <2>1, <2>2, SubSeqProperties
  <2> HIDE DEF c
  <2>4. Len(c) = n - base /\ \A i \in 1 .. (n - base) : c[i] = b[i]
    BY <1>4, <2>3
  <2>5. \A i \in 1 .. (n - base) : c[i] = a[i]
    BY <1>2, <1>3, <2>2, <2>4
  <2> QED
    BY <1>2, <2>3, <2>4, <2>5, SeqEqual
<1> HIDE DEF c
<1>6. ForCaller(b) = AddForCaller(ForCaller(c), b[Len(b)])
  BY <1>3, <1>4, ForCallerLast DEF c
<1>7. b[Len(b)] = log[n + 1]
  BY <1>3, <1>4
<1>8. ForCaller(b) = AddForCaller(ForCaller(a), log[n + 1])
  BY <1>5, <1>6, <1>7
<1> QED
  BY <1>8 DEF a, b

LEMMA SenderSame ==
  ASSUME NEW s, NEW t, NEW ids, NEW cuts, SenderOK(s, ids, cuts),
         t.log = s.log, t.nextSplit = s.nextSplit,
         \A q \in DOMAIN t.inFlight : \E r \in DOMAIN s.inFlight :
           t.inFlight[q].datagram = s.inFlight[r].datagram,
         \A i \in 1 .. Len(t.outbox) :
           \/ \E j \in 1 .. Len(s.outbox) : t.outbox[i] = s.outbox[j]
           \/ \E q \in DOMAIN s.inFlight : t.outbox[i] = s.inFlight[q].datagram
           \/ t.outbox[i].type # "frames"
  PROVE  SenderOK(t, ids, cuts)
<1>1. ASSUME NEW q \in DOMAIN t.inFlight PROVE Genuine(t.log, ids, t.inFlight[q].datagram)
  <2>1. PICK r \in DOMAIN s.inFlight : t.inFlight[q].datagram = s.inFlight[r].datagram
    OBVIOUS
  <2> QED
    BY <2>1 DEF SenderOK
<1>2. ASSUME NEW i \in 1 .. Len(t.outbox) PROVE Genuine(t.log, ids, t.outbox[i])
  <2>1. CASE \E j \in 1 .. Len(s.outbox) : t.outbox[i] = s.outbox[j]
    BY <2>1 DEF SenderOK
  <2>2. CASE \E q \in DOMAIN s.inFlight : t.outbox[i] = s.inFlight[q].datagram
    BY <2>2 DEF SenderOK
  <2>3. CASE t.outbox[i].type # "frames"
    BY <2>3 DEF Genuine
  <2> QED
    BY <2>1, <2>2, <2>3
<1> QED
  BY <1>1, <1>2 DEF SenderOK

\* How the next payload is told apart from the ones cut before it.
NextIds(s, p, ids, cuts) == IF p.parts = 1 THEN ids ELSE [ids EXCEPT ![Len(s.log) + 1] = cuts]
NextCuts(p, cuts) == IF p.parts = 1 THEN cuts ELSE cuts + 1

LEMMA Remainder ==
  ASSUME NEW i \in Nat, NEW m \in Nat \ {0}, i < m
  PROVE  i % m = i
OBVIOUS

LEMMA SpacesType == IndexSpace \in Nat \ {0} /\ SplitSpace \in Nat \ {0}
BY SessionAssumption

LEMMA NumbersType ==
  ASSUME NEW s \in SessionType
  PROVE  /\ s.nextSeq \in Nat /\ s.nextRel \in Nat /\ s.nextOrd \in Nat /\ s.nextSplit \in Nat
         /\ s.log \in Seq(Payload) /\ Len(s.log) \in Nat
         /\ s.inFlight \in InFlights /\ s.outbox \in Seq(Datagrams)
<1>1. /\ s.nextSeq \in Nat /\ s.nextRel \in Nat /\ s.nextOrd \in Nat /\ s.nextSplit \in Nat
      /\ s.log \in Seq(Payload) /\ s.inFlight \in InFlights /\ s.outbox \in Seq(Datagrams)
  BY DEF SessionType
<1> QED
  BY <1>1

LEMMA PartsType ==
  ASSUME NEW p \in Payload
  PROVE  p.kind \in Kinds /\ p.id \in Nat /\ p.parts \in Nat \ {0}
BY DEF Payload

LEMMA NextIdsOK ==
  ASSUME NEW s \in SessionType, NEW p \in Payload, NEW ids, NEW cuts, IdsOK(s.log, ids, cuts)
  PROVE  /\ IdsOK(Append(s.log, p), NextIds(s, p, ids, cuts), NextCuts(p, cuts))
         /\ IdsOK(s.log, NextIds(s, p, ids, cuts), NextCuts(p, cuts))
         /\ \A k \in 1 .. Len(s.log) : NextIds(s, p, ids, cuts)[k] = ids[k]
         /\ p.parts # 1 => NextIds(s, p, ids, cuts)[Len(s.log) + 1] = cuts
<1> DEFINE log == s.log
           log2 == Append(s.log, p)
           n == Len(s.log)
           x == NextIds(s, p, ids, cuts)
           c == NextCuts(p, cuts)
<1>1. n \in Nat /\ Len(log2) = n + 1 /\ log2[n + 1] = p /\ \A k \in 1 .. n : log2[k] = log[k]
  BY NumbersType, AppendProperties
<1>2. ids \in [Nat -> Nat] /\ cuts \in Nat
  BY DEF IdsOK
<1>3. x \in [Nat -> Nat] /\ c \in Nat /\ cuts <= c /\ (p.parts # 1 => x[n + 1] = cuts /\ c = cuts + 1)
      /\ \A k \in 1 .. n : x[k] = ids[k]
  <2>1. CASE p.parts = 1
    <3>1. x = ids /\ c = cuts
      BY <2>1 DEF NextIds, NextCuts
    <3> QED
      BY <1>2, <2>1, <3>1
  <2>2. CASE p.parts # 1
    <3>1. x = [ids EXCEPT ![n + 1] = cuts] /\ c = cuts + 1
      BY <2>2 DEF NextIds, NextCuts
    <3> HIDE DEF x, c, n, log, log2
    <3>2. n + 1 \in Nat /\ \A k \in 1 .. n : k \in Nat /\ k # n + 1
      BY <1>1
    <3>3. x \in [Nat -> Nat] /\ x[n + 1] = cuts /\ \A k \in 1 .. n : x[k] = ids[k]
      BY <1>2, <3>1, <3>2
    <3> QED
      BY <1>2, <3>1, <3>3
  <2> QED
    BY <2>1, <2>2
<1>4. \A k \in 1 .. n : log[k].parts # 1 => ids[k] < cuts /\ ids[k] \in Nat
  BY <1>2 DEF IdsOK
<1>5. \A k, m \in 1 .. n : log[k].parts # 1 /\ log[m].parts # 1 /\ ids[k] = ids[m] => k = m
  BY DEF IdsOK
<1> HIDE DEF log, log2, n, x, c
<1>6. IdsOK(log, x, c)
  <2>1. \A k \in 1 .. n : log[k].parts # 1 => x[k] < c
    BY <1>2, <1>3, <1>4
  <2>2. \A k, m \in 1 .. n : log[k].parts # 1 /\ log[m].parts # 1 /\ x[k] = x[m] => k = m
    BY <1>3, <1>5
  <2> QED
    BY <1>3, <2>1, <2>2 DEF IdsOK, n, log
<1>7. IdsOK(log2, x, c)
  <2>1. \A k \in 1 .. (n + 1) : k \in 1 .. n \/ k = n + 1
    BY <1>1
  <2>2. \A k \in 1 .. (n + 1) : log2[k].parts # 1 => x[k] < c
    <3> SUFFICES ASSUME NEW k \in 1 .. (n + 1), log2[k].parts # 1 PROVE x[k] < c
      OBVIOUS
    <3>1. CASE k \in 1 .. n
      <4>1. log[k].parts # 1 /\ x[k] = ids[k]
        BY <1>1, <1>3, <3>1
      <4>2. ids[k] < cuts /\ ids[k] \in Nat
        BY <1>4, <3>1, <4>1
      <4> QED
        BY <1>2, <1>3, <4>1, <4>2
    <3>2. CASE k = n + 1
      <4>1. p.parts # 1 /\ x[k] = cuts /\ c = cuts + 1
        BY <1>1, <1>3, <3>2
      <4> QED
        BY <1>2, <4>1
    <3> QED
      BY <2>1, <3>1, <3>2
  <2>3. ASSUME NEW k \in 1 .. (n + 1), NEW m \in 1 .. (n + 1), log2[k].parts # 1, log2[m].parts # 1, x[k] = x[m]
        PROVE  k = m
    <3>1. CASE k \in 1 .. n /\ m \in 1 .. n
      BY <1>1, <1>3, <1>5, <2>3, <3>1
    <3>2. CASE k \in 1 .. n /\ m = n + 1
      <4>1. x[k] < cuts /\ x[m] = cuts /\ x[k] \in Nat
        BY <1>1, <1>3, <1>4, <2>3, <3>2
      <4> QED
        BY <1>2, <2>3, <4>1
    <3>3. CASE k = n + 1 /\ m \in 1 .. n
      <4>1. x[m] < cuts /\ x[k] = cuts /\ x[m] \in Nat
        BY <1>1, <1>3, <1>4, <2>3, <3>3
      <4> QED
        BY <1>2, <2>3, <4>1
    <3> QED
      BY <2>1, <3>1, <3>2, <3>3
  <2>4. \A k, m \in 1 .. Len(log2) : log2[k].parts # 1 /\ log2[m].parts # 1 /\ x[k] = x[m] => k = m
    BY <1>1, <2>3
  <2> QED
    BY <1>1, <1>3, <2>2, <2>4 DEF IdsOK
<1> QED
  BY <1>3, <1>6, <1>7 DEF log, log2, n, x, c

\* The frames a payload goes out in are fragments of it.
LEMMA FramesAgree ==
  ASSUME NEW s, SessionOK(s), NEW p \in Payload, NEW ids, NEW cuts, SenderOK(s, ids, cuts),
         NEW d, Carries(s, p, d)
  PROVE  Genuine(Append(s.log, p), NextIds(s, p, ids, cuts), d)
<1> DEFINE log2 == Append(s.log, p)
           n == Len(s.log)
           x == NextIds(s, p, ids, cuts)
<1>1. s \in SessionType /\ s.nextOrd = n
  BY DEF SessionOK, SendingOK
<1>2. n \in Nat /\ Len(log2) = n + 1 /\ log2[n + 1] = p /\ n + 1 \in 1 .. Len(log2) /\ s.nextSplit \in Nat
  BY <1>1, NumbersType, AppendProperties
<1>3. IdsOK(s.log, ids, cuts) /\ cuts \in Nat /\ (cuts < SplitSpace => s.nextSplit = cuts)
  BY DEF SenderOK, IdsOK
<1>4. p.parts # 1 => x[n + 1] = cuts
  BY <1>1, <1>3, NextIdsOK
<1>5. p.parts \in Nat \ {0}
  BY PartsType
<1>6. n + 1 <= IndexSpace => Wire(n) = n
  <2> HIDE DEF n
  <2> SUFFICES ASSUME n + 1 <= IndexSpace PROVE n % IndexSpace = n
    BY DEF Wire
  <2>1. n < IndexSpace
    BY <1>2, SpacesType
  <2> QED
    BY <1>2, <2>1, SpacesType, Remainder
<1> SUFFICES ASSUME NEW i \in 1 .. Len(d.frames)
             PROVE  IsFragmentOf(log2, x, d.frames[i], n + 1)
  BY <1>2 DEF Genuine
<1>7. PICK j \in 1 .. p.parts : d.frames[i] = Frames(s, p)[j]
  BY DEF Carries
<1>8. d.frames[i] = [rel |-> Wire(s.nextRel + j - 1), ord |-> Wire(s.nextOrd), payload |-> p,
                     split |-> IF p.parts = 1 THEN NoSplit
                               ELSE [id |-> s.nextSplit, count |-> p.parts, index |-> j - 1]]
  BY <1>7 DEF Frames
<1> DEFINE f == d.frames[i]
<1>9. f.payload = p /\ f.ord = Wire(n) /\ (p.parts = 1 => f.split = NoSplit)
      /\ (p.parts # 1 => f.split.count = p.parts /\ f.split.id = s.nextSplit)
  BY <1>1, <1>8
<1> HIDE DEF f, log2, n, x
<1>10. n + 1 <= IndexSpace => f.ord = (n + 1) - 1
  BY <1>2, <1>6, <1>9
<1>11. p.parts # 1 => f.split.count = p.parts /\ (x[n + 1] < SplitSpace => f.split.id = x[n + 1])
  BY <1>3, <1>4, <1>9
<1> QED
  BY <1>2, <1>9, <1>10, <1>11 DEF IsFragmentOf, f

LEMMA CutsAgree ==
  ASSUME NEW s \in SessionType, NEW p \in Payload, NEW cuts \in Nat, cuts < SplitSpace => s.nextSplit = cuts
  PROVE  NextCuts(p, cuts) < SplitSpace => NextSplit(s, p) = NextCuts(p, cuts)
<1>1. s.nextSplit \in Nat /\ SplitSpace \in Nat \ {0}
  BY NumbersType, SpacesType
<1>2. CASE p.parts = 1
  BY <1>2 DEF NextCuts, NextSplit
<1>3. CASE p.parts # 1
  <2> SUFFICES ASSUME cuts + 1 < SplitSpace PROVE (s.nextSplit + 1) % SplitSpace = cuts + 1
    BY <1>3 DEF NextCuts, NextSplit
  <2>1. s.nextSplit = cuts
    BY <1>1
  <2> QED
    BY <1>1, <2>1, Remainder
<1> QED
  BY <1>2, <1>3

LEMMA IsSentLog ==
  ASSUME NEW s \in SessionType, NEW p, NEW t, IsSent(s, p, t)
  PROVE  t.log = Append(s.log, p) /\ t.nextSplit = NextSplit(s, p) /\ t.state = s.state
<1>1. t = [s EXCEPT !.nextSeq = t.nextSeq, !.nextRel = s.nextRel + p.parts, !.nextOrd = s.nextOrd + 1,
                    !.nextSplit = NextSplit(s, p), !.inFlight = t.inFlight, !.outbox = t.outbox,
                    !.log = Append(s.log, p)]
  BY DEF IsSent
<1> QED
  BY <1>1 DEF SessionType

\* send, as seen in the log.
LEMMA SendLog ==
  ASSUME NEW s, SessionOK(s), NEW p \in Payload
  PROVE  LET sent == Send(s, p)
         IN /\ sent.ok => ~ IsClosed(s) /\ sent.s.log = Append(s.log, p)
            /\ ~ sent.ok => sent.s.log = s.log
            /\ IsClosed(s) => sent.s.log = s.log
            /\ sent.s.state = s.state
<1> DEFINE sent == Send(s, p)
<1>1. s \in SessionType
  BY DEF SessionOK
<1>2. /\ sent.ok => ~ IsClosed(s) /\ IsSent(s, p, sent.s)
      /\ ~ sent.ok => sent.s = s \/ sent.s = [s EXCEPT !.nextSplit = NextSplit(s, p)]
      /\ sent.ok \in BOOLEAN
  BY SendIs
<1> HIDE DEF sent
<1>3. sent.ok => ~ IsClosed(s) /\ sent.s.log = Append(s.log, p) /\ sent.s.state = s.state
  BY <1>1, <1>2, IsSentLog
<1>4. ~ sent.ok => sent.s.log = s.log /\ sent.s.state = s.state
  <2>1. [s EXCEPT !.nextSplit = NextSplit(s, p)].log = s.log
        /\ [s EXCEPT !.nextSplit = NextSplit(s, p)].state = s.state
    BY <1>1 DEF SessionType
  <2> QED
    BY <1>2, <2>1
<1>5. IsClosed(s) => sent.s.log = s.log
  BY <1>2, <1>3, <1>4
<1> QED
  BY <1>2, <1>3, <1>4, <1>5 DEF sent

LEMMA SentAgrees ==
  ASSUME NEW s, SessionOK(s), NEW p \in Payload, NEW t, IsSent(s, p, t),
         NEW ids, NEW cuts, SenderOK(s, ids, cuts)
  PROVE  /\ SenderOK(t, NextIds(s, p, ids, cuts), NextCuts(p, cuts))
         /\ Grows(s.log, ids, t.log, NextIds(s, p, ids, cuts))
<1> DEFINE log2 == Append(s.log, p)
           ids2 == NextIds(s, p, ids, cuts)
           cuts2 == NextCuts(p, cuts)
<1>1. s \in SessionType /\ s.log \in Seq(Payload) /\ log2 \in Seq(Payload)
  BY NumbersType DEF SessionOK
<1>2. t.log = log2 /\ t.nextSplit = NextSplit(s, p)
  BY <1>1, IsSentLog
<1>3. IdsOK(s.log, ids, cuts) /\ cuts \in Nat /\ (cuts < SplitSpace => s.nextSplit = cuts)
  BY DEF SenderOK, IdsOK
<1>4. IdsOK(log2, ids2, cuts2) /\ \A k \in 1 .. Len(s.log) : ids2[k] = ids[k]
  BY <1>1, <1>3, NextIdsOK
<1>5. Grows(s.log, ids, log2, ids2)
  BY <1>1, <1>4, GrowsAppend
<1>6. cuts2 < SplitSpace => t.nextSplit = cuts2
  BY <1>1, <1>2, <1>3, CutsAgree
<1>7. \A d : Carries(s, p, d) => Genuine(log2, ids2, d)
  BY FramesAgree
<1> HIDE DEF log2, ids2, cuts2
<1>8. ASSUME NEW q \in DOMAIN t.inFlight PROVE Genuine(log2, ids2, t.inFlight[q].datagram)
  <2>1. CASE q \in DOMAIN s.inFlight /\ t.inFlight[q] = s.inFlight[q]
    <3>1. Genuine(s.log, ids, s.inFlight[q].datagram)
      BY <2>1 DEF SenderOK
    <3> QED
      BY <1>1, <1>5, <2>1, <3>1, GenuineGrows
  <2>2. CASE Carries(s, p, t.inFlight[q].datagram)
    BY <1>7, <2>2
  <2> QED
    BY <2>1, <2>2 DEF IsSent
<1>9. ASSUME NEW i \in 1 .. Len(t.outbox) PROVE Genuine(log2, ids2, t.outbox[i])
  <2>1. CASE i \in 1 .. Len(s.outbox) /\ t.outbox[i] = s.outbox[i]
    <3>1. Genuine(s.log, ids, s.outbox[i])
      BY <2>1 DEF SenderOK
    <3> QED
      BY <1>1, <1>5, <2>1, <3>1, GenuineGrows
  <2>2. CASE Carries(s, p, t.outbox[i])
    BY <1>7, <2>2
  <2> QED
    BY <2>1, <2>2 DEF IsSent
<1>10. SenderOK(t, ids2, cuts2)
  BY <1>2, <1>4, <1>6, <1>8, <1>9 DEF SenderOK
<1> QED
  BY <1>2, <1>5, <1>10 DEF ids2, cuts2

\* What a session has sent stays told apart when it goes on to t.
SendsOn(s, ids, cuts, t, ids2, cuts2) ==
  /\ SenderOK(t, ids2, cuts2)
  /\ Grows(s.log, ids, t.log, ids2)

LEMMA SendAgrees ==
  ASSUME NEW s, SessionOK(s), NEW p \in Payload, NEW ids, NEW cuts, SenderOK(s, ids, cuts)
  PROVE  \E ids2, cuts2 :
           /\ SendsOn(s, ids, cuts, Send(s, p).s, ids2, cuts2)
           /\ cuts2 \in {cuts, cuts + 1}
           /\ p.parts = 1 => ids2 = ids /\ cuts2 = cuts
<1> DEFINE sent == Send(s, p)
<1>1. s \in SessionType /\ s.log \in Seq(Payload)
  BY NumbersType DEF SessionOK
<1>2. /\ sent.ok => IsSent(s, p, sent.s)
      /\ ~ sent.ok => sent.s = s \/ sent.s = [s EXCEPT !.nextSplit = NextSplit(s, p)]
      /\ sent.ok \in BOOLEAN
  BY SendIs
<1> HIDE DEF sent
<1>3. NextCuts(p, cuts) \in {cuts, cuts + 1}
      /\ (p.parts = 1 => NextIds(s, p, ids, cuts) = ids /\ NextCuts(p, cuts) = cuts)
  BY DEF NextIds, NextCuts
<1>4. CASE sent.ok
  <2>1. SendsOn(s, ids, cuts, sent.s, NextIds(s, p, ids, cuts), NextCuts(p, cuts))
    BY <1>2, <1>4, SentAgrees DEF SendsOn
  <2> QED
    BY <1>3, <2>1 DEF sent
<1>5. CASE sent.s = s
  <2>1. SendsOn(s, ids, cuts, sent.s, ids, cuts)
    BY <1>1, <1>5, GrowsSame DEF SendsOn
  <2> QED
    BY <2>1 DEF sent
<1>6. CASE sent.s = [s EXCEPT !.nextSplit = NextSplit(s, p)]
  <2> DEFINE t == sent.s
             ids2 == NextIds(s, p, ids, cuts)
             cuts2 == NextCuts(p, cuts)
  <2>1. t.log = s.log /\ t.nextSplit = NextSplit(s, p) /\ t.inFlight = s.inFlight /\ t.outbox = s.outbox
    BY <1>1, <1>6 DEF SessionType
  <2>2. IdsOK(s.log, ids, cuts) /\ cuts \in Nat /\ (cuts < SplitSpace => s.nextSplit = cuts)
    BY DEF SenderOK, IdsOK
  <2>3. IdsOK(s.log, ids2, cuts2) /\ \A k \in 1 .. Len(s.log) : ids2[k] = ids[k]
    BY <1>1, <2>2, NextIdsOK
  <2>4. Grows(s.log, ids, s.log, ids2)
    <3>1. Len(s.log) \in Nat
      BY <1>1
    <3> QED
      BY <2>3, <3>1 DEF Grows
  <2>5. cuts2 < SplitSpace => t.nextSplit = cuts2
    BY <1>1, <2>1, <2>2, CutsAgree
  <2> HIDE DEF t, ids2, cuts2
  <2>6. \A q \in DOMAIN s.inFlight : Genuine(s.log, ids2, s.inFlight[q].datagram)
    BY <1>1, <2>4, GenuineGrows DEF SenderOK
  <2>7. \A i \in 1 .. Len(s.outbox) : Genuine(s.log, ids2, s.outbox[i])
    BY <1>1, <2>4, GenuineGrows DEF SenderOK
  <2>8. SenderOK(t, ids2, cuts2)
    BY <2>1, <2>3, <2>5, <2>6, <2>7 DEF SenderOK
  <2>9. SendsOn(s, ids, cuts, t, ids2, cuts2)
    BY <2>1, <2>4, <2>8 DEF SendsOn
  <2> QED
    BY <1>3, <2>9 DEF t, ids2, cuts2, sent
<1> QED
  BY <1>2, <1>4, <1>5, <1>6

\* What handle_internal answers a payload of this kind with.
AnswerTo(p) == [kind |-> IF p.kind = "request" THEN "accepted" ELSE "pong", id |-> p.id, parts |-> 1]

LEMMA AnswerToType ==
  ASSUME NEW p \in Payload
  PROVE  AnswerTo(p) \in Payload /\ AnswerTo(p).parts = 1 /\ AnswerTo(p).kind \in {"accepted", "pong"}
<1>1. (IF p.kind = "request" THEN "accepted" ELSE "pong") \in Kinds
  BY DEF Kinds
<1>2. AnswerTo(p) \in Payload
  BY <1>1, PartsType, ReplyType DEF AnswerTo
<1> QED
  BY <1>2 DEF AnswerTo

AnswerIs(acc, p, t) ==
  LET sent == Send(acc.s, AnswerTo(p))
  IN t = IF sent.ok THEN [s |-> sent.s, out |-> acc.out, failed |-> FALSE]
         ELSE [s |-> [sent.s EXCEPT !.faults = @ \cup {"reply"}], out |-> acc.out, failed |-> TRUE]

LEMMA FailIs ==
  ASSUME NEW acc, AccOK(acc), NEW s, NEW fault
  PROVE  Fail(acc, s, fault) = [s |-> [s EXCEPT !.faults = @ \cup {fault}], out |-> acc.out, failed |-> TRUE]
<1> DEFINE t == [s EXCEPT !.faults = @ \cup {fault}]
           u == [acc EXCEPT !.s = t]
           out == acc.out
<1>1. Fail(acc, s, fault) = [u EXCEPT !.failed = TRUE]
  BY DEF Fail
<1> HIDE DEF t
<1>2. u = [s |-> t, out |-> out, failed |-> acc.failed]
  BY AccWith
<1> HIDE DEF u, out
<1>3. acc.failed \in BOOLEAN /\ TRUE \in BOOLEAN
  BY DEF AccOK
<1>4. u \in [s : {t}, out : {out}, failed : BOOLEAN] /\ u.s = t /\ u.out = out
  BY <1>2, <1>3
<1>5. [u EXCEPT !.failed = TRUE] = [s |-> u.s, out |-> u.out, failed |-> TRUE]
  BY <1>3, <1>4, FailedIs
<1> QED
  BY <1>1, <1>4, <1>5 DEF t, out

\* What handle_internal does, kind by kind.
LEMMA HandleIs ==
  ASSUME NEW acc, AccOK(acc), NEW p \in Payload
  PROVE  LET t == HandleInternal(acc, p)
         IN \/ acc.failed /\ t = acc
            \/ /\ ~ acc.failed
               /\ \/ IsForCaller(p) /\ t = [s |-> acc.s, out |-> Append(acc.out, p), failed |-> FALSE]
                  \/ p.kind \in {"request", "ping"} /\ AnswerIs(acc, p, t)
                  \/ /\ p.kind = "incoming"
                     /\ t = [s |-> [acc.s EXCEPT !.state = "Connected"], out |-> acc.out, failed |-> FALSE]
                  \/ /\ p.kind = "disconnect"
                     /\ t = [s |-> [acc.s EXCEPT !.state = "ByPeer"], out |-> acc.out, failed |-> FALSE]
                  \/ /\ p.kind \notin {"user", "request", "ping", "incoming", "disconnect"}
                     /\ t = acc
<1> DEFINE t == HandleInternal(acc, p)
<1>1. acc = [s |-> acc.s, out |-> acc.out, failed |-> acc.failed] /\ acc.failed \in BOOLEAN
  BY DEF AccOK
<1>2. CASE acc.failed
  BY <1>2 DEF HandleInternal
<1>3. ~ acc.failed => acc.failed = FALSE
  BY <1>1
<1>4. CASE ~ acc.failed /\ p.kind = "user"
  <2>1. t = [acc EXCEPT !.out = Append(acc.out, p)]
    BY <1>4 DEF HandleInternal, Return
  <2> DEFINE out == Append(acc.out, p)
  <2> HIDE DEF out, t
  <2>2. \A a, b, c : [[s |-> a, out |-> b, failed |-> c] EXCEPT !.out = out] = [s |-> a, out |-> out, failed |-> c]
    OBVIOUS
  <2>3. t = [acc EXCEPT !.out = out]
    BY <2>1 DEF out
  <2>4. t = [s |-> acc.s, out |-> out, failed |-> FALSE]
    BY <1>1, <1>3, <1>4, <2>2, <2>3
  <2> QED
    BY <1>4, <2>4 DEF out, t, IsForCaller
<1>5. ASSUME ~ acc.failed, p.kind \in {"request", "ping"} PROVE AnswerIs(acc, p, t)
  <2> DEFINE sent == Send(acc.s, AnswerTo(p))
  <2>1. t = Answer(acc, AnswerTo(p).kind, p.id)
    BY <1>5 DEF HandleInternal, AnswerTo
  <2>2. t = IF sent.ok THEN [acc EXCEPT !.s = sent.s] ELSE Fail(acc, sent.s, "reply")
    BY <2>1 DEF Answer, AnswerTo
  <2> HIDE DEF sent, t
  <2>3. [acc EXCEPT !.s = sent.s] = [s |-> sent.s, out |-> acc.out, failed |-> FALSE]
    BY <1>3, <1>5, AccWith
  <2>4. Fail(acc, sent.s, "reply") = [s |-> [sent.s EXCEPT !.faults = @ \cup {"reply"}], out |-> acc.out, failed |-> TRUE]
    BY FailIs
  <2> QED
    BY <2>2, <2>3, <2>4 DEF AnswerIs, sent
<1>6. CASE ~ acc.failed /\ p.kind = "incoming"
  <2>1. t = [acc EXCEPT !.s = [acc.s EXCEPT !.state = "Connected"]]
    BY <1>6 DEF HandleInternal
  <2>2. t = [s |-> [acc.s EXCEPT !.state = "Connected"], out |-> acc.out, failed |-> FALSE]
    BY <1>3, <1>6, <2>1, AccWith
  <2> QED
    BY <1>6, <2>2
<1>7. CASE ~ acc.failed /\ p.kind = "disconnect"
  <2>1. t = [acc EXCEPT !.s = [acc.s EXCEPT !.state = "ByPeer"]]
    BY <1>7 DEF HandleInternal, ClosedByPeer
  <2>2. t = [s |-> [acc.s EXCEPT !.state = "ByPeer"], out |-> acc.out, failed |-> FALSE]
    BY <1>3, <1>7, <2>1, AccWith
  <2> QED
    BY <1>7, <2>2
<1>8. CASE /\ ~ acc.failed
           /\ p.kind \notin {"user", "request", "incoming", "ping", "disconnect"}
  BY <1>8 DEF HandleInternal
<1> HIDE DEF t
<1> QED
  BY <1>2, <1>4, <1>5, <1>6, <1>7, <1>8 DEF t

-----------------------------------------------------------------------------
(* What a session sends while it receives.                                  *)

SameSender(s, t) ==
  t.log = s.log /\ t.nextSplit = s.nextSplit /\ t.inFlight = s.inFlight /\ t.outbox = s.outbox

LEMMA SameSenderSends ==
  ASSUME NEW s, NEW t, NEW ids, NEW cuts, SenderOK(s, ids, cuts), SameSender(s, t)
  PROVE  SenderOK(t, ids, cuts)
BY DEF SameSender, SenderOK

NoFarewell(log) == \A k \in 1 .. Len(log) : log[k].kind # "disconnect"

LEMMA NoFarewellAppend ==
  ASSUME NEW log \in Seq(Payload), NEW p \in Payload, NoFarewell(log), p.kind # "disconnect"
  PROVE  NoFarewell(Append(log, p))
<1>1. Len(Append(log, p)) = Len(log) + 1 /\ Append(log, p)[Len(log) + 1] = p
      /\ \A k \in 1 .. Len(log) : Append(log, p)[k] = log[k]
  BY AppendProperties
<1>2. Len(log) \in Nat
  OBVIOUS
<1>3. \A k \in 1 .. (Len(log) + 1) : k \in 1 .. Len(log) \/ k = Len(log) + 1
  BY <1>2
<1> QED
  BY <1>1, <1>3 DEF NoFarewell

\* fixed.s is the session as it was before.
Sends(fixed, acc, k) ==
  /\ AccOK(acc)
  /\ fixed.s \in SessionType
  /\ SendsOn(fixed.s, fixed.ids, fixed.cuts, acc.s, fixed.ids, fixed.cuts)
  /\ NoFarewell(fixed.s.log) => NoFarewell(acc.s.log)

LEMMA SendsSame ==
  ASSUME NEW fixed, NEW acc, NEW k, Sends(fixed, acc, k), NEW acc2, AccOK(acc2),
         SameSender(acc.s, acc2.s), NEW k2
  PROVE  Sends(fixed, acc2, k2)
<1>1. acc2.s.log = acc.s.log
  BY DEF SameSender
<1>2. SenderOK(acc2.s, fixed.ids, fixed.cuts)
  BY SameSenderSends DEF Sends, SendsOn
<1> QED
  BY <1>1, <1>2 DEF Sends, SendsOn

LEMMA SendsOne ==
  ASSUME NEW fixed, NEW acc, NEW k, Sends(fixed, acc, k),
         NEW p \in Payload, p.parts = 1, p.kind # "disconnect",
         NEW acc2, AccOK(acc2), SameSender(Send(acc.s, p).s, acc2.s), NEW k2
  PROVE  Sends(fixed, acc2, k2)
<1> DEFINE s == acc.s
           u == Send(s, p).s
           ids == fixed.ids
           cuts == fixed.cuts
<1>1. /\ SessionOK(s) /\ SenderOK(s, ids, cuts) /\ s.log \in Seq(Payload)
      /\ fixed.s.log \in Seq(Payload) /\ Grows(fixed.s.log, ids, s.log, ids)
  <2>1. SessionOK(s) /\ SenderOK(s, ids, cuts) /\ Grows(fixed.s.log, ids, s.log, ids) /\ fixed.s \in SessionType
    BY DEF Sends, SendsOn, AccOK
  <2>2. s \in SessionType
    BY <2>1 DEF SessionOK
  <2> HIDE DEF s
  <2> QED
    BY <2>1, <2>2, NumbersType
<1> HIDE DEF ids, cuts, s
<1>2. SenderOK(u, ids, cuts) /\ Grows(s.log, ids, u.log, ids)
  <2>1. \E ids2, cuts2 : /\ SendsOn(s, ids, cuts, u, ids2, cuts2)
                         /\ ids2 = ids /\ cuts2 = cuts
    BY <1>1, SendAgrees
  <2> QED
    BY <2>1 DEF SendsOn
<1>3. SessionOK(u) /\ u.log \in Seq(Payload)
  <2>1. SessionOK(u)
    BY <1>1, SendKeeps
  <2> QED
    BY <2>1, NumbersType DEF SessionOK
<1>4. u.log = s.log \/ u.log = Append(s.log, p)
  BY <1>1, SendLog, SendKeeps
<1> HIDE DEF u
<1>5. acc2.s.log = u.log /\ SenderOK(acc2.s, ids, cuts)
  <2>1. SameSender(u, acc2.s)
    BY DEF u, s
  <2> QED
    BY <1>2, <2>1, SameSenderSends DEF SameSender
<1>6. Grows(fixed.s.log, ids, u.log, ids)
  BY <1>1, <1>2, <1>3, GrowsMore
<1>7. NoFarewell(s.log) => NoFarewell(u.log)
  BY <1>1, <1>4, NoFarewellAppend
<1>8. NoFarewell(fixed.s.log) => NoFarewell(s.log)
  BY DEF Sends, s
<1>9. fixed.s \in SessionType
  BY DEF Sends
<1> QED
  BY <1>5, <1>6, <1>7, <1>8, <1>9 DEF Sends, SendsOn, ids, cuts

LEMMA SameSenderExcept ==
  ASSUME NEW s \in SessionType
  PROVE  /\ \A x : SameSender(s, [s EXCEPT !.faults = x])
         /\ \A x : SameSender(s, [s EXCEPT !.state = x])
         /\ \A x : SameSender(s, [s EXCEPT !.ordering = x])
         /\ \A x : SameSender(s, [s EXCEPT !.dedup = x])
         /\ \A x : SameSender(s, [s EXCEPT !.pendingAcks = x])
         /\ \A x, y : SameSender(s, [s EXCEPT !.pending = x, !.buffered = y])
         /\ SameSender(s, s)
BY DEF SameSender, SessionType

LEMMA HandleSends ==
  ASSUME NEW fixed, NEW acc, NEW k, Sends(fixed, acc, k), NEW p \in Payload, NEW k2
  PROVE  Sends(fixed, HandleInternal(acc, p), k2)
<1> DEFINE t == HandleInternal(acc, p)
<1>1. AccOK(acc) /\ acc.s \in SessionType /\ SessionOK(acc.s)
  BY DEF Sends, AccOK, SessionOK
<1>2. AccOK(t)
  BY <1>1, HandleKeeps
<1>3. \/ t = acc
      \/ t.s = acc.s
      \/ AnswerIs(acc, p, t)
      \/ t.s = [acc.s EXCEPT !.state = "Connected"]
      \/ t.s = [acc.s EXCEPT !.state = "ByPeer"]
  <2> HIDE DEF t
  <2>1. \A a, b, c : [s |-> a, out |-> b, failed |-> c].s = a
    OBVIOUS
  <2> QED
    BY <1>1, <2>1, HandleIs DEF t
<1> HIDE DEF t
<1>4. CASE ~ AnswerIs(acc, p, t)
  <2>1. SameSender(acc.s, t.s)
    <3> DEFINE s == acc.s
    <3>1. SameSender(s, s) /\ SameSender(s, [s EXCEPT !.state = "Connected"])
          /\ SameSender(s, [s EXCEPT !.state = "ByPeer"])
      BY <1>1, SameSenderExcept
    <3> QED
      BY <1>3, <1>4, <3>1
  <2> QED
    BY <1>2, <2>1, SendsSame DEF t
<1>5. CASE AnswerIs(acc, p, t)
  <2> DEFINE q == AnswerTo(p)
             u == Send(acc.s, q).s
  <2>1. q \in Payload /\ q.parts = 1 /\ q.kind # "disconnect"
    BY AnswerToType
  <2>2. u \in SessionType
    BY <1>1, <2>1, SendKeeps DEF SessionOK
  <2>3. t.s = u \/ t.s = [u EXCEPT !.faults = @ \cup {"reply"}]
    BY <1>5 DEF AnswerIs
  <2> HIDE DEF u
  <2>4. SameSender(u, t.s)
    <3>1. SameSender(u, u) /\ SameSender(u, [u EXCEPT !.faults = u.faults \cup {"reply"}])
      BY <2>2, SameSenderExcept
    <3> QED
      BY <2>3, <3>1
  <2> HIDE DEF q
  <2>5. SameSender(Send(acc.s, q).s, t.s)
    BY <2>4 DEF u
  <2>6. Sends(fixed, t, k2)
    BY <1>2, <2>1, <2>5, SendsOne
  <2> QED
    BY <2>6 DEF t
<1> QED
  BY <1>4, <1>5

HandlingSends == INSTANCE Folding WITH Op <- HandleInternal, Holds <- Sends

LEMMA HandleAllIsSends ==
  \A base, seq : HandleAll(base, seq) = HandlingSends!Loop(base, seq)
BY DEF HandleAll, HandlingSends!Loop, HandlingSends!MapThenFoldSet, HandlingSends!Greatest,
       FoldLeft, MapThenFoldSet, Max

LEMMA HandleAllSends ==
  ASSUME NEW fixed, NEW acc, NEW k, Sends(fixed, acc, k), NEW ready \in Seq(Payload), NEW k2
  PROVE  Sends(fixed, HandleAll(acc, ready), k2)
<1>1. \A j \in 0 .. (Len(ready) - 1) : ready[j + 1] \in Payload
  OBVIOUS
<1>2. \A j \in 0 .. (Len(ready) - 1) : \A a :
        Sends(fixed, a, j) => Sends(fixed, HandleInternal(a, ready[j + 1]), j + 1)
  BY <1>1, HandleSends
<1>3. Sends(fixed, acc, 0)
  BY DEF Sends
<1>4. Sends(fixed, HandlingSends!Loop(acc, ready), Len(ready))
  BY <1>2, <1>3, HandlingSends!FoldKeeps
<1> QED
  BY <1>4, HandleAllIsSends DEF Sends

\* What the steps before the payloads are handled leave alone.
LEMMA StepsLeave ==
  ASSUME NEW s, SessionOK(s), NEW f \in Frame
  PROVE  /\ LET t == Got(s, f).s
            IN /\ SameSender(s, t) /\ t.state = s.state /\ t.faults = s.faults
               /\ t.ordering = s.ordering
         /\ Got(s, f).whole # <<>> =>
              LET t == Placed(s, f)
              IN /\ SameSender(s, t) /\ t.state = s.state /\ t.faults = s.faults
                 /\ t.ordering = Pushed(s, f).ordering /\ t.pending = Got(s, f).s.pending
<1> DEFINE m == Marked(s, f)
           g == Got(s, f).s
           o == Pushed(s, f).ordering
           t == Placed(s, f)
<1>1. s \in SessionType /\ m \in SessionType /\ g \in SessionType /\ SessionOK(m)
  BY StepsKeep DEF SessionOK
<1>2. SameSender(s, m) /\ m.state = s.state /\ m.faults = s.faults /\ m.ordering = s.ordering
  BY <1>1 DEF SameSender, SessionType, Marked
<1>3. g = [m EXCEPT !.pending = g.pending, !.buffered = g.buffered]
  BY <1>1, PushFragmentKeeps DEF Got
<1>4. t = [g EXCEPT !.ordering = o]
  BY DEF Placed
<1> HIDE DEF m, g, t, o
<1>5. SameSender(m, g) /\ g.state = m.state /\ g.faults = m.faults /\ g.ordering = m.ordering
  BY <1>1, <1>3 DEF SameSender, SessionType
<1>6. /\ SameSender(g, t) /\ t.state = g.state /\ t.faults = g.faults /\ t.ordering = o
      /\ t.pending = g.pending
  BY <1>1, <1>4 DEF SameSender, SessionType
<1>7. SameSender(s, g) /\ SameSender(s, t)
  BY <1>2, <1>5, <1>6 DEF SameSender
<1>8. g.state = s.state /\ g.faults = s.faults /\ g.ordering = s.ordering
  BY <1>2, <1>5
<1>9. t.state = s.state /\ t.faults = s.faults /\ t.ordering = o /\ t.pending = g.pending
  BY <1>6, <1>8
<1> QED
  BY <1>7, <1>8, <1>9 DEF g, t, o

LEMMA FieldsOf == \A a, b, c : LET r == [s |-> a, out |-> b, failed |-> c]
                               IN r.s = a /\ r.out = b /\ r.failed = c
OBVIOUS

LEMMA TakeFrameSends ==
  ASSUME NEW fixed, NEW acc, NEW k, Sends(fixed, acc, k), NEW f \in Frame, NEW k2
  PROVE  Sends(fixed, TakeFrame(acc, f), k2)
<1> DEFINE s == acc.s
           t == TakeFrame(acc, f)
           got == Got(s, f)
           pushed == Pushed(s, f)
           placed == Placed(s, f)
<1>1. AccOK(acc) /\ SessionOK(s)
  BY DEF Sends, AccOK
<1>2. AccOK(t)
  BY <1>1, TakeFrameKeeps
<1>3. /\ SessionOK(got.s) /\ SameSender(s, got.s)
      /\ got.whole # <<>> => SessionOK(placed) /\ SameSender(s, placed) /\ pushed.ready \in Seq(Payload)
  BY <1>1, StepsKeep, StepsLeave
<1>4. got.s \in SessionType /\ (got.whole # <<>> => placed \in SessionType)
  BY <1>3 DEF SessionOK
<1>5. \A x, fault : Fail(acc, x, fault).s = [x EXCEPT !.faults = @ \cup {fault}]
  <2> SUFFICES ASSUME NEW x, NEW fault PROVE Fail(acc, x, fault).s = [x EXCEPT !.faults = @ \cup {fault}]
    OBVIOUS
  <2> DEFINE y == [x EXCEPT !.faults = @ \cup {fault}]
  <2>1. Fail(acc, x, fault) = [s |-> y, out |-> acc.out, failed |-> TRUE]
    BY <1>1, FailIs
  <2> HIDE DEF y
  <2>2. Fail(acc, x, fault).s = y
    BY <2>1
  <2> QED
    BY <2>2 DEF y
<1>6. \A x : [acc EXCEPT !.s = x].s = x
  BY <1>1, AccWith
<1>7. \/ t = acc
      \/ t = Fail(acc, got.s, "split")
      \/ t = [acc EXCEPT !.s = got.s]
      \/ got.whole # <<>> /\ t = Fail(acc, placed, "order")
      \/ got.whole # <<>> /\ t = HandleAll([acc EXCEPT !.s = placed], pushed.ready)
  BY TakeFrameIs
<1> HIDE DEF t, got, placed, pushed, s
<1>8. CASE t = acc
  BY <1>8 DEF Sends, t
<1>9. CASE t = Fail(acc, got.s, "split")
  <2>1. t.s = [got.s EXCEPT !.faults = got.s.faults \cup {"split"}]
    BY <1>5, <1>9
  <2>2. SameSender(got.s, t.s)
    <3> DEFINE x == got.s.faults \cup {"split"}
    <3>1. SameSender(got.s, [got.s EXCEPT !.faults = x])
      BY <1>4, SameSenderExcept
    <3> QED
      BY <2>1, <3>1
  <2>3. SameSender(s, t.s)
    BY <1>3, <2>2 DEF SameSender
  <2> QED
    BY <1>2, <2>3, SendsSame DEF t, s
<1>10. CASE t = [acc EXCEPT !.s = got.s]
  <2>1. SameSender(s, t.s)
    BY <1>3, <1>6, <1>10
  <2> QED
    BY <1>2, <2>1, SendsSame DEF t, s
<1>11. CASE got.whole # <<>> /\ t = Fail(acc, placed, "order")
  <2>1. t.s = [placed EXCEPT !.faults = placed.faults \cup {"order"}]
    BY <1>5, <1>11
  <2>2. SameSender(placed, t.s)
    <3> DEFINE x == placed.faults \cup {"order"}
    <3>1. SameSender(placed, [placed EXCEPT !.faults = x])
      BY <1>4, <1>11, SameSenderExcept
    <3> QED
      BY <2>1, <3>1
  <2>3. SameSender(s, t.s)
    BY <1>3, <1>11, <2>2 DEF SameSender
  <2> QED
    BY <1>2, <2>3, SendsSame DEF t, s
<1>12. CASE got.whole # <<>> /\ t = HandleAll([acc EXCEPT !.s = placed], pushed.ready)
  <2> DEFINE u == [acc EXCEPT !.s = placed]
  <2>1. AccOK(u) /\ SameSender(s, u.s)
    BY <1>1, <1>3, <1>6, <1>12, AccWithKeeps
  <2>2. Sends(fixed, u, 0)
    <3> HIDE DEF u
    <3> QED
      BY <2>1, SendsSame DEF s
  <2> HIDE DEF u
  <2>3. t = HandleAll(u, pushed.ready)
    BY <1>12 DEF u
  <2> QED
    BY <1>3, <1>12, <2>2, <2>3, HandleAllSends DEF t
<1> QED
  BY <1>7, <1>8, <1>9, <1>10, <1>11, <1>12

TakingSends == INSTANCE Folding WITH Op <- TakeFrame, Holds <- Sends

LEMMA TakeAllIsSends ==
  \A base, seq : FoldLeft(TakeFrame, base, seq) = TakingSends!Loop(base, seq)
BY DEF TakingSends!Loop, TakingSends!MapThenFoldSet, TakingSends!Greatest, FoldLeft, MapThenFoldSet, Max

LEMMA TakeAllSends ==
  ASSUME NEW fixed, NEW acc, Sends(fixed, acc, 0), NEW frames \in Seq(Frame)
  PROVE  Sends(fixed, FoldLeft(TakeFrame, acc, frames), 0)
<1>1. \A j \in 0 .. (Len(frames) - 1) : frames[j + 1] \in Frame
  OBVIOUS
<1>2. \A j \in 0 .. (Len(frames) - 1) : \A a :
        Sends(fixed, a, j) => Sends(fixed, TakeFrame(a, frames[j + 1]), j + 1)
  BY <1>1, TakeFrameSends
<1>3. Sends(fixed, TakingSends!Loop(acc, frames), Len(frames))
  BY <1>2, TakingSends!FoldKeeps
<1> QED
  BY <1>3, TakeAllIsSends DEF Sends

LEMMA SameBesidesIs ==
  ASSUME NEW s \in SessionType, NEW t, SameBesides(s, t)
  PROVE  /\ t.log = s.log /\ t.nextSplit = s.nextSplit /\ t.state = s.state /\ t.faults = s.faults
         /\ t.pending = s.pending /\ t.ordering = s.ordering
BY DEF SameBesides, SessionType

LEMMA SameSendingIs ==
  ASSUME NEW s \in SessionType, NEW t, SameSending(s, t)
  PROVE  SameSender(s, t)
BY DEF SameSending, SameSender, SessionType

LEMMA AckAgrees ==
  ASSUME NEW s, SessionOK(s), NEW ids, NEW cuts, SenderOK(s, ids, cuts), NEW seqs
  PROVE  SenderOK(OnAck(s, seqs), ids, cuts) /\ OnAck(s, seqs).log = s.log
<1> DEFINE t == OnAck(s, seqs)
<1>1. SameBesides(s, t) /\ t.outbox = s.outbox /\ DOMAIN t.inFlight \subseteq DOMAIN s.inFlight
      /\ \A q \in DOMAIN t.inFlight : t.inFlight[q] = s.inFlight[q]
  BY OnAckKeeps
<1>2. s \in SessionType
  BY DEF SessionOK
<1> HIDE DEF t
<1>3. t.log = s.log /\ t.nextSplit = s.nextSplit
  BY <1>1, <1>2, SameBesidesIs
<1>4. \A q \in DOMAIN t.inFlight : \E r \in DOMAIN s.inFlight :
        t.inFlight[q].datagram = s.inFlight[r].datagram
  BY <1>1
<1>5. \A i \in 1 .. Len(t.outbox) : \E j \in 1 .. Len(s.outbox) : t.outbox[i] = s.outbox[j]
  BY <1>1
<1>6. SenderOK(t, ids, cuts)
  BY <1>3, <1>4, <1>5, SenderSame
<1> QED
  BY <1>3, <1>6 DEF t

LEMMA AcksAgree ==
  ASSUME NEW s, SessionOK(s), NEW ids, NEW cuts, SenderOK(s, ids, cuts)
  PROVE  SenderOK(FlushAcks(s), ids, cuts)
<1> DEFINE t == FlushAcks(s)
<1>1. SameBesides(s, t) /\ t.inFlight = s.inFlight
      /\ \A i \in 1 .. Len(t.outbox) :
           \/ i \in 1 .. Len(s.outbox) /\ t.outbox[i] = s.outbox[i]
           \/ t.outbox[i] \in AckDatagram
  BY FlushAcksKeeps
<1>2. s \in SessionType
  BY DEF SessionOK
<1> HIDE DEF t
<1>3. t.log = s.log /\ t.nextSplit = s.nextSplit
  BY <1>1, <1>2, SameBesidesIs
<1>4. \A q \in DOMAIN t.inFlight : \E r \in DOMAIN s.inFlight :
        t.inFlight[q].datagram = s.inFlight[r].datagram
  BY <1>1
<1>5. \A d \in AckDatagram : d.type # "frames"
  BY DEF AckDatagram
<1>6. \A i \in 1 .. Len(t.outbox) :
        (\E j \in 1 .. Len(s.outbox) : t.outbox[i] = s.outbox[j]) \/ t.outbox[i].type # "frames"
  BY <1>1, <1>5
<1>7. SenderOK(t, ids, cuts)
  BY <1>3, <1>4, <1>6, SenderSame
<1> QED
  BY <1>7 DEF t

LEMMA ResentAgrees ==
  ASSUME NEW s, SessionOK(s), NEW t, Resent(s, t), NEW ids, NEW cuts, SenderOK(s, ids, cuts)
  PROVE  SenderOK(t, ids, cuts) /\ t.log = s.log
<1>1. /\ SameBesides(s, t) /\ DOMAIN t.inFlight = DOMAIN s.inFlight
      /\ \A q \in DOMAIN t.inFlight : t.inFlight[q].datagram = s.inFlight[q].datagram
      /\ \A i \in 1 .. Len(t.outbox) :
           \/ i \in 1 .. Len(s.outbox) /\ t.outbox[i] = s.outbox[i]
           \/ \E q \in DOMAIN s.inFlight : t.outbox[i] = s.inFlight[q].datagram
  BY DEF Resent
<1>2. s \in SessionType
  BY DEF SessionOK
<1>3. t.log = s.log /\ t.nextSplit = s.nextSplit
  BY <1>1, <1>2, SameBesidesIs
<1>4. \A q \in DOMAIN t.inFlight : \E r \in DOMAIN s.inFlight :
        t.inFlight[q].datagram = s.inFlight[r].datagram
  BY <1>1
<1>5. \A i \in 1 .. Len(t.outbox) :
        \/ \E j \in 1 .. Len(s.outbox) : t.outbox[i] = s.outbox[j]
        \/ \E q \in DOMAIN s.inFlight : t.outbox[i] = s.inFlight[q].datagram
  BY <1>1
<1>6. SenderOK(t, ids, cuts)
  BY <1>3, <1>4, <1>5, SenderSame
<1> QED
  BY <1>3, <1>6

LEMMA SendsOnSame ==
  ASSUME NEW s, SessionOK(s), NEW t, NEW ids, NEW cuts, SenderOK(t, ids, cuts), t.log = s.log
  PROVE  SendsOn(s, ids, cuts, t, ids, cuts)
<1>1. s.log \in Seq(Payload)
  BY NumbersType DEF SessionOK
<1> QED
  BY <1>1, GrowsSame DEF SendsOn

\* A disconnect is the last payload of a session, and the session is closed.
ClosedLast(s) ==
  \A k \in 1 .. Len(s.log) : s.log[k].kind = "disconnect" => k = Len(s.log) /\ IsClosed(s)

LEMMA OpenHasNoFarewell ==
  ASSUME NEW s, ClosedLast(s), ~ IsClosed(s)
  PROVE  NoFarewell(s.log)
BY DEF ClosedLast, NoFarewell

LEMMA NoFarewellIsLast ==
  ASSUME NEW s, NoFarewell(s.log)
  PROVE  ClosedLast(s)
BY DEF ClosedLast, NoFarewell

LEMMA ReceiveSends ==
  ASSUME NEW s, SessionOK(s), NEW d, IsArriving(d), NEW ids, NEW cuts, SenderOK(s, ids, cuts),
         ClosedLast(s)
  PROVE  /\ SendsOn(s, ids, cuts, Receive(s, d).s, ids, cuts)
         /\ ClosedLast(Receive(s, d).s)
<1> DEFINE got == Receive(s, d)
<1>1. CASE IsClosed(s)
  <2>1. got.s = s
    BY <1>1 DEF Receive
  <2> HIDE DEF got
  <2> QED
    BY <2>1, SendsOnSame DEF got
<1>2. ~ IsClosed(s) => NoFarewell(s.log)
  BY OpenHasNoFarewell
<1>3. ASSUME ~ IsClosed(s), SenderOK(got.s, ids, cuts), got.s.log = s.log
      PROVE  SendsOn(s, ids, cuts, got.s, ids, cuts) /\ ClosedLast(got.s)
  <2> HIDE DEF got
  <2>1. NoFarewell(got.s.log)
    BY <1>2, <1>3
  <2> QED
    BY <1>3, <2>1, SendsOnSame, NoFarewellIsLast
<1>4. CASE ~ IsClosed(s) /\ d.type = "ack"
  <2>1. got.s = OnAck(s, d.seqs)
    BY <1>4 DEF Receive
  <2>2. SenderOK(got.s, ids, cuts) /\ got.s.log = s.log
    BY <2>1, AckAgrees
  <2> HIDE DEF got
  <2> QED
    BY <1>3, <1>4, <2>2 DEF got
<1>5. CASE ~ IsClosed(s) /\ d.type = "nack"
  <2>1. got.s = OnNack(s, d.ranges)
    BY <1>5 DEF Receive
  <2>2. d.ranges \in Seq(SUBSET Nat)
    BY <1>5 DEF IsArriving, Datagrams, FramesDatagram, AckDatagram
  <2> HIDE DEF got
  <2>3. SenderOK(got.s, ids, cuts) /\ got.s.log = s.log
    BY <2>1, <2>2, OnNackKeeps, ResentAgrees
  <2> QED
    BY <1>3, <1>5, <2>3 DEF got
<1>6. CASE ~ IsClosed(s) /\ d.type = "frames"
  <2>1. d \in FramesDatagram
    BY <1>6 DEF IsArriving, Datagrams, AckDatagram
  <2>2. d.seq \in Nat /\ d.frames \in Seq(Frame)
    BY <2>1 DEF FramesDatagram, Batch
  <2> DEFINE acks == s.pendingAcks \cup {d.seq}
             u == [s EXCEPT !.pendingAcks = acks]
             first == [s |-> u, out |-> <<>>, failed |-> FALSE]
             taken == FoldLeft(TakeFrame, first, d.frames)
             fixed == [s |-> s, ids |-> ids, cuts |-> cuts]
  <2>3. acks \in SUBSET Nat /\ s \in SessionType
    BY <2>2, FaultsType DEF SessionOK
  <2>4. SessionOK(u) /\ SameSender(s, u)
    <3> HIDE DEF acks
    <3> QED
      BY <2>3, AcksKeeps, SameSenderExcept
  <2>5. got.s = taken.s
    BY <1>6 DEF Receive
  <2>6. AccOK(first) /\ first.s = u
    <3> HIDE DEF u
    <3>1. FALSE \in BOOLEAN /\ <<>> \in Seq(UserPayload)
      OBVIOUS
    <3> QED
      BY <2>4, <3>1, AccIs
  <2>7. fixed.s = s /\ fixed.ids = ids /\ fixed.cuts = cuts
    OBVIOUS
  <2> HIDE DEF first, fixed, u
  <2>8. SenderOK(u, ids, cuts) /\ u.log = s.log
    BY <2>4, SameSenderSends DEF SameSender
  <2>9. Sends(fixed, first, 0)
    <3>1. SendsOn(s, ids, cuts, u, ids, cuts)
      BY <2>8, SendsOnSame
    <3> QED
      BY <2>3, <2>6, <2>7, <2>8, <3>1 DEF Sends
  <2>10. Sends(fixed, taken, 0)
    BY <2>2, <2>9, TakeAllSends
  <2> HIDE DEF taken, got
  <2>11. SendsOn(s, ids, cuts, got.s, ids, cuts) /\ NoFarewell(got.s.log)
    BY <1>2, <1>6, <2>5, <2>7, <2>10 DEF Sends
  <2> QED
    BY <2>11, NoFarewellIsLast DEF got
<1>7. d.type \in {"ack", "nack", "frames"}
  BY DEF IsArriving, Datagrams, FramesDatagram, AckDatagram
<1> QED
  BY <1>1, <1>4, <1>5, <1>6, <1>7

\* What a tick does before it pings.
Waited(s, c) ==
  /\ SessionOK(c)
  /\ c.log = s.log /\ c.state = s.state /\ c.ordering = s.ordering
  /\ c.faults \in {s.faults, s.faults \cup {"expired"}}
  /\ DOMAIN c.pending \subseteq DOMAIN s.pending
  /\ \A k \in DOMAIN c.pending : c.pending[k] = s.pending[k]
  /\ \A ids, cuts : SenderOK(s, ids, cuts) => SenderOK(c, ids, cuts)

Ping == [kind |-> "ping", id |-> 0, parts |-> 1]
Farewell == [kind |-> "disconnect", id |-> 0, parts |-> 1]

LEMMA PingType ==
  /\ Ping \in Payload /\ Ping.kind = "ping" /\ Ping.parts = 1
  /\ Farewell \in Payload /\ Farewell.kind = "disconnect" /\ Farewell.parts = 1
<1>1. "ping" \in Kinds /\ "disconnect" \in Kinds /\ 0 \in Nat
  BY DEF Kinds
<1>2. Ping \in Payload /\ Farewell \in Payload
  BY <1>1, ReplyType DEF Ping, Farewell
<1> QED
  BY <1>2 DEF Ping, Farewell

LEMMA TickIs ==
  ASSUME NEW s, SessionOK(s), NEW due, due \subseteq DOMAIN s.inFlight,
         NEW expired, expired \subseteq DOMAIN s.pending, NEW silent \in BOOLEAN, NEW ping \in BOOLEAN
  PROVE  LET t == Tick(s, due, expired, silent, ping)
         IN \/ IsClosed(s) /\ t = s
            \/ /\ ~ IsClosed(s)
               /\ \/ t = [s EXCEPT !.state = "Timeout"]
                  \/ t = [s EXCEPT !.state = "Unreachable"]
                  \/ \E c : Waited(s, c) /\ (t = c \/ t = Send(c, Ping).s)
<1> DEFINE t == Tick(s, due, expired, silent, ping)
           a == FlushAcks(s)
           b == Resend(a, due)
           c == Expire(b, expired)
<1>1. CASE IsClosed(s)
  BY <1>1 DEF Tick
<1>2. CASE ~ IsClosed(s) /\ silent
  BY <1>2 DEF Tick
<1>3. CASE ~ IsClosed(s) /\ ~ silent /\ s.dead
  BY <1>3 DEF Tick
<1>4. CASE ~ IsClosed(s) /\ ~ silent /\ ~ s.dead
  <2>1. t = IF ping THEN Send(c, Ping).s ELSE c
    BY <1>4 DEF Tick, Ping
  <2>2. SessionOK(a) /\ SameBesides(s, a) /\ a.inFlight = s.inFlight /\ a.dead = s.dead
        /\ \A ids, cuts : SenderOK(s, ids, cuts) => SenderOK(a, ids, cuts)
    BY FlushAcksKeeps, AcksAgree
  <2> HIDE DEF a, t
  <2>3. SessionOK(b) /\ SameBesides(a, b)
        /\ \A ids, cuts : SenderOK(a, ids, cuts) => SenderOK(b, ids, cuts)
    BY <2>2, ResendKeeps, ResentAgrees DEF Resent
  <2>4. s \in SessionType /\ a \in SessionType /\ b \in SessionType
    BY <2>2, <2>3 DEF SessionOK
  <2> HIDE DEF b
  <2>5. /\ b.log = s.log /\ b.state = s.state /\ b.faults = s.faults
        /\ b.pending = s.pending /\ b.ordering = s.ordering
    BY <2>2, <2>3, <2>4, SameBesidesIs
  <2>6. /\ SessionOK(c) /\ SameSending(b, c)
        /\ c.state = b.state /\ c.ordering = b.ordering
        /\ c.faults \in {b.faults, b.faults \cup {"expired"}}
        /\ DOMAIN c.pending \subseteq DOMAIN b.pending
        /\ \A k \in DOMAIN c.pending : c.pending[k] = b.pending[k]
    BY <2>3, <2>5, ExpireKeeps
  <2> HIDE DEF c
  <2>7. SameSender(b, c)
    BY <2>4, <2>6, SameSendingIs
  <2>8. c.log = s.log /\ \A ids, cuts : SenderOK(s, ids, cuts) => SenderOK(c, ids, cuts)
    <3>1. c.log = b.log
      BY <2>7 DEF SameSender
    <3>2. \A ids, cuts : SenderOK(b, ids, cuts) => SenderOK(c, ids, cuts)
      BY <2>7, SameSenderSends
    <3> QED
      BY <2>2, <2>3, <2>5, <3>1, <3>2
  <2>9. Waited(s, c)
    BY <2>5, <2>6, <2>8 DEF Waited
  <2> QED
    BY <1>4, <2>1, <2>9 DEF t
<1> QED
  BY <1>1, <1>2, <1>3, <1>4

LEMMA SessionSendsOne ==
  ASSUME NEW s, SessionOK(s), NEW p \in Payload, p.parts = 1, NEW ids, NEW cuts, SenderOK(s, ids, cuts)
  PROVE  SendsOn(s, ids, cuts, Send(s, p).s, ids, cuts)
<1>1. \E ids2, cuts2 : /\ SendsOn(s, ids, cuts, Send(s, p).s, ids2, cuts2)
                       /\ ids2 = ids /\ cuts2 = cuts
  BY SendAgrees
<1> QED
  BY <1>1

LEMMA StateSends ==
  ASSUME NEW s, SessionOK(s), NEW ids, NEW cuts, NEW t, SendsOn(s, ids, cuts, t, ids, cuts),
         t \in SessionType, NEW state
  PROVE  SendsOn(s, ids, cuts, [t EXCEPT !.state = state], ids, cuts)
<1> DEFINE u == [t EXCEPT !.state = state]
<1>1. SameSender(t, u)
  BY SameSenderExcept
<1> HIDE DEF u
<1>2. SenderOK(u, ids, cuts) /\ u.log = t.log
  BY <1>1, SameSenderSends DEF SendsOn, SameSender
<1> QED
  BY <1>2 DEF SendsOn, u

LEMMA TickSends ==
  ASSUME NEW s, SessionOK(s), NEW due, due \subseteq DOMAIN s.inFlight,
         NEW expired, expired \subseteq DOMAIN s.pending, NEW silent \in BOOLEAN, NEW ping \in BOOLEAN,
         NEW ids, NEW cuts, SenderOK(s, ids, cuts), ClosedLast(s)
  PROVE  LET t == Tick(s, due, expired, silent, ping)
         IN SendsOn(s, ids, cuts, t, ids, cuts) /\ ClosedLast(t)
<1> DEFINE t == Tick(s, due, expired, silent, ping)
<1>1. \/ IsClosed(s) /\ t = s
      \/ /\ ~ IsClosed(s)
         /\ \/ t = [s EXCEPT !.state = "Timeout"]
            \/ t = [s EXCEPT !.state = "Unreachable"]
            \/ \E c : Waited(s, c) /\ (t = c \/ t = Send(c, Ping).s)
  BY TickIs
<1> HIDE DEF t
<1>2. s \in SessionType /\ SendsOn(s, ids, cuts, s, ids, cuts) /\ s.log \in Seq(Payload)
  BY SendsOnSame, NumbersType DEF SessionOK
<1>3. CASE IsClosed(s) /\ t = s
  BY <1>2, <1>3 DEF t
<1>4. CASE ~ IsClosed(s) /\ \E state : t = [s EXCEPT !.state = state]
  <2>1. PICK state : t = [s EXCEPT !.state = state]
    BY <1>4
  <2>2. SendsOn(s, ids, cuts, t, ids, cuts)
    BY <1>2, <2>1, StateSends
  <2>3. t.log = s.log
    BY <1>2, <2>1 DEF SessionType
  <2>4. ClosedLast(t)
    BY <1>4, <2>3, OpenHasNoFarewell, NoFarewellIsLast
  <2> QED
    BY <2>2, <2>4 DEF t
<1>5. ASSUME ~ IsClosed(s), NEW c, Waited(s, c), t = c \/ t = Send(c, Ping).s
      PROVE  SendsOn(s, ids, cuts, t, ids, cuts) /\ ClosedLast(t)
  <2>1. SessionOK(c) /\ SenderOK(c, ids, cuts) /\ c.log = s.log
    BY <1>5 DEF Waited
  <2>2. NoFarewell(s.log)
    BY <1>5, OpenHasNoFarewell
  <2>3. CASE t = c
    BY <2>1, <2>2, <2>3, SendsOnSame, NoFarewellIsLast
  <2>4. CASE t = Send(c, Ping).s
    <3>1. SendsOn(c, ids, cuts, t, ids, cuts)
      BY <2>1, <2>4, PingType, SessionSendsOne
    <3>2. t.log = c.log \/ t.log = Append(c.log, Ping)
      BY <2>1, <2>4, PingType, SendLog, SendKeeps
    <3>3. NoFarewell(t.log)
      BY <1>2, <2>1, <2>2, <3>2, PingType, NoFarewellAppend
    <3> QED
      BY <2>1, <3>1, <3>3, NoFarewellIsLast DEF SendsOn
  <2> QED
    BY <1>5, <2>3, <2>4
<1>6. CASE ~ IsClosed(s) /\ \E c : Waited(s, c) /\ (t = c \/ t = Send(c, Ping).s)
  BY <1>5, <1>6 DEF t
<1> QED
  BY <1>1, <1>3, <1>4, <1>6

LEMMA CloseIs ==
  ASSUME NEW s, SessionOK(s)
  PROVE  \/ IsClosed(s) /\ Close(s) = s
         \/ ~ IsClosed(s) /\ Close(s) = [Send(s, Farewell).s EXCEPT !.state = "ByUs"]
BY DEF Close, Farewell

LEMMA CloseSends ==
  ASSUME NEW s, SessionOK(s), NEW ids, NEW cuts, SenderOK(s, ids, cuts), ClosedLast(s)
  PROVE  SendsOn(s, ids, cuts, Close(s), ids, cuts) /\ ClosedLast(Close(s))
<1>1. s \in SessionType /\ s.log \in Seq(Payload)
  BY NumbersType DEF SessionOK
<1>2. CASE IsClosed(s) /\ Close(s) = s
  BY <1>1, <1>2, SendsOnSame
<1>3. CASE ~ IsClosed(s) /\ Close(s) = [Send(s, Farewell).s EXCEPT !.state = "ByUs"]
  <2> DEFINE t == Send(s, Farewell).s
             u == [t EXCEPT !.state = "ByUs"]
  <2>1. SendsOn(s, ids, cuts, t, ids, cuts) /\ SessionOK(t)
    BY PingType, SessionSendsOne, SendKeeps
  <2>2. t.log = s.log \/ t.log = Append(s.log, Farewell)
    BY PingType, SendLog, SendKeeps
  <2> HIDE DEF t
  <2>3. t \in SessionType
    BY <2>1 DEF SessionOK
  <2>4. u.log = t.log /\ u.state = "ByUs"
    BY <2>3 DEF SessionType
  <2>5. SendsOn(s, ids, cuts, u, ids, cuts)
    BY <2>1, <2>3, StateSends
  <2> HIDE DEF u
  <2>6. IsClosed(u) /\ NoFarewell(s.log)
    BY <1>3, <2>4, OpenHasNoFarewell DEF IsClosed, Reasons
  <2>7. ASSUME NEW k \in 1 .. Len(u.log), u.log[k].kind = "disconnect" PROVE k = Len(u.log)
    <3>1. CASE u.log = s.log
      BY <2>6, <2>7, <3>1 DEF NoFarewell
    <3>2. CASE u.log = Append(s.log, Farewell)
      <4>1. Len(u.log) = Len(s.log) + 1 /\ \A j \in 1 .. Len(s.log) : u.log[j] = s.log[j]
        BY <1>1, <3>2, PingType, AppendProperties
      <4>2. k \notin 1 .. Len(s.log)
        BY <2>6, <2>7, <4>1 DEF NoFarewell
      <4>3. Len(s.log) \in Nat
        BY <1>1
      <4> QED
        BY <4>1, <4>2, <4>3
    <3> QED
      BY <2>2, <2>4, <3>1, <3>2
  <2>8. ClosedLast(u)
    BY <2>6, <2>7 DEF ClosedLast
  <2> QED
    BY <1>3, <2>5, <2>8 DEF u, t
<1> QED
  BY <1>2, <1>3, CloseIs

LEMMA ThoseType ==
  ASSUME NEW log, NEW n \in Nat, NEW kinds
  PROVE  /\ IsFiniteSet({k \in 1 .. n : log[k].kind \in kinds})
         /\ Those(log, n, kinds) \in Nat
<1> DEFINE S == {k \in 1 .. n : log[k].kind \in kinds}
<1>1. IsFiniteSet(1 .. n) /\ S \subseteq 1 .. n
  BY FS_Interval
<1> HIDE DEF S
<1>2. IsFiniteSet(S) /\ Cardinality(S) \in Nat
  BY <1>1, FS_Subset, FS_CardinalityType
<1> QED
  BY <1>2 DEF Those, S

LEMMA ThoseSame ==
  ASSUME NEW a, NEW b, NEW n \in Nat, \A k \in 1 .. n : a[k] = b[k], NEW kinds
  PROVE  Those(a, n, kinds) = Those(b, n, kinds)
<1>1. {k \in 1 .. n : a[k].kind \in kinds} = {k \in 1 .. n : b[k].kind \in kinds}
  OBVIOUS
<1> QED
  BY <1>1 DEF Those

LEMMA ThoseNext ==
  ASSUME NEW log, NEW n \in Nat, NEW kinds
  PROVE  Those(log, n + 1, kinds)
           = Those(log, n, kinds) + IF log[n + 1].kind \in kinds THEN 1 ELSE 0
<1> DEFINE S == {k \in 1 .. n : log[k].kind \in kinds}
           T == {k \in 1 .. (n + 1) : log[k].kind \in kinds}
<1>1. \A k \in 1 .. (n + 1) : k \in 1 .. n \/ k = n + 1
  OBVIOUS
<1>2. n + 1 \notin 1 .. n /\ n + 1 \in 1 .. (n + 1) /\ \A k \in 1 .. n : k \in 1 .. (n + 1)
  OBVIOUS
<1>3. IsFiniteSet(S) /\ Cardinality(S) \in Nat
  BY ThoseType DEF Those
<1>4. CASE log[n + 1].kind \in kinds
  <2>1. T = S \cup {n + 1} /\ n + 1 \notin S
    BY <1>1, <1>2, <1>4
  <2> HIDE DEF S, T
  <2>2. Cardinality(T) = Cardinality(S) + 1
    BY <1>3, <2>1, FS_AddElement
  <2> QED
    BY <1>4, <2>2 DEF Those, S, T
<1>5. CASE log[n + 1].kind \notin kinds
  <2>1. T = S
    BY <1>1, <1>2, <1>5
  <2> HIDE DEF S, T
  <2>2. Cardinality(T) = Cardinality(S) + 0
    BY <1>3, <2>1
  <2> QED
    BY <1>5, <2>2 DEF Those, S, T
<1> QED
  BY <1>4, <1>5

LEMMA ThoseNone ==
  ASSUME NEW log, NEW kinds
  PROVE  Those(log, 0, kinds) = 0
<1>1. {k \in 1 .. 0 : log[k].kind \in kinds} = {}
  OBVIOUS
<1> QED
  BY <1>1, FS_EmptySet DEF Those

LEMMA ThoseAppend ==
  ASSUME NEW log \in Seq(Payload), NEW p \in Payload, NEW kinds
  PROVE  Those(Append(log, p), Len(Append(log, p)), kinds)
           = Those(log, Len(log), kinds) + IF p.kind \in kinds THEN 1 ELSE 0
<1> DEFINE log2 == Append(log, p)
           n == Len(log)
<1>1. Len(log2) = n + 1 /\ log2[n + 1] = p /\ \A k \in 1 .. n : log2[k] = log[k]
  BY AppendProperties
<1>2. n \in Nat
  OBVIOUS
<1> HIDE DEF log2, n
<1>3. Those(log2, n, kinds) = Those(log, n, kinds)
  BY <1>1, <1>2, ThoseSame
<1>4. Those(log2, n + 1, kinds) = Those(log2, n, kinds) + IF log2[n + 1].kind \in kinds THEN 1 ELSE 0
  BY <1>2, ThoseNext
<1> QED
  BY <1>1, <1>3, <1>4 DEF log2, n

LEMMA ReleasedSame ==
  ASSUME NEW log \in Seq(Payload), NEW log2 \in Seq(Payload), NEW base \in Nat, NEW n \in Nat,
         base <= n, n <= Len(log), n <= Len(log2), \A k \in 1 .. n : log2[k] = log[k]
  PROVE  Released(log2, base, n) = Released(log, base, n)
<1>1. /\ Released(log, base, n) \in Seq(Payload)
      /\ Len(Released(log, base, n)) = n - base
      /\ \A i \in 1 .. (n - base) : Released(log, base, n)[i] = log[base + i]
  BY ReleasedIs
<1>2. /\ Released(log2, base, n) \in Seq(Payload)
      /\ Len(Released(log2, base, n)) = n - base
      /\ \A i \in 1 .. (n - base) : Released(log2, base, n)[i] = log2[base + i]
  BY ReleasedIs
<1>3. \A i \in 1 .. (n - base) : base + i \in 1 .. n
  OBVIOUS
<1>4. \A i \in 1 .. (n - base) : Released(log, base, n)[i] = Released(log2, base, n)[i]
  BY <1>1, <1>2, <1>3
<1> QED
  BY <1>1, <1>2, <1>4, SeqEqual

LEMMA ReleasedNone ==
  ASSUME NEW log \in Seq(Payload), NEW base \in Nat, base <= Len(log)
  PROVE  Released(log, base, base) = <<>> /\ ForCaller(Released(log, base, base)) = <<>>
<1>1. Released(log, base, base) \in Seq(Payload) /\ Len(Released(log, base, base)) = base - base
  BY ReleasedIs
<1>2. Released(log, base, base) = <<>>
  BY <1>1, EmptySeq
<1> QED
  BY <1>2, ForCallerEmpty

LEMMA ForCallerJoins ==
  ASSUME NEW log \in Seq(Payload), NEW base \in Nat, NEW m \in Nat, NEW n \in Nat,
         base <= m, m <= n, n <= Len(log)
  PROVE  ForCaller(Released(log, base, n))
           = ForCaller(Released(log, base, m)) \o ForCaller(Released(log, m, n))
<1> DEFINE Joins(i) == ForCaller(Released(log, base, i))
                         = ForCaller(Released(log, base, m)) \o ForCaller(Released(log, m, i))
           T == {j \in 0 .. (n - m) : Joins(m + j)}
<1>0. Len(log) \in Nat /\ n - m \in Nat
  OBVIOUS
<1>1. \A i \in Nat : base <= i /\ i <= Len(log) => ForCaller(Released(log, base, i)) \in Seq(UserPayload)
  BY ReleasedIs, ForCallerType
<1>2. \A i \in Nat : m <= i /\ i <= Len(log) => ForCaller(Released(log, m, i)) \in Seq(UserPayload)
  BY ReleasedIs, ForCallerType
<1>3. 0 \in T
  <2>1. ForCaller(Released(log, m, m)) = <<>>
    BY <1>0, ReleasedNone
  <2>2. ForCaller(Released(log, base, m)) \in Seq(UserPayload)
    BY <1>0, <1>1
  <2>3. Joins(m)
    BY <2>1, <2>2, ConcatEmptySeq
  <2> QED
    BY <1>0, <2>3
<1>4. ASSUME NEW j \in 0 .. ((n - m) - 1), j \in T PROVE j + 1 \in T
  <2> DEFINE i == m + j
  <2>1. /\ i \in Nat /\ base <= i /\ m <= i /\ i + 1 <= Len(log) /\ i <= Len(log)
        /\ j + 1 \in 0 .. (n - m) /\ m + (j + 1) = i + 1
    BY <1>0
  <2>2. Joins(i)
    BY <1>4
  <2> HIDE DEF i
  <2> DEFINE a == ForCaller(Released(log, base, m))
             b == ForCaller(Released(log, m, i))
             p == log[i + 1]
  <2>3. ForCaller(Released(log, base, i + 1)) = AddForCaller(ForCaller(Released(log, base, i)), p)
    BY <2>1, ForCallerNext
  <2>4. ForCaller(Released(log, m, i + 1)) = AddForCaller(b, p)
    BY <2>1, ForCallerNext
  <2>5. a \in Seq(UserPayload) /\ b \in Seq(UserPayload)
    BY <1>0, <1>1, <1>2, <2>1
  <2>6. p \in Payload
    BY <2>1
  <2> HIDE DEF a, b, p
  <2>7. AddForCaller(a \o b, p) = a \o AddForCaller(b, p)
    <3>1. CASE IsForCaller(p)
      <4>1. p \in UserPayload
        BY <2>6, <3>1 DEF UserPayload
      <4>2. a \o b \in Seq(UserPayload) /\ <<p>> \in Seq(UserPayload)
        BY <2>5, <4>1, ConcatProperties
      <4>3. Append(a \o b, p) = (a \o b) \o <<p>> /\ Append(b, p) = b \o <<p>>
        BY <2>5, <4>1, <4>2, AppendIsConcat
      <4>4. (a \o b) \o <<p>> = a \o (b \o <<p>>)
        BY <2>5, <4>2, ConcatAssociative
      <4>5. Append(a \o b, p) = a \o Append(b, p)
        BY <4>3, <4>4
      <4> QED
        BY <3>1, <4>5 DEF AddForCaller
    <3>2. CASE ~ IsForCaller(p)
      BY <3>2 DEF AddForCaller
    <3> QED
      BY <3>1, <3>2
  <2>8. ForCaller(Released(log, base, i)) = a \o b
    BY <2>2 DEF a, b
  <2>9. ForCaller(Released(log, base, i + 1)) = a \o ForCaller(Released(log, m, i + 1))
    BY <2>3, <2>4, <2>7, <2>8
  <2>10. Joins(i + 1)
    BY <2>9 DEF a
  <2> QED
    BY <2>1, <2>10
<1>5. \A j \in 0 .. (n - m) : j \in T
  <2> HIDE DEF T
  <2> QED
    BY <1>0, <1>3, <1>4, Sums!UpTo
<1>6. m + (n - m) = n /\ n - m \in 0 .. (n - m)
  BY <1>0
<1>7. Joins(m + (n - m))
  BY <1>5, <1>6
<1> HIDE DEF Joins
<1>8. Joins(n)
  BY <1>6, <1>7
<1> QED
  BY <1>8 DEF Joins

Asks == {"request", "ping"}
Answers == {"accepted", "pong"}

\* What s owes for the first n payloads of its peer's log, as far as no error
\* dropped anything.
Caught(s, log, n) ==
  s.faults = {} =>
    /\ (\E k \in 1 .. n : log[k].kind = "disconnect") => IsClosed(s)
    /\ Those(s.log, Len(s.log), Answers) = Those(log, n, Asks)

FarewellIsLast(log) == \A k \in 1 .. Len(log) : log[k].kind = "disconnect" => k = Len(log)

LEMMA CaughtNext ==
  ASSUME NEW s, NEW log \in Seq(Payload), FarewellIsLast(log), NEW n \in Nat, n + 1 <= Len(log),
         Caught(s, log, n), NEW t, t.faults = {} => s.faults = {},
         Those(t.log, Len(t.log), Answers)
           = Those(s.log, Len(s.log), Answers) + IF log[n + 1].kind \in Asks THEN 1 ELSE 0,
         log[n + 1].kind = "disconnect" => IsClosed(t)
  PROVE  Caught(t, log, n + 1)
<1> SUFFICES ASSUME t.faults = {}
             PROVE  /\ (\E k \in 1 .. (n + 1) : log[k].kind = "disconnect") => IsClosed(t)
                    /\ Those(t.log, Len(t.log), Answers) = Those(log, n + 1, Asks)
  BY DEF Caught
<1>1. ASSUME NEW k \in 1 .. (n + 1), log[k].kind = "disconnect" PROVE IsClosed(t)
  <2>1. Len(log) \in Nat
    OBVIOUS
  <2>2. k \in 1 .. Len(log)
    BY <2>1
  <2>3. k = Len(log)
    BY <1>1, <2>2 DEF FarewellIsLast
  <2>4. k = n + 1
    BY <2>1, <2>3
  <2> QED
    BY <1>1, <2>4
<1>2. Those(s.log, Len(s.log), Answers) = Those(log, n, Asks)
  BY DEF Caught
<1>3. Those(log, n + 1, Asks) = Those(log, n, Asks) + IF log[n + 1].kind \in Asks THEN 1 ELSE 0
  BY ThoseNext
<1> QED
  BY <1>1, <1>2, <1>3

\* The loops of receive. fixed.s is the session before them, fixed.log what
\* its peer has sent, fixed.start how much of that has left the ordering.
Right(fixed, acc, n) ==
  /\ AccOK(acc)
  /\ ~ acc.failed => /\ acc.s.faults = fixed.s.faults
                     /\ acc.out = ForCaller(Released(fixed.log, fixed.start, n))
  /\ acc.failed => /\ fixed.s.faults \subseteq acc.s.faults
                   /\ ~ (acc.s.faults \subseteq {"expired"})
  /\ Caught(acc.s, fixed.log, n)

LEMMA RightFailed ==
  ASSUME NEW fixed, NEW acc, NEW n, Right(fixed, acc, n), acc.failed, NEW m
  PROVE  Right(fixed, acc, m)
<1>1. acc.s.faults # {}
  BY DEF Right
<1> QED
  BY <1>1 DEF Right, Caught

LEMMA RightNext ==
  ASSUME NEW fixed, NEW acc, NEW n \in Nat, Right(fixed, acc, n), ~ acc.failed,
         fixed.log \in Seq(Payload), FarewellIsLast(fixed.log),
         fixed.start \in Nat, fixed.start <= n, n + 1 <= Len(fixed.log),
         NEW t, AccOK(t), ~ t.failed, t.s.faults = acc.s.faults,
         t.out = AddForCaller(acc.out, fixed.log[n + 1]),
         Those(t.s.log, Len(t.s.log), Answers)
           = Those(acc.s.log, Len(acc.s.log), Answers) + IF fixed.log[n + 1].kind \in Asks THEN 1 ELSE 0,
         fixed.log[n + 1].kind = "disconnect" => IsClosed(t.s)
  PROVE  Right(fixed, t, n + 1)
<1>1. acc.s.faults = fixed.s.faults /\ acc.out = ForCaller(Released(fixed.log, fixed.start, n))
      /\ Caught(acc.s, fixed.log, n)
  BY DEF Right
<1>2. t.out = ForCaller(Released(fixed.log, fixed.start, n + 1))
  BY <1>1, ForCallerNext
<1>3. Caught(t.s, fixed.log, n + 1)
  <2> DEFINE s == acc.s
             u == t.s
             log == fixed.log
  <2>1. Caught(s, log, n) /\ u.faults = s.faults /\ (log[n + 1].kind = "disconnect" => IsClosed(u))
        /\ Those(u.log, Len(u.log), Answers)
             = Those(s.log, Len(s.log), Answers) + IF log[n + 1].kind \in Asks THEN 1 ELSE 0
    BY <1>1
  <2>2. log \in Seq(Payload) /\ FarewellIsLast(log) /\ n + 1 <= Len(log)
    OBVIOUS
  <2> HIDE DEF s, u, log
  <2>3. Caught(u, log, n + 1)
    BY <2>1, <2>2, CaughtNext
  <2> QED
    BY <2>3 DEF u, log
<1> QED
  BY <1>1, <1>2, <1>3 DEF Right

LEMMA NotForCaller ==
  ASSUME NEW p, p.kind # "user", NEW got
  PROVE  AddForCaller(got, p) = got
BY DEF AddForCaller, IsForCaller

LEMMA ThoseStay ==
  ASSUME NEW s, SessionOK(s), NEW p, p.kind \notin Asks
  PROVE  Those(s.log, Len(s.log), Answers)
           = Those(s.log, Len(s.log), Answers) + IF p.kind \in Asks THEN 1 ELSE 0
<1>1. Len(s.log) \in Nat
  BY NumbersType DEF SessionOK
<1>2. Those(s.log, Len(s.log), Answers) \in Nat
  BY <1>1, ThoseType
<1> QED
  BY <1>2

LEMMA HandleRight ==
  ASSUME NEW fixed, NEW acc, NEW n \in Nat, Right(fixed, acc, n),
         fixed.log \in Seq(Payload), FarewellIsLast(fixed.log),
         fixed.start \in Nat, fixed.start <= n, n + 1 <= Len(fixed.log)
  PROVE  Right(fixed, HandleInternal(acc, fixed.log[n + 1]), n + 1)
<1> DEFINE p == fixed.log[n + 1]
           t == HandleInternal(acc, p)
           s == acc.s
<1>1. p \in Payload
  <2>1. n + 1 \in 1 .. Len(fixed.log)
    OBVIOUS
  <2> QED
    BY <2>1
<1>2. AccOK(acc) /\ SessionOK(s) /\ s \in SessionType
  BY DEF Right, AccOK, SessionOK
<1>3. AccOK(t)
  BY <1>1, <1>2, HandleKeeps
<1>4. \/ acc.failed /\ t = acc
      \/ /\ ~ acc.failed
         /\ \/ IsForCaller(p) /\ t = [s |-> s, out |-> Append(acc.out, p), failed |-> FALSE]
            \/ p.kind \in Asks /\ AnswerIs(acc, p, t)
            \/ /\ p.kind = "incoming"
               /\ t = [s |-> [s EXCEPT !.state = "Connected"], out |-> acc.out, failed |-> FALSE]
            \/ /\ p.kind = "disconnect"
               /\ t = [s |-> [s EXCEPT !.state = "ByPeer"], out |-> acc.out, failed |-> FALSE]
            \/ /\ p.kind \notin {"user", "request", "ping", "incoming", "disconnect"}
               /\ t = acc
  BY <1>1, <1>2, HandleIs DEF Asks
<1> HIDE DEF t
<1>5. CASE acc.failed /\ t = acc
  BY <1>5, RightFailed DEF t
<1>6. ASSUME ~ acc.failed, ~ t.failed, t.s.faults = s.faults, t.s.log = s.log, p.kind \notin Asks,
             t.out = AddForCaller(acc.out, p), p.kind = "disconnect" => IsClosed(t.s)
      PROVE  Right(fixed, t, n + 1)
  <2>1. Those(t.s.log, Len(t.s.log), Answers)
          = Those(s.log, Len(s.log), Answers) + IF p.kind \in Asks THEN 1 ELSE 0
    <3> HIDE DEF p, s
    <3> QED
      BY <1>2, <1>6, ThoseStay
  <2> QED
    BY <1>3, <1>6, <2>1, RightNext
<1>7. CASE ~ acc.failed /\ IsForCaller(p) /\ t = [s |-> s, out |-> Append(acc.out, p), failed |-> FALSE]
  <2>1. ~ t.failed /\ t.s = s /\ t.out = AddForCaller(acc.out, p)
    BY <1>7 DEF AddForCaller
  <2>2. p.kind \notin Asks /\ p.kind # "disconnect"
    BY <1>7 DEF IsForCaller, Asks
  <2> HIDE DEF s, p
  <2> QED
    BY <1>6, <1>7, <2>1, <2>2 DEF t, p
<1>8. CASE ~ acc.failed /\ p.kind = "incoming"
           /\ t = [s |-> [s EXCEPT !.state = "Connected"], out |-> acc.out, failed |-> FALSE]
  <2> DEFINE u == [s EXCEPT !.state = "Connected"]
  <2>1. u.faults = s.faults /\ u.log = s.log
    BY <1>2 DEF SessionType
  <2>2. ~ t.failed /\ t.s = u /\ t.out = acc.out
    BY <1>8
  <2>3. p.kind \notin Asks /\ p.kind # "disconnect" /\ p.kind # "user"
    BY <1>8 DEF Asks
  <2>4. t.out = AddForCaller(acc.out, p)
    BY <2>2, <2>3, NotForCaller
  <2> HIDE DEF s, p, u
  <2> QED
    BY <1>6, <1>8, <2>1, <2>2, <2>3, <2>4 DEF t, p
<1>9. CASE ~ acc.failed /\ p.kind = "disconnect"
           /\ t = [s |-> [s EXCEPT !.state = "ByPeer"], out |-> acc.out, failed |-> FALSE]
  <2> DEFINE u == [s EXCEPT !.state = "ByPeer"]
  <2>1. u.faults = s.faults /\ u.log = s.log /\ u.state = "ByPeer"
    BY <1>2 DEF SessionType
  <2>2. ~ t.failed /\ t.s = u /\ t.out = acc.out
    BY <1>9
  <2>3. p.kind \notin Asks /\ p.kind # "user"
    BY <1>9 DEF Asks
  <2>4. t.out = AddForCaller(acc.out, p)
    BY <2>2, <2>3, NotForCaller
  <2> HIDE DEF s, p, u
  <2>5. IsClosed(u)
    BY <2>1 DEF IsClosed, Reasons
  <2> QED
    BY <1>6, <1>9, <2>1, <2>2, <2>3, <2>4, <2>5 DEF t, p
<1>10. CASE ~ acc.failed /\ p.kind \notin {"user", "request", "ping", "incoming", "disconnect"}
            /\ t = acc
  <2>1. p.kind \notin Asks /\ p.kind # "disconnect" /\ p.kind # "user"
    BY <1>10 DEF Asks
  <2>2. t.out = AddForCaller(acc.out, p)
    BY <1>10, <2>1, NotForCaller
  <2> HIDE DEF p
  <2> QED
    BY <1>6, <1>10, <2>1, <2>2 DEF t, p
<1>11. CASE ~ acc.failed /\ p.kind \in Asks /\ AnswerIs(acc, p, t)
  <2> DEFINE q == AnswerTo(p)
             sent == Send(s, q)
             u == sent.s
             v == [u EXCEPT !.faults = @ \cup {"reply"}]
  <2>1. q \in Payload /\ q.kind \in Answers
    BY <1>1, AnswerToType DEF Answers
  <2>2. SessionOK(u) /\ u.faults = s.faults /\ sent.ok \in BOOLEAN
    BY <1>2, <2>1, SendKeeps
  <2>3. sent.ok => u.log = Append(s.log, q)
    BY <1>2, <2>1, SendLog
  <2>4. t = IF sent.ok THEN [s |-> u, out |-> acc.out, failed |-> FALSE]
            ELSE [s |-> v, out |-> acc.out, failed |-> TRUE]
    BY <1>11 DEF AnswerIs
  <2>5. p.kind # "user" /\ p.kind # "disconnect"
    BY <1>11 DEF Asks
  <2>6. v.faults = u.faults \cup {"reply"}
    BY <2>2 DEF SessionOK, SessionType
  <2> HIDE DEF q, sent, u, v
  <2>7. CASE sent.ok
    <3>1. ~ t.failed /\ t.s = u /\ t.out = acc.out
      BY <2>4, <2>7
    <3>2. t.out = AddForCaller(acc.out, p)
      BY <2>5, <3>1, NotForCaller
    <3>3. Those(u.log, Len(u.log), Answers) = Those(s.log, Len(s.log), Answers) + 1
      <4>1. s.log \in Seq(Payload)
        BY <1>2, NumbersType
      <4>2. Those(Append(s.log, q), Len(Append(s.log, q)), Answers)
              = Those(s.log, Len(s.log), Answers) + IF q.kind \in Answers THEN 1 ELSE 0
        BY <2>1, <4>1, ThoseAppend
      <4> HIDE DEF s
      <4> QED
        BY <2>1, <2>3, <2>7, <4>2
    <3>4. Those(t.s.log, Len(t.s.log), Answers)
            = Those(s.log, Len(s.log), Answers) + IF p.kind \in Asks THEN 1 ELSE 0
      BY <1>11, <3>1, <3>3
    <3>5. t.s.faults = s.faults
      BY <2>2, <3>1
    <3>6. Right(fixed, t, n + 1)
      BY <1>3, <1>11, <2>5, <3>1, <3>2, <3>4, <3>5, RightNext
    <3> QED
      BY <3>6 DEF t
  <2>8. CASE ~ sent.ok
    <3>1. t.failed /\ t.s.faults = s.faults \cup {"reply"}
      BY <2>2, <2>4, <2>6, <2>8
    <3>2. fixed.s.faults \subseteq s.faults
      BY <1>11 DEF Right
    <3>3. fixed.s.faults \subseteq t.s.faults /\ ~ (t.s.faults \subseteq {"expired"}) /\ t.s.faults # {}
      <4>1. "reply" \in t.s.faults /\ "reply" \notin {"expired"}
        BY <3>1
      <4>2. fixed.s.faults \subseteq t.s.faults
        <5> HIDE DEF t
        <5> QED
          BY <3>1, <3>2
      <4> QED
        BY <4>1, <4>2
    <3>4. Right(fixed, t, n + 1)
      BY <1>3, <3>1, <3>3 DEF Right, Caught
    <3> QED
      BY <3>4 DEF t
  <2> QED
    BY <2>7, <2>8
<1> QED
  BY <1>4, <1>5, <1>7, <1>8, <1>9, <1>10, <1>11 DEF t

LEMMA HandleLeaves ==
  ASSUME NEW acc, AccOK(acc), NEW p \in Payload
  PROVE  LET t == HandleInternal(acc, p).s
         IN t.ordering = acc.s.ordering /\ t.pending = acc.s.pending
<1> DEFINE t == HandleInternal(acc, p)
           s == acc.s
<1>1. SessionOK(s) /\ s \in SessionType
  BY DEF AccOK, SessionOK
<1>2. \/ t.s = s
      \/ t.s = [s EXCEPT !.state = "Connected"]
      \/ t.s = [s EXCEPT !.state = "ByPeer"]
      \/ AnswerIs(acc, p, t)
  <2> HIDE DEF t
  <2>1. \A a, b, c : [s |-> a, out |-> b, failed |-> c].s = a
    OBVIOUS
  <2> QED
    BY <1>1, <2>1, HandleIs DEF t
<1> HIDE DEF t
<1>3. CASE AnswerIs(acc, p, t)
  <2> DEFINE u == Send(s, AnswerTo(p)).s
  <2>1. SessionOK(u) /\ u.ordering = s.ordering /\ u.pending = s.pending
    BY <1>1, AnswerToType, SendKeeps
  <2>2. u \in SessionType
    BY <2>1 DEF SessionOK
  <2>3. t.s = u \/ t.s = [u EXCEPT !.faults = @ \cup {"reply"}]
    BY <1>3 DEF AnswerIs
  <2> HIDE DEF u, s
  <2>4. t.s.ordering = u.ordering /\ t.s.pending = u.pending
    BY <2>2, <2>3 DEF SessionType
  <2> QED
    BY <2>1, <2>4 DEF t, s
<1>4. CASE ~ AnswerIs(acc, p, t)
  <2> HIDE DEF s
  <2>1. t.s.ordering = s.ordering /\ t.s.pending = s.pending
    BY <1>1, <1>2, <1>4 DEF SessionType
  <2> QED
    BY <2>1 DEF t, s
<1> QED
  BY <1>3, <1>4

\* The loop over the payloads set free: fixed.at have left the ordering before.
HandledRight(fixed, acc, k) ==
  /\ Right(fixed.before, acc, fixed.at + k)
  /\ acc.s.ordering = fixed.ordering
  /\ acc.s.pending = fixed.pending

HandlingRight == INSTANCE Folding WITH Op <- HandleInternal, Holds <- HandledRight

LEMMA HandleAllIsRight ==
  \A base, seq : HandleAll(base, seq) = HandlingRight!Loop(base, seq)
BY DEF HandleAll, HandlingRight!Loop, HandlingRight!MapThenFoldSet, HandlingRight!Greatest,
       FoldLeft, MapThenFoldSet, Max

LEMMA HandleAllRight ==
  ASSUME NEW before, NEW acc, NEW at \in Nat, Right(before, acc, at),
         before.log \in Seq(Payload), FarewellIsLast(before.log),
         before.start \in Nat, before.start <= at,
         NEW ready \in Seq(Payload), at + Len(ready) <= Len(before.log),
         \A j \in 1 .. Len(ready) : ready[j] = before.log[at + j]
  PROVE  LET t == HandleAll(acc, ready)
         IN /\ Right(before, t, at + Len(ready))
            /\ t.s.ordering = acc.s.ordering /\ t.s.pending = acc.s.pending
<1> DEFINE fixed == [before |-> before, at |-> at, ordering |-> acc.s.ordering, pending |-> acc.s.pending]
<1>1. /\ fixed.before = before /\ fixed.at = at /\ fixed.ordering = acc.s.ordering
      /\ fixed.pending = acc.s.pending
  OBVIOUS
<1> HIDE DEF fixed
<1>2. HandledRight(fixed, acc, 0)
  <2>1. at + 0 = at
    OBVIOUS
  <2> QED
    BY <1>1, <2>1 DEF HandledRight
<1>3. ASSUME NEW k \in 0 .. (Len(ready) - 1), NEW a, HandledRight(fixed, a, k)
      PROVE  HandledRight(fixed, HandleInternal(a, ready[k + 1]), k + 1)
  <2> DEFINE n == at + k
             p == ready[k + 1]
  <2>1. Len(ready) \in Nat /\ Len(before.log) \in Nat
    OBVIOUS
  <2>2. /\ n \in Nat /\ before.start <= n /\ n + 1 <= Len(before.log) /\ n + 1 = at + (k + 1)
        /\ k + 1 \in 1 .. Len(ready)
    BY <2>1
  <2>3. p = before.log[n + 1] /\ p \in Payload
    BY <2>2
  <2>4. Right(before, a, n) /\ a.s.ordering = fixed.ordering /\ a.s.pending = fixed.pending
    BY <1>1, <1>3 DEF HandledRight
  <2> HIDE DEF n, p
  <2>5. Right(before, HandleInternal(a, p), n + 1)
    BY <2>2, <2>3, <2>4, HandleRight
  <2>6. HandleInternal(a, p).s.ordering = a.s.ordering /\ HandleInternal(a, p).s.pending = a.s.pending
    BY <2>3, <2>4, HandleLeaves DEF Right
  <2> QED
    BY <1>1, <2>2, <2>4, <2>5, <2>6 DEF HandledRight, p
<1>4. \A k \in 0 .. (Len(ready) - 1) : \A a :
        HandledRight(fixed, a, k) => HandledRight(fixed, HandleInternal(a, ready[k + 1]), k + 1)
  BY <1>3
<1>5. HandledRight(fixed, HandlingRight!Loop(acc, ready), Len(ready))
  BY <1>2, <1>4, HandlingRight!FoldKeeps
<1> QED
  BY <1>1, <1>5, HandleAllIsRight DEF HandledRight

\* f is a fragment of the k-th payload of log, while nothing has wrapped.
IsExactly(log, ids, f, k) ==
  /\ k \in 1 .. Len(log)
  /\ f.payload = log[k]
  /\ f.ord = k - 1
  /\ log[k].parts = 1 => f.split = NoSplit
  /\ log[k].parts # 1 => f.split.count = log[k].parts /\ f.split.id = ids[k]

Distinct(log, ids) ==
  \A k, m \in 1 .. Len(log) :
    log[k].parts # 1 /\ log[m].parts # 1 /\ ids[k] = ids[m] => k = m

\* Only fragments of one payload are put together.
LEMMA JoiningAgrees ==
  ASSUME NEW s, SessionOK(s), NEW log, NEW ids, Distinct(log, ids), PiecesOK(s.pending, log, ids),
         NEW f \in Frame, NEW k, IsExactly(log, ids, f, k), f.split # NoSplit
  PROVE  /\ \A j \in DOMAIN Joining(s, f) : Joining(s, f)[j] = log[k]
         /\ log[k].parts # 1 /\ f.split.count = log[k].parts /\ f.split.id = ids[k]
         /\ f.payload = log[k]
<1> DEFINE id == f.split.id
<1>1. /\ k \in 1 .. Len(log) /\ log[k].parts # 1 /\ f.split.count = log[k].parts /\ id = ids[k]
      /\ f.payload = log[k]
  BY DEF IsExactly
<1>2. ASSUME NEW j \in DOMAIN Before(s, f) PROVE Before(s, f)[j] = log[k]
  <2>1. id \in DOMAIN s.pending
    BY <1>2 DEF Before, EmptyMap
  <2>2. Before(s, f) = s.pending[id].pieces
    BY <2>1 DEF Before
  <2>3. PICK m \in 1 .. Len(log) : IsPieceOf(log, ids, id, s.pending[id].count, s.pending[id].pieces[j], m)
    BY <1>2, <2>1, <2>2 DEF PiecesOK
  <2>4. log[m].parts # 1 /\ ids[m] = id /\ s.pending[id].pieces[j] = log[m]
    BY <2>3 DEF IsPieceOf
  <2>5. m = k
    BY <1>1, <2>4 DEF Distinct
  <2> QED
    BY <2>2, <2>4, <2>5
<1>3. /\ DOMAIN Joining(s, f) = DOMAIN Before(s, f) \cup {f.split.index}
      /\ Joining(s, f)[f.split.index] = f.payload
      /\ \A j \in DOMAIN Before(s, f) : j # f.split.index => Joining(s, f)[j] = Before(s, f)[j]
  BY JoiningType
<1>4. ASSUME NEW j \in DOMAIN Joining(s, f) PROVE Joining(s, f)[j] = log[k]
  <2>1. CASE j = f.split.index
    BY <1>1, <1>3, <2>1
  <2>2. CASE j # f.split.index
    BY <1>2, <1>3, <1>4, <2>2
  <2> QED
    BY <2>1, <2>2
<1> QED
  BY <1>1, <1>4

LEMMA JoinedIs ==
  ASSUME NEW pieces, NEW i \in DOMAIN pieces, NEW p, \A j \in DOMAIN pieces : pieces[j] = p
  PROVE  Joined(pieces) = p
<1>1. \A q : q \in Range(pieces) <=> q = p
  BY DEF Range
<1>2. \E x \in Range(pieces) : \A q \in Range(pieces) : q = x
  BY <1>1
<1>3. (CHOOSE x \in Range(pieces) : TRUE) = p
  BY <1>1
<1> QED
  BY <1>2, <1>3 DEF Joined

LEMMA StoredAgrees ==
  ASSUME NEW s, SessionOK(s), NEW log, NEW ids, Distinct(log, ids), PiecesOK(s.pending, log, ids),
         NEW f \in Frame, NEW k, IsExactly(log, ids, f, k), f.split # NoSplit,
         NEW t, IsStored(s, f, t)
  PROVE  PiecesOK(t.pending, log, ids)
<1> DEFINE id == f.split.id
           new == [count |-> f.split.count, pieces |-> Joining(s, f)]
           others == DOMAIN s.pending \ {id}
           pending == [x \in others \cup {id} |-> IF x = id THEN new ELSE s.pending[x]]
<1>1. /\ \A j \in DOMAIN Joining(s, f) : Joining(s, f)[j] = log[k]
      /\ log[k].parts # 1 /\ f.split.count = log[k].parts /\ id = ids[k]
  BY JoiningAgrees
<1>2. t.pending = pending
  <2>1. t = [s EXCEPT !.buffered = @ + 1, !.pending = pending]
    BY DEF IsStored
  <2>2. s \in SessionType
    BY DEF SessionOK
  <2> HIDE DEF pending
  <2> QED
    BY <2>1, <2>2 DEF SessionType
<1>3. DOMAIN pending = others \cup {id} /\ pending[id] = new /\ \A x \in others : pending[x] = s.pending[x]
  OBVIOUS
<1>4. new.count = f.split.count /\ new.pieces = Joining(s, f)
  OBVIOUS
<1>5. k \in 1 .. Len(log)
  BY DEF IsExactly
<1> HIDE DEF pending, new
<1> SUFFICES ASSUME NEW x \in DOMAIN pending, NEW j \in DOMAIN pending[x].pieces
             PROVE  \E m \in 1 .. Len(log) :
                      IsPieceOf(log, ids, x, pending[x].count, pending[x].pieces[j], m)
  BY <1>2 DEF PiecesOK
<1>6. CASE x = id
  <2>1. IsPieceOf(log, ids, x, pending[x].count, pending[x].pieces[j], k)
    BY <1>1, <1>3, <1>4, <1>5, <1>6 DEF IsPieceOf
  <2> QED
    BY <1>5, <2>1
<1>7. CASE x \in others
  <2>1. x \in DOMAIN s.pending /\ pending[x] = s.pending[x]
    BY <1>3, <1>7
  <2> QED
    BY <2>1 DEF PiecesOK
<1> QED
  BY <1>3, <1>6, <1>7

LEMMA CompletedAgrees ==
  ASSUME NEW s, SessionOK(s), NEW log, NEW ids, PiecesOK(s.pending, log, ids),
         NEW f, NEW t, IsCompleted(s, f, t)
  PROVE  PiecesOK(t.pending, log, ids)
<1> DEFINE others == DOMAIN s.pending \ {f.split.id}
           pending == [x \in others |-> s.pending[x]]
<1>1. t.pending = pending
  <2>1. t = [s EXCEPT !.buffered = @ - Cardinality(DOMAIN Before(s, f)), !.pending = pending]
    BY DEF IsCompleted
  <2>2. s \in SessionType
    BY DEF SessionOK
  <2> HIDE DEF pending
  <2> QED
    BY <2>1, <2>2 DEF SessionType
<1>2. DOMAIN pending = others /\ \A x \in others : pending[x] = s.pending[x]
  OBVIOUS
<1>3. \A x \in others : x \in DOMAIN s.pending
  OBVIOUS
<1> HIDE DEF pending, others
<1> QED
  BY <1>1, <1>2, <1>3 DEF PiecesOK

LEMMA PushAgrees ==
  ASSUME NEW s, SessionOK(s), NEW log, NEW ids, Distinct(log, ids), PiecesOK(s.pending, log, ids),
         NEW f \in Frame, NEW k, IsExactly(log, ids, f, k)
  PROVE  LET got == PushFragment(s, f)
         IN /\ PiecesOK(got.s.pending, log, ids)
            /\ got.whole # <<>> => got.whole[1] = log[k]
<1> DEFINE got == PushFragment(s, f)
<1>1. f.payload = log[k]
  BY DEF IsExactly
<1>2. \/ /\ f.split = NoSplit
         /\ got = [s |-> s, whole |-> <<f.payload>>, refused |-> FALSE]
      \/ /\ f.split # NoSplit
         /\ got = [s |-> s, whole |-> <<>>, refused |-> TRUE]
      \/ /\ f.split # NoSplit
         /\ got = [s |-> got.s, whole |-> <<>>, refused |-> FALSE]
         /\ IsStored(s, f, got.s)
      \/ /\ f.split # NoSplit
         /\ got = [s |-> got.s, whole |-> <<Joined(Joining(s, f))>>, refused |-> FALSE]
         /\ IsCompleted(s, f, got.s)
  BY PushFragmentIs
<1> HIDE DEF got
<1>3. CASE f.split = NoSplit /\ got = [s |-> s, whole |-> <<f.payload>>, refused |-> FALSE]
  BY <1>1, <1>3 DEF got
<1>4. CASE got = [s |-> s, whole |-> <<>>, refused |-> TRUE]
  BY <1>4 DEF got
<1>5. CASE f.split # NoSplit /\ got = [s |-> got.s, whole |-> <<>>, refused |-> FALSE]
           /\ IsStored(s, f, got.s)
  <2>1. got.whole = <<>>
    BY <1>5
  <2>2. PiecesOK(got.s.pending, log, ids)
    BY <1>5, StoredAgrees
  <2> QED
    BY <2>1, <2>2 DEF got
<1>6. CASE f.split # NoSplit
           /\ got = [s |-> got.s, whole |-> <<Joined(Joining(s, f))>>, refused |-> FALSE]
           /\ IsCompleted(s, f, got.s)
  <2>1. got.whole[1] = Joined(Joining(s, f))
    BY <1>6
  <2>2. PiecesOK(got.s.pending, log, ids)
    BY <1>6, CompletedAgrees
  <2>3. f.split.index \in DOMAIN Joining(s, f)
    BY JoiningType
  <2>4. \A j \in DOMAIN Joining(s, f) : Joining(s, f)[j] = log[k]
    BY <1>6, JoiningAgrees
  <2>5. Joined(Joining(s, f)) = log[k]
    BY <2>3, <2>4, JoinedIs
  <2> QED
    BY <2>1, <2>2, <2>5 DEF got
<1> QED
  BY <1>2, <1>3, <1>4, <1>5, <1>6

-----------------------------------------------------------------------------
\* Ordering holds and sets free what was sent under each index.
LEMMA OrderAgrees ==
  ASSUME NEW o \in Orderings, NEW log \in Seq(Payload), OrderedOK(o, log), NEW k \in 1 .. Len(log)
  PROVE  LET t == OrderingPush(o, k - 1, log[k])
         IN /\ OrderedOK(t.ordering, log)
            /\ o.expected <= t.ordering.expected
            /\ t.refused => t.ordering = o
            /\ ~ t.refused =>
                 /\ t.ready \in Seq(Payload)
                 /\ o.expected + Len(t.ready) = t.ordering.expected
                 /\ \A j \in 1 .. Len(t.ready) : t.ready[j] = log[o.expected + j]
<1> DEFINE i == k - 1
           p == log[k]
           t == OrderingPush(o, i, p)
           held == Held(o, i, p)
           e == o.expected
           x == t.ordering.expected
<1>1. /\ Len(log) \in Nat /\ i \in Nat /\ p \in Payload /\ i < Len(log) /\ i + 1 = k
  OBVIOUS
<1>2. /\ t.ordering \in Orderings /\ t.ready \in Seq(Payload) /\ t.refused \in BOOLEAN
      /\ t.refused \/ i < e => t.ordering = o /\ t.ready = <<>>
      /\ ~ t.refused /\ i >= e =>
           /\ Len(t.ready) = x - e
           /\ \A j \in 1 .. Len(t.ready) : t.ready[j] = held[e + j - 1]
           /\ \A j \in 1 .. Len(t.ready) : e + j - 1 \in DOMAIN held
           /\ DOMAIN t.ordering.buffered \subseteq DOMAIN held
           /\ \A m \in DOMAIN t.ordering.buffered : t.ordering.buffered[m] = held[m]
      /\ e <= x
  <2> HIDE DEF i, p
  <2>1. i \in Nat /\ p \in Payload
    BY <1>1
  <2>2. LET s == OrderingPush(o, i, p)
        IN /\ s.ordering \in Orderings
           /\ s.ready \in Seq(Payload)
           /\ s.refused \in BOOLEAN
           /\ s.refused \/ i < o.expected => s.ordering = o /\ s.ready = <<>>
           /\ ~ s.refused /\ i >= o.expected =>
                /\ Len(s.ready) = s.ordering.expected - o.expected
                /\ \A j \in 1 .. Len(s.ready) :
                     s.ready[j] = Held(o, i, p)[o.expected + j - 1]
                /\ \A j \in 1 .. Len(s.ready) : o.expected + j - 1 \in DOMAIN Held(o, i, p)
                /\ DOMAIN s.ordering.buffered \subseteq DOMAIN Held(o, i, p)
                /\ \A m \in DOMAIN s.ordering.buffered : s.ordering.buffered[m] = Held(o, i, p)[m]
           /\ o.expected <= s.ordering.expected
    BY <2>1, OrderingPushIs
  <2> QED
    BY <2>2
<1>3. e \in Nat /\ x \in Nat
  BY <1>2 DEF Orderings
<1>4. ASSUME NEW m \in DOMAIN held PROVE m \in Nat /\ m < Len(log) /\ held[m] = log[m + 1]
  <2>1. DOMAIN held = DOMAIN o.buffered \cup {i} /\ held[i] = p
        /\ (m # i => held[m] = o.buffered[m])
    BY <1>4 DEF Held
  <2>2. DOMAIN o.buffered \subseteq Nat
    <3>1. o.buffered \in Maps(Nat, Payload)
      BY DEF Orderings
    <3> QED
      BY <3>1, MapsDef
  <2>3. CASE m = i
    <3> HIDE DEF held, i
    <3> QED
      BY <1>1, <2>1, <2>3 DEF p
  <2>4. CASE m # i
    <3>1. m \in DOMAIN o.buffered /\ held[m] = o.buffered[m]
      BY <1>4, <2>1, <2>4
    <3> QED
      BY <2>2, <3>1 DEF OrderedOK
  <2> QED
    BY <2>3, <2>4
<1> HIDE DEF t, held, i, p
<1>5. CASE t.refused \/ i < e
  <2>1. t.ordering = o /\ t.ready = <<>> /\ Len(t.ready) = 0
    BY <1>2, <1>5
  <2> QED
    BY <1>2, <1>3, <2>1 DEF t, i, p
<1>6. CASE ~ t.refused /\ i >= e
  <2> DEFINE r == t.ready
             n == Len(r)
             b == t.ordering.buffered
  <2>1. /\ n = x - e /\ n \in Nat /\ e + n = x
        /\ \A j \in 1 .. n : r[j] = held[e + j - 1] /\ e + j - 1 \in DOMAIN held
        /\ DOMAIN b \subseteq DOMAIN held
        /\ \A m \in DOMAIN b : b[m] = held[m]
    BY <1>2, <1>3, <1>6
  <2> HIDE DEF r, n, b, x, e
  <2>2. \A j \in 1 .. n : r[j] = log[e + j] /\ e + j - 1 < Len(log)
    <3> SUFFICES ASSUME NEW j \in 1 .. n PROVE r[j] = log[e + j] /\ e + j - 1 < Len(log)
      OBVIOUS
    <3>1. r[j] = held[e + j - 1] /\ e + j - 1 \in DOMAIN held
      BY <2>1
    <3>2. held[e + j - 1] = log[(e + j - 1) + 1] /\ e + j - 1 < Len(log)
      BY <1>4, <3>1
    <3>3. (e + j - 1) + 1 = e + j
      BY <1>3, <2>1
    <3> QED
      BY <3>1, <3>2, <3>3
  <2>3. x <= Len(log)
    <3>1. CASE n = 0
      BY <1>1, <1>3, <2>1, <3>1 DEF OrderedOK, e
    <3>2. CASE n # 0
      <4>1. n \in 1 .. n
        BY <2>1, <3>2
      <4>2. e + n - 1 < Len(log)
        BY <2>2, <4>1
      <4> QED
        BY <1>1, <1>3, <2>1, <4>2
    <3> QED
      BY <3>1, <3>2
  <2>4. \A m \in DOMAIN b : m < Len(log) /\ b[m] = log[m + 1]
    BY <1>4, <2>1
  <2>5. OrderedOK(t.ordering, log)
    BY <2>3, <2>4 DEF OrderedOK, b, x
  <2> QED
    BY <1>2, <1>6, <2>1, <2>2, <2>5 DEF t, i, p, r, n, x, e
<1>7. i < e \/ i >= e
  BY <1>1, <1>3
<1> QED
  BY <1>5, <1>6, <1>7

LEMMA RightSame ==
  ASSUME NEW fixed, NEW acc, NEW n, Right(fixed, acc, n), NEW t, AccOK(t),
         t.out = acc.out, t.failed = acc.failed, t.s.faults = acc.s.faults,
         t.s.log = acc.s.log, t.s.state = acc.s.state
  PROVE  Right(fixed, t, n)
BY DEF Right, Caught, IsClosed

\* A frame is refused: the error is one of its own, not an expiry.
LEMMA RightFails ==
  ASSUME NEW fixed, NEW acc, NEW n, Right(fixed, acc, n), ~ acc.failed, NEW t, AccOK(t), t.failed,
         NEW fault \in {"split", "order"}, t.s.faults = acc.s.faults \cup {fault}
  PROVE  Right(fixed, t, n)
<1>1. t.s.faults # {} /\ fault # "expired" /\ fault \in t.s.faults
  OBVIOUS
<1>2. ~ (t.s.faults \subseteq {"expired"})
  BY <1>1
<1>3. fixed.s.faults \subseteq t.s.faults
  BY DEF Right
<1>4. Caught(t.s, fixed.log, n)
  BY <1>1 DEF Caught
<1> QED
  BY <1>2, <1>3, <1>4 DEF Right

\* The loop over the frames of a datagram.
TakenRight(fixed, acc, j) ==
  /\ Right(fixed, acc, acc.s.ordering.expected)
  /\ fixed.start <= acc.s.ordering.expected
  /\ OrderedOK(acc.s.ordering, fixed.log)
  /\ PiecesOK(acc.s.pending, fixed.log, fixed.ids)

LEMMA TakeFrameRight ==
  ASSUME NEW fixed, NEW acc, NEW j, TakenRight(fixed, acc, j),
         fixed.log \in Seq(Payload), FarewellIsLast(fixed.log), Distinct(fixed.log, fixed.ids),
         fixed.start \in Nat,
         NEW f \in Frame, NEW k, IsExactly(fixed.log, fixed.ids, f, k), NEW m
  PROVE  TakenRight(fixed, TakeFrame(acc, f), m)
<1> DEFINE s == acc.s
           t == TakeFrame(acc, f)
           got == Got(s, f)
           pushed == Pushed(s, f)
           placed == Placed(s, f)
           log == fixed.log
           ids == fixed.ids
           o == s.ordering
<1>1. AccOK(acc) /\ SessionOK(s)
  BY DEF TakenRight, Right, AccOK
<1>2. AccOK(t)
  BY <1>1, TakeFrameKeeps
<1>3. /\ SessionOK(Marked(s, f)) /\ SessionOK(got.s)
      /\ got.whole # <<>> => SessionOK(placed) /\ pushed.ready \in Seq(Payload)
  BY <1>1, StepsKeep
<1>4. /\ got.s.log = s.log /\ got.s.state = s.state /\ got.s.faults = s.faults /\ got.s.ordering = o
      /\ got.whole # <<>> => /\ placed.log = s.log /\ placed.state = s.state /\ placed.faults = s.faults
                             /\ placed.ordering = pushed.ordering /\ placed.pending = got.s.pending
  BY <1>1, StepsLeave DEF SameSender
<1>5. /\ PiecesOK(got.s.pending, log, ids)
      /\ got.whole # <<>> => got.whole[1] = log[k]
  <2>1. Marked(s, f).pending = s.pending
    <3>1. s \in SessionType
      BY <1>1 DEF SessionOK
    <3> HIDE DEF s
    <3> QED
      BY <3>1 DEF Marked, SessionType
  <2>2. PiecesOK(Marked(s, f).pending, log, ids)
    BY <2>1 DEF TakenRight
  <2>3. got = PushFragment(Marked(s, f), f)
    BY DEF Got
  <2> DEFINE u == Marked(s, f)
  <2> HIDE DEF u, log, ids, s, got
  <2> QED
    BY <1>3, <2>2, <2>3, PushAgrees DEF u, log, ids, s, got
<1>6. /\ Right(fixed, acc, o.expected) /\ fixed.start <= o.expected /\ OrderedOK(o, log)
      /\ PiecesOK(s.pending, log, ids) /\ o \in Orderings
  BY <1>1 DEF TakenRight, SessionOK, SessionType
<1>7. got.whole # <<>> =>
        /\ OrderedOK(pushed.ordering, log)
        /\ o.expected <= pushed.ordering.expected
        /\ pushed.refused => pushed.ordering = o
        /\ ~ pushed.refused =>
             /\ o.expected + Len(pushed.ready) = pushed.ordering.expected
             /\ \A i \in 1 .. Len(pushed.ready) : pushed.ready[i] = log[o.expected + i]
  <2> SUFFICES ASSUME got.whole # <<>> PROVE
        /\ OrderedOK(pushed.ordering, log)
        /\ o.expected <= pushed.ordering.expected
        /\ pushed.refused => pushed.ordering = o
        /\ ~ pushed.refused =>
             /\ o.expected + Len(pushed.ready) = pushed.ordering.expected
             /\ \A i \in 1 .. Len(pushed.ready) : pushed.ready[i] = log[o.expected + i]
    OBVIOUS
  <2>1. f.ord = k - 1 /\ k \in 1 .. Len(log)
    BY DEF IsExactly
  <2>2. pushed = OrderingPush(o, k - 1, log[k])
    <3>1. pushed = OrderingPush(got.s.ordering, f.ord, got.whole[1])
      BY DEF Pushed
    <3> HIDE DEF pushed, got, o, log
    <3> QED
      BY <1>4, <1>5, <2>1, <3>1
  <2> HIDE DEF pushed, got, o, s
  <2> QED
    BY <1>6, <2>1, <2>2, OrderAgrees
<1>8. o.expected \in Nat
  <2> HIDE DEF o
  <2> QED
    BY <1>6 DEF Orderings
<1> HIDE DEF t, got, placed, pushed, s, o, log, ids
<1>9. \A x : [acc EXCEPT !.s = x].s = x /\ [acc EXCEPT !.s = x].out = acc.out
             /\ [acc EXCEPT !.s = x].failed = acc.failed
  BY <1>1, AccWith
<1>10. CASE t = acc
  BY <1>10 DEF TakenRight, t
<1>11. CASE ~ acc.failed /\ t = Fail(acc, got.s, "split")
  <2> DEFINE y == [got.s EXCEPT !.faults = got.s.faults \cup {"split"}]
  <2>1. t = [s |-> y, out |-> acc.out, failed |-> TRUE]
    BY <1>1, <1>11, FailIs
  <2>2. y.faults = s.faults \cup {"split"} /\ y.ordering = o /\ y.pending = got.s.pending
    <3>1. got.s \in SessionType
      BY <1>3 DEF SessionOK
    <3> QED
      BY <1>4, <3>1 DEF SessionType
  <2> HIDE DEF y
  <2>3. t.s = y /\ t.failed
    BY <2>1
  <2>4. Right(fixed, t, o.expected)
    <3>1. "split" \in {"split", "order"}
      OBVIOUS
    <3> QED
      BY <1>2, <1>6, <1>11, <2>2, <2>3, <3>1, RightFails DEF s
  <2> QED
    BY <1>5, <1>6, <2>2, <2>3, <2>4 DEF TakenRight, t, log, ids
<1>12. CASE t = [acc EXCEPT !.s = got.s]
  <2>1. t.s = got.s /\ t.out = acc.out /\ t.failed = acc.failed
    BY <1>9, <1>12
  <2>2. Right(fixed, t, o.expected)
    BY <1>2, <1>4, <1>6, <2>1, RightSame DEF s
  <2> QED
    BY <1>4, <1>5, <1>6, <2>1, <2>2 DEF TakenRight, t, log, ids
<1>13. CASE ~ acc.failed /\ got.whole # <<>> /\ pushed.refused /\ t = Fail(acc, placed, "order")
  <2> DEFINE y == [placed EXCEPT !.faults = placed.faults \cup {"order"}]
  <2>1. t = [s |-> y, out |-> acc.out, failed |-> TRUE]
    BY <1>1, <1>13, FailIs
  <2>2. y.faults = s.faults \cup {"order"} /\ y.ordering = o /\ y.pending = got.s.pending
    <3>1. placed \in SessionType
      BY <1>3, <1>13 DEF SessionOK
    <3>2. placed.ordering = o /\ placed.faults = s.faults /\ placed.pending = got.s.pending
      BY <1>4, <1>7, <1>13
    <3> QED
      BY <3>1, <3>2 DEF SessionType
  <2> HIDE DEF y
  <2>3. t.s = y /\ t.failed
    BY <2>1
  <2>4. Right(fixed, t, o.expected)
    <3>1. "order" \in {"split", "order"}
      OBVIOUS
    <3> QED
      BY <1>2, <1>6, <1>13, <2>2, <2>3, <3>1, RightFails DEF s
  <2> QED
    BY <1>5, <1>6, <2>2, <2>3, <2>4 DEF TakenRight, t, log, ids
<1>14. CASE /\ got.whole # <<>> /\ ~ pushed.refused
            /\ t = HandleAll([acc EXCEPT !.s = placed], pushed.ready)
  <2> DEFINE u == [acc EXCEPT !.s = placed]
             at == o.expected
             ready == pushed.ready
  <2>1. u.s = placed /\ u.out = acc.out /\ u.failed = acc.failed
    BY <1>9
  <2>2. AccOK(u)
    BY <1>1, <1>3, <1>14, AccWithKeeps
  <2> HIDE DEF u
  <2>3. Right(fixed, u, at)
    BY <1>4, <1>6, <1>14, <2>1, <2>2, RightSame DEF s
  <2>4. pushed.ordering.expected <= Len(log)
    BY <1>7, <1>14 DEF OrderedOK
  <2>5. /\ at + Len(ready) = pushed.ordering.expected /\ ready \in Seq(Payload)
        /\ \A i \in 1 .. Len(ready) : ready[i] = log[at + i]
    BY <1>3, <1>7, <1>14
  <2>6. t = HandleAll(u, ready)
    BY <1>14 DEF u
  <2> HIDE DEF at, ready
  <2>7. /\ Right(fixed, t, at + Len(ready))
        /\ t.s.ordering = u.s.ordering /\ t.s.pending = u.s.pending
    <3>1. at \in Nat /\ fixed.start <= at /\ at + Len(ready) <= Len(fixed.log)
      BY <1>6, <1>8, <2>4, <2>5 DEF at, log
    <3>2. \A i \in 1 .. Len(ready) : ready[i] = fixed.log[at + i]
      BY <2>5 DEF log
    <3> QED
      BY <2>3, <2>5, <2>6, <3>1, <3>2, HandleAllRight
  <2>8. t.s.ordering = pushed.ordering /\ t.s.pending = got.s.pending
    BY <1>4, <1>14, <2>1, <2>7
  <2>9. fixed.start <= pushed.ordering.expected
    <3>1. Len(ready) \in Nat
      BY <2>5
    <3> QED
      BY <1>6, <1>8, <2>5, <3>1 DEF at
  <2> QED
    BY <1>5, <1>7, <1>14, <2>5, <2>7, <2>8, <2>9 DEF TakenRight, t, log, ids
<1> QED
  BY <1>10, <1>11, <1>12, <1>13, <1>14, TakeFrameIs DEF t, got, pushed, placed, s

TakingRight == INSTANCE Folding WITH Op <- TakeFrame, Holds <- TakenRight

LEMMA TakeAllIsRight ==
  \A base, seq : FoldLeft(TakeFrame, base, seq) = TakingRight!Loop(base, seq)
BY DEF TakingRight!Loop, TakingRight!MapThenFoldSet, TakingRight!Greatest, FoldLeft, MapThenFoldSet, Max

LEMMA TakeAllRight ==
  ASSUME NEW fixed, NEW acc, TakenRight(fixed, acc, 0),
         fixed.log \in Seq(Payload), FarewellIsLast(fixed.log), Distinct(fixed.log, fixed.ids),
         fixed.start \in Nat, NEW frames \in Seq(Frame),
         \A i \in 1 .. Len(frames) : \E k : IsExactly(fixed.log, fixed.ids, frames[i], k)
  PROVE  TakenRight(fixed, FoldLeft(TakeFrame, acc, frames), Len(frames))
<1>1. \A i \in 0 .. (Len(frames) - 1) :
        frames[i + 1] \in Frame /\ \E k : IsExactly(fixed.log, fixed.ids, frames[i + 1], k)
  <2>1. \A i \in 0 .. (Len(frames) - 1) : i + 1 \in 1 .. Len(frames)
    OBVIOUS
  <2> QED
    BY <2>1
<1>2. ASSUME NEW i \in 0 .. (Len(frames) - 1), NEW a, TakenRight(fixed, a, i)
      PROVE  TakenRight(fixed, TakeFrame(a, frames[i + 1]), i + 1)
  BY <1>1, <1>2, TakeFrameRight
<1>3. \A i \in 0 .. (Len(frames) - 1) : \A a :
        TakenRight(fixed, a, i) => TakenRight(fixed, TakeFrame(a, frames[i + 1]), i + 1)
  BY <1>2
<1>4. TakenRight(fixed, TakingRight!Loop(acc, frames), Len(frames))
  BY <1>3, TakingRight!FoldKeeps
<1> QED
  BY <1>4, TakeAllIsRight

\* s has received part of what its peer has sent, log, and owes nothing for it.
Received(s, log, ids) ==
  /\ OrderedOK(s.ordering, log)
  /\ PiecesOK(s.pending, log, ids)
  /\ Caught(s, log, s.ordering.expected)

\* One call: s goes on to t and hands out to the caller.
Behaves(s, t, out, log) ==
  /\ s.ordering.expected <= t.ordering.expected
  /\ t.ordering.expected <= Len(log)
  /\ \/ /\ t.faults = s.faults
        /\ out = ForCaller(Released(log, s.ordering.expected, t.ordering.expected))
     \/ /\ out = <<>>
        /\ s.faults \subseteq t.faults
        /\ t.faults # {}
        /\ t.faults \subseteq {"expired"} => t.ordering.expected = s.ordering.expected

\* A call that takes nothing in.
Quiet(s, t) ==
  /\ t.ordering = s.ordering
  /\ DOMAIN t.pending \subseteq DOMAIN s.pending
  /\ \A k \in DOMAIN t.pending : t.pending[k] = s.pending[k]
  /\ t.faults \in {s.faults, s.faults \cup {"expired"}}
  /\ IsClosed(s) => IsClosed(t)
  /\ Those(t.log, Len(t.log), Answers) = Those(s.log, Len(s.log), Answers)

LEMMA ExpectedType ==
  ASSUME NEW s, SessionOK(s)
  PROVE  s.ordering \in Orderings /\ s.ordering.expected \in Nat
<1>1. s.ordering \in Orderings
  BY DEF SessionOK, SessionType
<1> DEFINE o == s.ordering
<1> HIDE DEF o
<1>2. o \in Orderings => o.expected \in Nat
  BY DEF Orderings
<1> QED
  BY <1>1, <1>2 DEF o

LEMMA QuietGoes ==
  ASSUME NEW s, SessionOK(s), NEW t, Quiet(s, t), NEW log \in Seq(Payload), NEW ids,
         Received(s, log, ids)
  PROVE  Received(t, log, ids) /\ Behaves(s, t, <<>>, log)
<1> DEFINE n == s.ordering.expected
<1>1. n \in Nat /\ n <= Len(log) /\ t.ordering.expected = n
  BY ExpectedType DEF Received, OrderedOK, Quiet
<1>2. OrderedOK(t.ordering, log)
  BY DEF Received, Quiet
<1>3. PiecesOK(t.pending, log, ids)
  BY DEF Received, PiecesOK, Quiet
<1>4. Caught(t, log, n)
  <2>1. t.faults = {} => s.faults = {}
    BY DEF Quiet
  <2>2. Caught(s, log, n)
    BY DEF Received
  <2> QED
    BY <2>1, <2>2 DEF Quiet, Caught
<1> HIDE DEF n
<1>5. ForCaller(Released(log, n, n)) = <<>>
  BY <1>1, ReleasedNone
<1>6. t.faults = s.faults \/ (s.faults \subseteq t.faults /\ t.faults # {})
  <2>1. t.faults = s.faults \/ t.faults = s.faults \cup {"expired"}
    BY DEF Quiet
  <2> QED
    BY <2>1
<1>7. Behaves(s, t, <<>>, log)
  BY <1>1, <1>5, <1>6 DEF Behaves, n
<1> QED
  BY <1>1, <1>2, <1>3, <1>4, <1>7 DEF Received

-----------------------------------------------------------------------------
LEMMA SendIsQuiet ==
  ASSUME NEW s, SessionOK(s), NEW p \in Payload, p.kind \notin Answers
  PROVE  Quiet(s, Send(s, p).s)
<1> DEFINE sent == Send(s, p)
           t == sent.s
<1>1. t.ordering = s.ordering /\ t.pending = s.pending /\ t.faults = s.faults /\ t.state = s.state
  BY SendKeeps
<1>2. s.log \in Seq(Payload)
  BY DEF SessionOK, SessionType
<1>3. t.log = s.log \/ t.log = Append(s.log, p)
  BY SendLog
<1> HIDE DEF sent
<1>4. CASE t.log = s.log
  BY <1>1, <1>4 DEF Quiet, IsClosed, sent
<1>5. CASE t.log = Append(s.log, p)
  <2>1. Those(t.log, Len(t.log), Answers) = Those(s.log, Len(s.log), Answers) + 0
    BY <1>2, <1>5, ThoseAppend
  <2>2. Those(s.log, Len(s.log), Answers) \in Nat
    <3>1. Len(s.log) \in Nat
      BY <1>2
    <3> QED
      BY <3>1, ThoseType
  <2>3. Those(t.log, Len(t.log), Answers) = Those(s.log, Len(s.log), Answers)
    BY <2>1, <2>2
  <2> QED
    BY <1>1, <2>3 DEF Quiet, IsClosed, sent
<1> QED
  BY <1>3, <1>4, <1>5

LEMMA QuietState ==
  ASSUME NEW s, SessionOK(s), NEW u, u \in SessionType, Quiet(s, u), NEW state \in Reasons
  PROVE  Quiet(s, [u EXCEPT !.state = state])
<1> DEFINE t == [u EXCEPT !.state = state]
<1>1. /\ t.ordering = u.ordering /\ t.pending = u.pending /\ t.faults = u.faults
      /\ t.state = state /\ t.log = u.log
  BY DEF SessionType
<1> HIDE DEF t
<1> QED
  BY <1>1 DEF Quiet, IsClosed, t

LEMMA QuietSame == ASSUME NEW s PROVE Quiet(s, s)
BY DEF Quiet

LEMMA TickIsQuiet ==
  ASSUME NEW s, SessionOK(s), NEW due, due \subseteq DOMAIN s.inFlight,
         NEW expired, expired \subseteq DOMAIN s.pending, NEW silent \in BOOLEAN, NEW ping \in BOOLEAN
  PROVE  Quiet(s, Tick(s, due, expired, silent, ping))
<1> DEFINE t == Tick(s, due, expired, silent, ping)
<1>1. s \in SessionType
  BY DEF SessionOK
<1>2. \/ t = s
      \/ t = [s EXCEPT !.state = "Timeout"]
      \/ t = [s EXCEPT !.state = "Unreachable"]
      \/ \E c : Waited(s, c) /\ (t = c \/ t = Send(c, Ping).s)
  BY TickIs
<1> HIDE DEF t
<1>3. "Timeout" \in Reasons /\ "Unreachable" \in Reasons
  BY DEF Reasons
<1>4. CASE t = s
  BY <1>4, QuietSame DEF t
<1>5. CASE t = [s EXCEPT !.state = "Timeout"] \/ t = [s EXCEPT !.state = "Unreachable"]
  BY <1>1, <1>3, <1>5, QuietSame, QuietState DEF t
<1>6. ASSUME NEW c, Waited(s, c), t = c \/ t = Send(c, Ping).s PROVE Quiet(s, t)
  <2>1. /\ SessionOK(c) /\ c.log = s.log /\ c.state = s.state /\ c.ordering = s.ordering
        /\ c.faults \in {s.faults, s.faults \cup {"expired"}}
        /\ DOMAIN c.pending \subseteq DOMAIN s.pending
        /\ \A k \in DOMAIN c.pending : c.pending[k] = s.pending[k]
    BY <1>6 DEF Waited
  <2>2. Quiet(s, c)
    BY <2>1 DEF Quiet, IsClosed
  <2> DEFINE u == Send(c, Ping).s
  <2>3. u.faults = c.faults /\ u.pending = c.pending /\ u.ordering = c.ordering /\ u.state = c.state
    BY <2>1, PingType, SendKeeps
  <2>4. Quiet(c, u)
    <3>1. Ping.kind \notin Answers
      BY PingType DEF Answers
    <3> QED
      BY <2>1, <3>1, PingType, SendIsQuiet
  <2> HIDE DEF u
  <2>5. Quiet(s, u)
    BY <2>2, <2>3, <2>4 DEF Quiet, IsClosed
  <2> QED
    BY <1>6, <2>2, <2>5 DEF u
<1> QED
  BY <1>2, <1>4, <1>5, <1>6 DEF t

LEMMA CloseIsQuiet ==
  ASSUME NEW s, SessionOK(s)
  PROVE  Quiet(s, Close(s))
<1> DEFINE u == Send(s, Farewell).s
<1>1. Farewell.kind \notin Answers /\ Farewell \in Payload
  BY PingType DEF Answers
<1>2. Quiet(s, u) /\ u \in SessionType
  BY <1>1, SendIsQuiet, SendKeeps DEF SessionOK
<1> HIDE DEF u
<1>3. "ByUs" \in Reasons
  BY DEF Reasons
<1> QED
  BY <1>2, <1>3, CloseIs, QuietSame, QuietState DEF u

-----------------------------------------------------------------------------
LEMMA BesidesIsQuiet ==
  ASSUME NEW s, SessionOK(s), NEW t, SameBesides(s, t)
  PROVE  Quiet(s, t)
<1>1. s \in SessionType
  BY DEF SessionOK
<1> QED
  BY <1>1, SameBesidesIs DEF Quiet, IsClosed

LEMMA ReceiveRight ==
  ASSUME NEW s, SessionOK(s), NEW d, IsArriving(d),
         NEW log \in Seq(Payload), FarewellIsLast(log), NEW ids, Distinct(log, ids),
         Received(s, log, ids),
         d.type = "frames" => \A i \in 1 .. Len(d.frames) : \E k : IsExactly(log, ids, d.frames[i], k)
  PROVE  LET got == Receive(s, d)
         IN Received(got.s, log, ids) /\ Behaves(s, got.s, got.out, log)
<1> DEFINE got == Receive(s, d)
<1>0. \A a, b : [s |-> a, out |-> b].s = a /\ [s |-> a, out |-> b].out = b
  OBVIOUS
<1>1. CASE IsClosed(s)
  <2>1. got.s = s /\ got.out = <<>>
    BY <1>1 DEF Receive
  <2> HIDE DEF got
  <2> QED
    BY <2>1, QuietSame, QuietGoes DEF got
<1>2. CASE ~ IsClosed(s) /\ d.type = "ack"
  <2>1. got.s = OnAck(s, d.seqs) /\ got.out = <<>>
    BY <1>2 DEF Receive
  <2>2. Quiet(s, OnAck(s, d.seqs))
    BY OnAckKeeps, BesidesIsQuiet
  <2> HIDE DEF got
  <2> QED
    BY <2>1, <2>2, QuietGoes DEF got
<1>3. CASE ~ IsClosed(s) /\ d.type = "nack"
  <2>1. got.s = OnNack(s, d.ranges) /\ got.out = <<>>
    BY <1>3 DEF Receive
  <2>2. d.ranges \in Seq(SUBSET Nat)
    BY <1>3 DEF IsArriving, Datagrams, FramesDatagram, AckDatagram
  <2> HIDE DEF got
  <2>3. Quiet(s, OnNack(s, d.ranges))
    BY <2>2, OnNackKeeps, BesidesIsQuiet DEF Resent
  <2> QED
    BY <2>1, <2>3, QuietGoes DEF got
<1>4. CASE ~ IsClosed(s) /\ d.type = "frames"
  <2>1. d \in FramesDatagram
    BY <1>4 DEF IsArriving, Datagrams, AckDatagram
  <2>2. d.seq \in Nat /\ d.frames \in Seq(Frame)
    BY <2>1 DEF FramesDatagram, Batch
  <2> DEFINE acks == s.pendingAcks \cup {d.seq}
             u == [s EXCEPT !.pendingAcks = acks]
             first == [s |-> u, out |-> <<>>, failed |-> FALSE]
             taken == FoldLeft(TakeFrame, first, d.frames)
             n == s.ordering.expected
             fixed == [s |-> s, log |-> log, ids |-> ids, start |-> n]
  <2>3. acks \in SUBSET Nat /\ s \in SessionType
    BY <2>2, FaultsType DEF SessionOK
  <2>4. /\ SessionOK(u) /\ u.ordering = s.ordering /\ u.pending = s.pending /\ u.faults = s.faults
        /\ u.log = s.log /\ u.state = s.state
    <3> HIDE DEF acks
    <3> QED
      BY <2>3, AcksKeeps DEF SessionType
  <2>5. got = [s |-> taken.s, out |-> IF taken.failed THEN <<>> ELSE taken.out]
    BY <1>4 DEF Receive
  <2>6. AccOK(first) /\ first.s = u /\ first.out = <<>> /\ ~ first.failed
    <3> HIDE DEF u
    <3>1. FALSE \in BOOLEAN /\ <<>> \in Seq(UserPayload)
      OBVIOUS
    <3> QED
      BY <2>4, <3>1, AccIs
  <2>7. fixed.s = s /\ fixed.log = log /\ fixed.ids = ids /\ fixed.start = n
    OBVIOUS
  <2>8. n \in Nat /\ n <= Len(log)
    BY ExpectedType DEF Received, OrderedOK
  <2> HIDE DEF first, fixed, u
  <2>9. TakenRight(fixed, first, 0)
    <3>1. first.s.ordering.expected = n
      BY <2>4, <2>6
    <3> HIDE DEF n
    <3>2. ForCaller(Released(log, n, n)) = <<>>
      BY <2>8, ReleasedNone
    <3>3. Caught(first.s, log, n)
      <4>1. Caught(s, log, n)
        BY DEF Received, n
      <4> QED
        BY <2>4, <2>6, <4>1 DEF Caught, IsClosed
    <3>4. Right(fixed, first, n)
      BY <2>4, <2>6, <2>7, <3>2, <3>3 DEF Right
    <3>5. OrderedOK(first.s.ordering, log) /\ PiecesOK(first.s.pending, log, ids)
      BY <2>4, <2>6 DEF Received
    <3> QED
      BY <2>7, <2>8, <3>1, <3>4, <3>5 DEF TakenRight
  <2>10. TakenRight(fixed, taken, Len(d.frames))
    <3>1. \A i \in 1 .. Len(d.frames) : \E k : IsExactly(fixed.log, fixed.ids, d.frames[i], k)
      BY <1>4, <2>7
    <3> HIDE DEF n
    <3> QED
      BY <2>2, <2>7, <2>8, <2>9, <3>1, TakeAllRight
  <2> DEFINE m == taken.s.ordering.expected
  <2>11. Right(fixed, taken, m) /\ n <= m /\ OrderedOK(taken.s.ordering, log) /\ PiecesOK(taken.s.pending, log, ids)
    <3> HIDE DEF taken
    <3> QED
      BY <2>7, <2>10 DEF TakenRight
  <2>12. m <= Len(log) /\ Caught(taken.s, log, m)
    BY <2>7, <2>11 DEF OrderedOK, Right
  <2>13. Received(taken.s, log, ids)
    BY <2>11, <2>12 DEF Received
  <2> DEFINE out == IF taken.failed THEN <<>> ELSE taken.out
  <2>14. got.s = taken.s /\ got.out = out
    BY <1>0, <2>5
  <2>15. Behaves(s, taken.s, out, log)
    <3> HIDE DEF taken
    <3>1. CASE taken.failed
      <4>1. s.faults \subseteq taken.s.faults /\ ~ (taken.s.faults \subseteq {"expired"})
        BY <2>7, <2>11, <3>1 DEF Right
      <4> QED
        BY <2>11, <2>12, <3>1, <4>1 DEF Behaves
    <3>2. CASE ~ taken.failed
      <4>1. taken.s.faults = s.faults /\ taken.out = ForCaller(Released(log, n, m))
        BY <2>7, <2>11, <3>2 DEF Right
      <4> QED
        BY <2>11, <2>12, <3>2, <4>1 DEF Behaves
    <3> QED
      BY <3>1, <3>2
  <2> HIDE DEF got, taken, out
  <2> QED
    BY <2>13, <2>14, <2>15 DEF got
<1>5. d.type \in {"ack", "nack", "frames"}
  BY DEF IsArriving, Datagrams, FramesDatagram, AckDatagram
<1> QED
  BY <1>1, <1>2, <1>3, <1>4, <1>5

\* No index has wrapped: an order index for each payload accepted, and a split
\* id for at most each call of send.
Fits == \A e \in Ends : Len(ses[e].log) <= IndexSpace /\ pos[e] <= SplitSpace

\* What o has sent and its peer has received, told by the numbers ids that its
\* payloads were cut under.
AgreeOn(o, ids, cuts) ==
  /\ SenderOK(ses[o], ids, cuts)
  /\ cuts <= pos[o]
  /\ \A d \in net[Other(o)] : Genuine(ses[o].log, ids, d)
  /\ Fits => Received(ses[Other(o)], ses[o].log, ids)

HandedOver(e) ==
  ses[e].faults \subseteq {"expired"} =>
    delivered[e] = ForCaller(Released(ses[Other(e)].log, 0, ses[e].ordering.expected))

LinkAgrees ==
  /\ LinkOK
  /\ \A o \in Ends : \E ids, cuts : AgreeOn(o, ids, cuts)
  /\ \A e \in Ends : ClosedLast(ses[e])
  /\ Fits => \A e \in Ends : HandedOver(e)

-----------------------------------------------------------------------------
LEMMA CaughtGrows ==
  ASSUME NEW s, NEW log \in Seq(Payload), NEW log2 \in Seq(Payload), NEW ids, NEW ids2,
         Grows(log, ids, log2, ids2), NEW n \in Nat, n <= Len(log), Caught(s, log, n)
  PROVE  Caught(s, log2, n)
<1>1. \A k \in 1 .. n : log[k] = log2[k]
  <2>1. \A k \in 1 .. n : k \in 1 .. Len(log)
    OBVIOUS
  <2> QED
    BY <2>1 DEF Grows
<1>2. Those(log, n, Asks) = Those(log2, n, Asks)
  BY <1>1, ThoseSame
<1>3. \A k \in 1 .. n : log[k].kind = log2[k].kind
  BY <1>1
<1> QED
  BY <1>2, <1>3 DEF Caught

LEMMA ReceivedGrows ==
  ASSUME NEW s, SessionOK(s), NEW log \in Seq(Payload), NEW log2 \in Seq(Payload), NEW ids, NEW ids2,
         Grows(log, ids, log2, ids2), Received(s, log, ids)
  PROVE  Received(s, log2, ids2)
<1>1. s \in SessionType
  BY DEF SessionOK
<1>2. ReceiverOK(s, log2, ids2)
  BY <1>1, ReceiverGrows DEF ReceiverOK, Received
<1>3. Caught(s, log2, s.ordering.expected)
  <2>1. s.ordering.expected \in Nat /\ s.ordering.expected <= Len(log) /\ Caught(s, log, s.ordering.expected)
    BY ExpectedType DEF Received, OrderedOK
  <2> QED
    BY <2>1, CaughtGrows
<1> QED
  BY <1>2, <1>3 DEF ReceiverOK, Received

\* Genuine fragments are told apart as long as nothing has wrapped.
LEMMA GenuineIsExactly ==
  ASSUME NEW log \in Seq(Payload), NEW ids, NEW cuts, IdsOK(log, ids, cuts),
         Len(log) <= IndexSpace, cuts <= SplitSpace, NEW d, Genuine(log, ids, d), d.type = "frames"
  PROVE  \A i \in 1 .. Len(d.frames) : \E k : IsExactly(log, ids, d.frames[i], k)
<1> SUFFICES ASSUME NEW i \in 1 .. Len(d.frames) PROVE \E k : IsExactly(log, ids, d.frames[i], k)
  OBVIOUS
<1>1. PICK k \in 1 .. Len(log) : IsFragmentOf(log, ids, d.frames[i], k)
  BY DEF Genuine
<1>2. k <= IndexSpace
  BY SpacesType
<1>3. log[k].parts # 1 => ids[k] < SplitSpace
  <2>1. log[k].parts # 1 => ids[k] < cuts
    BY DEF IdsOK
  <2>2. ids[k] \in Nat /\ cuts \in Nat
    BY DEF IdsOK
  <2> QED
    BY <2>1, <2>2, SpacesType
<1>4. IsExactly(log, ids, d.frames[i], k)
  BY <1>1, <1>2, <1>3 DEF IsFragmentOf, IsExactly
<1> QED
  BY <1>4

\* The outbox is drained.
LEMMA DrainedAgrees ==
  ASSUME NEW t, SessionOK(t), NEW u, u = [t EXCEPT !.outbox = <<>>]
  PROVE  /\ u.log = t.log /\ u.ordering = t.ordering /\ u.pending = t.pending
         /\ u.faults = t.faults /\ u.state = t.state
         /\ \A ids, cuts : SenderOK(t, ids, cuts) => SenderOK(u, ids, cuts)
         /\ \A log, ids : Received(t, log, ids) => Received(u, log, ids)
         /\ ClosedLast(t) => ClosedLast(u)
<1>1. t \in SessionType
  BY DEF SessionOK
<1>2. /\ u.log = t.log /\ u.ordering = t.ordering /\ u.pending = t.pending
      /\ u.faults = t.faults /\ u.state = t.state /\ u.nextSplit = t.nextSplit
      /\ u.inFlight = t.inFlight /\ u.outbox = <<>>
  BY <1>1 DEF SessionType
<1>3. \A ids, cuts : SenderOK(t, ids, cuts) => SenderOK(u, ids, cuts)
  BY <1>2 DEF SenderOK
<1>4. \A log, ids : Received(t, log, ids) => Received(u, log, ids)
  BY <1>2 DEF Received, Caught, IsClosed
<1>5. ClosedLast(t) => ClosedLast(u)
  BY <1>2 DEF ClosedLast, IsClosed
<1> QED
  BY <1>2, <1>3, <1>4, <1>5

-----------------------------------------------------------------------------
\* A step of the link, seen from the end e that is called: its session goes on
\* to t, and the call hands out to the caller.
Goes(e, t, out) ==
  LET s == ses[e]
      o == Other(e)
  IN /\ SessionOK(t)
     /\ ClosedLast(t)
     /\ \A ids, cuts : AgreeOn(e, ids, cuts) =>
          \E ids2, cuts2 : SendsOn(s, ids, cuts, t, ids2, cuts2) /\ cuts2 <= pos'[e]
     /\ \A ids, cuts : Fits /\ AgreeOn(o, ids, cuts) =>
          Received(t, ses[o].log, ids) /\ Behaves(s, t, out, ses[o].log)
     /\ ses' = [ses EXCEPT ![e] = [t EXCEPT !.outbox = <<>>]]
     /\ net'[e] \subseteq net[e]
     /\ net'[o] \subseteq net[o] \cup Range(t.outbox)
     /\ delivered' = [delivered EXCEPT ![e] = @ \o out]
     /\ pos[e] <= pos'[e] /\ pos'[o] = pos[o]

LEMMA DrainGoes ==
  ASSUME LinkOK, NEW e \in Ends, NEW s, SessionOK(s), NEW netNow \in [Ends -> SUBSET Datagrams],
         netNow[e] \subseteq net[e], netNow[Other(e)] = net[Other(e)], Drain(e, s, netNow)
  PROVE  /\ ses' = [ses EXCEPT ![e] = [s EXCEPT !.outbox = <<>>]]
         /\ net'[e] \subseteq net[e]
         /\ net'[Other(e)] \subseteq net[Other(e)] \cup Range(s.outbox)
<1>1. PICK through \in SUBSET Range(s.outbox) : net' = [netNow EXCEPT ![Other(e)] = @ \cup through]
  BY DEF Drain
<1>2. Other(e) \in Ends /\ Other(e) # e
  BY OtherIs
<1>3. net'[e] = netNow[e] /\ net'[Other(e)] = netNow[Other(e)] \cup through
  BY <1>1, <1>2
<1> QED
  BY <1>1, <1>3 DEF Drain

LEMMA AgreeIsReceived ==
  ASSUME LinkAgrees, NEW e \in Ends, NEW ids, NEW cuts, Fits, AgreeOn(Other(e), ids, cuts)
  PROVE  LET log == ses[Other(e)].log
         IN /\ log \in Seq(Payload) /\ FarewellIsLast(log) /\ Distinct(log, ids)
            /\ IdsOK(log, ids, cuts) /\ Len(log) <= IndexSpace /\ cuts <= SplitSpace
            /\ Received(ses[e], log, ids)
            /\ \A d \in net[e] : Genuine(log, ids, d)
<1> DEFINE o == Other(e)
           s == ses[o]
<1>1. o \in Ends /\ Other(o) = e
  BY OtherIs
<1> HIDE DEF o
<1>2. SessionOK(s) /\ pos[o] \in Nat /\ ClosedLast(s)
  BY <1>1 DEF LinkAgrees, LinkOK
<1>3. /\ SenderOK(s, ids, cuts) /\ cuts <= pos[o]
      /\ \A d \in net[e] : Genuine(s.log, ids, d)
      /\ Received(ses[e], s.log, ids)
  BY <1>1 DEF AgreeOn, o
<1>4. Len(s.log) <= IndexSpace /\ pos[o] <= SplitSpace
  BY <1>1 DEF Fits
<1> HIDE DEF s
<1>5. s.log \in Seq(Payload)
  BY <1>2 DEF SessionOK, SessionType
<1>6. IdsOK(s.log, ids, cuts)
  BY <1>3 DEF SenderOK
<1>7. Distinct(s.log, ids)
  BY <1>6 DEF IdsOK, Distinct
<1>8. FarewellIsLast(s.log)
  BY <1>2 DEF ClosedLast, FarewellIsLast
<1>9. cuts <= SplitSpace
  BY <1>2, <1>3, <1>4, <1>6, SpacesType DEF IdsOK
<1> QED
  BY <1>3, <1>4, <1>5, <1>6, <1>7, <1>8, <1>9 DEF s, o

\* What a call that takes nothing in makes of what was received.
LEMMA QuietReceives ==
  ASSUME LinkAgrees, NEW e \in Ends, NEW t, Quiet(ses[e], t), NEW ids, NEW cuts,
         Fits, AgreeOn(Other(e), ids, cuts)
  PROVE  Received(t, ses[Other(e)].log, ids) /\ Behaves(ses[e], t, <<>>, ses[Other(e)].log)
<1> DEFINE s == ses[e]
           log == ses[Other(e)].log
<1>1. SessionOK(s)
  BY DEF LinkAgrees, LinkOK
<1>2. log \in Seq(Payload) /\ Received(s, log, ids)
  BY AgreeIsReceived
<1> HIDE DEF s, log
<1>3. Quiet(s, t)
  BY DEF s
<1>4. Received(t, log, ids) /\ Behaves(s, t, <<>>, log)
  BY <1>1, <1>2, <1>3, QuietGoes
<1> QED
  BY <1>4 DEF s, log

LEMMA NothingOut ==
  ASSUME LinkOK, NEW e \in Ends
  PROVE  delivered = [delivered EXCEPT ![e] = @ \o <<>>]
<1>1. delivered \in [Ends -> Seq(UserPayload)] /\ delivered[e] \in Seq(UserPayload)
  BY DEF LinkOK
<1> DEFINE d == delivered[e]
<1> HIDE DEF d
<1>2. d \in Seq(UserPayload) => d \o <<>> = d
  BY ConcatEmptySeq
<1>3. delivered[e] \o <<>> = delivered[e]
  BY <1>1, <1>2 DEF d
<1> QED
  BY <1>1, <1>3

LEMMA SendsNoFarewell ==
  ASSUME NEW s, SessionOK(s), ClosedLast(s), NEW p \in Payload, p.kind # "disconnect"
  PROVE  ClosedLast(Send(s, p).s)
<1> DEFINE t == Send(s, p).s
<1>1. (t.log = s.log \/ (~ IsClosed(s) /\ t.log = Append(s.log, p))) /\ t.state = s.state
  BY SendLog, SendKeeps
<1> HIDE DEF t
<1>2. CASE t.log = s.log
  BY <1>1, <1>2 DEF ClosedLast, IsClosed, t
<1>3. CASE ~ IsClosed(s) /\ t.log = Append(s.log, p)
  <2>1. s.log \in Seq(Payload)
    BY DEF SessionOK, SessionType
  <2>2. NoFarewell(s.log)
    BY <1>3, OpenHasNoFarewell
  <2>3. NoFarewell(t.log)
    BY <1>3, <2>1, <2>2, NoFarewellAppend
  <2> QED
    BY <2>3, NoFarewellIsLast DEF t
<1> QED
  BY <1>1, <1>2, <1>3

-----------------------------------------------------------------------------
LEMMA SendGoes ==
  ASSUME LinkAgrees, NEW e \in Ends, CallSend(e)
  PROVE  \E t, out : Goes(e, t, out)
<1> DEFINE s == ses[e]
           o == Other(e)
           p == Script[e][pos[e] + 1]
           t == Send(s, p).s
<1>1. LinkOK /\ SessionOK(s) /\ ClosedLast(s) /\ pos \in [Ends -> Nat] /\ net \in [Ends -> SUBSET Datagrams]
  BY DEF LinkAgrees, LinkOK
<1>2. p \in Payload /\ p.kind \notin Answers /\ p.kind # "disconnect"
  <2> DEFINE S == [kind : {"user", "request", "incoming"}, id : Nat, parts : Nat \ {0}]
             script == Script[e]
  <2>1. script \in Seq(S)
    BY LinkAssumption
  <2>2. pos[e] + 1 \in 1 .. Len(script)
    BY <1>1, <2>1 DEF CallSend
  <2> HIDE DEF S, script
  <2>3. script[pos[e] + 1] \in S
    BY <2>1, <2>2
  <2>4. p \in S
    BY <2>3 DEF script
  <2> HIDE DEF p
  <2> QED
    BY <2>4 DEF S, Payload, Kinds, Answers
<1>3. Drain(e, t, net) /\ pos' = [pos EXCEPT ![e] = @ + 1] /\ UNCHANGED delivered
  BY DEF CallSend
<1> HIDE DEF p
<1>4. SessionOK(t) /\ Quiet(s, t) /\ ClosedLast(t)
  BY <1>1, <1>2, SendKeeps, SendIsQuiet, SendsNoFarewell
<1>5. o \in Ends /\ o # e
  BY OtherIs
<1>6. pos'[e] = pos[e] + 1 /\ pos'[o] = pos[o] /\ pos[e] \in Nat
  BY <1>1, <1>3, <1>5
<1>7. ASSUME NEW ids, NEW cuts, AgreeOn(e, ids, cuts)
      PROVE  \E ids2, cuts2 : SendsOn(s, ids, cuts, t, ids2, cuts2) /\ cuts2 <= pos'[e]
  <2>1. SenderOK(s, ids, cuts) /\ cuts <= pos[e]
    BY <1>7 DEF AgreeOn
  <2>2. cuts \in Nat
    BY <2>1 DEF SenderOK, IdsOK
  <2>3. PICK ids2, cuts2 : SendsOn(s, ids, cuts, t, ids2, cuts2) /\ cuts2 \in {cuts, cuts + 1}
    BY <1>1, <1>2, <2>1, SendAgrees
  <2>4. cuts2 <= pos'[e]
    BY <1>6, <2>1, <2>2, <2>3
  <2> QED
    BY <2>3, <2>4
<1> HIDE DEF t
<1>8. /\ ses' = [ses EXCEPT ![e] = [t EXCEPT !.outbox = <<>>]]
      /\ net'[e] \subseteq net[e]
      /\ net'[o] \subseteq net[o] \cup Range(t.outbox)
  BY <1>1, <1>3, <1>4, DrainGoes
<1>9. \A ids, cuts : Fits /\ AgreeOn(o, ids, cuts) =>
        Received(t, ses[o].log, ids) /\ Behaves(s, t, <<>>, ses[o].log)
  BY <1>4, QuietReceives
<1>10. delivered' = [delivered EXCEPT ![e] = @ \o <<>>]
  BY <1>1, <1>3, NothingOut
<1>11. pos[e] <= pos'[e]
  BY <1>6
<1> HIDE DEF s, o
<1>12. Goes(e, t, <<>>)
  BY <1>4, <1>6, <1>7, <1>8, <1>9, <1>10, <1>11 DEF Goes, s, o
<1> QED
  BY <1>12

\* Tick and close.
LEMMA CallGoes ==
  ASSUME LinkAgrees, NEW e \in Ends, NEW t, SessionOK(t), Quiet(ses[e], t), ClosedLast(t),
         \A ids, cuts : SenderOK(ses[e], ids, cuts) => SendsOn(ses[e], ids, cuts, t, ids, cuts),
         Drain(e, t, net), UNCHANGED <<delivered, pos>>
  PROVE  \E u, out : Goes(e, u, out)
<1> DEFINE s == ses[e]
           o == Other(e)
<1>1. LinkOK /\ SessionOK(s) /\ pos \in [Ends -> Nat] /\ net \in [Ends -> SUBSET Datagrams]
  BY DEF LinkAgrees, LinkOK
<1>2. ASSUME NEW ids, NEW cuts, AgreeOn(e, ids, cuts)
      PROVE  \E ids2, cuts2 : SendsOn(s, ids, cuts, t, ids2, cuts2) /\ cuts2 <= pos'[e]
  BY <1>2 DEF AgreeOn
<1>3. /\ ses' = [ses EXCEPT ![e] = [t EXCEPT !.outbox = <<>>]]
      /\ net'[e] \subseteq net[e]
      /\ net'[o] \subseteq net[o] \cup Range(t.outbox)
  BY <1>1, DrainGoes
<1>4. \A ids, cuts : Fits /\ AgreeOn(o, ids, cuts) =>
        Received(t, ses[o].log, ids) /\ Behaves(s, t, <<>>, ses[o].log)
  BY QuietReceives
<1>5. delivered' = [delivered EXCEPT ![e] = @ \o <<>>]
  BY <1>1, NothingOut
<1>6. pos[e] <= pos'[e] /\ pos'[o] = pos[o]
  BY <1>1
<1> HIDE DEF s, o
<1>7. Goes(e, t, <<>>)
  BY <1>2, <1>3, <1>4, <1>5, <1>6 DEF Goes, s, o
<1> QED
  BY <1>7

LEMMA TakeGoes ==
  ASSUME LinkAgrees, NEW e \in Ends, NEW d, IsArriving(d), d.type # "nack" => d \in net[e],
         NEW netNow \in [Ends -> SUBSET Datagrams],
         netNow[e] \subseteq net[e], netNow[Other(e)] = net[Other(e)], Take(e, d, netNow)
  PROVE  \E t, out : Goes(e, t, out)
<1> DEFINE s == ses[e]
           o == Other(e)
           got == Receive(s, d)
           t == got.s
<1>1. LinkOK /\ SessionOK(s) /\ ClosedLast(s) /\ pos \in [Ends -> Nat]
  BY DEF LinkAgrees, LinkOK
<1>2. Drain(e, t, netNow) /\ delivered' = [delivered EXCEPT ![e] = @ \o got.out] /\ UNCHANGED pos
  BY DEF Take
<1>3. SessionOK(t)
  BY <1>1, ReceiveKeeps
<1>4. ClosedLast(t)
  <2>1. PICK ids, cuts : AgreeOn(e, ids, cuts)
    BY DEF LinkAgrees
  <2>2. SenderOK(s, ids, cuts)
    BY <2>1 DEF AgreeOn
  <2> QED
    BY <1>1, <2>2, ReceiveSends
<1>5. ASSUME NEW ids, NEW cuts, AgreeOn(e, ids, cuts)
      PROVE  \E ids2, cuts2 : SendsOn(s, ids, cuts, t, ids2, cuts2) /\ cuts2 <= pos'[e]
  <2>1. SenderOK(s, ids, cuts) /\ cuts <= pos'[e]
    BY <1>2, <1>5 DEF AgreeOn
  <2>2. SendsOn(s, ids, cuts, t, ids, cuts)
    BY <1>1, <2>1, ReceiveSends
  <2> HIDE DEF t, s
  <2> QED
    BY <2>1, <2>2
<1>6. ASSUME NEW ids, NEW cuts, Fits, AgreeOn(o, ids, cuts)
      PROVE  Received(t, ses[o].log, ids) /\ Behaves(s, t, got.out, ses[o].log)
  <2> DEFINE log == ses[o].log
  <2>1. /\ log \in Seq(Payload) /\ FarewellIsLast(log) /\ Distinct(log, ids)
        /\ IdsOK(log, ids, cuts) /\ Len(log) <= IndexSpace /\ cuts <= SplitSpace
        /\ Received(s, log, ids)
        /\ \A x \in net[e] : Genuine(log, ids, x)
    BY <1>6, AgreeIsReceived
  <2> HIDE DEF log, o
  <2>2. d.type = "frames" => \A i \in 1 .. Len(d.frames) : \E k : IsExactly(log, ids, d.frames[i], k)
    BY <2>1, GenuineIsExactly
  <2> HIDE DEF s
  <2>3. Received(got.s, log, ids) /\ Behaves(s, got.s, got.out, log)
    BY <1>1, <2>1, <2>2, ReceiveRight
  <2> QED
    BY <2>3 DEF log
<1> HIDE DEF t
<1>7. /\ ses' = [ses EXCEPT ![e] = [t EXCEPT !.outbox = <<>>]]
      /\ net'[e] \subseteq net[e]
      /\ net'[o] \subseteq net[o] \cup Range(t.outbox)
  BY <1>1, <1>2, <1>3, DrainGoes
<1>8. pos[e] <= pos'[e] /\ pos'[o] = pos[o]
  BY <1>1, <1>2
<1> DEFINE out == got.out
<1>9. \A ids, cuts : Fits /\ AgreeOn(o, ids, cuts) =>
        Received(t, ses[o].log, ids) /\ Behaves(s, t, out, ses[o].log)
  BY <1>6
<1>10. delivered' = [delivered EXCEPT ![e] = @ \o out]
  BY <1>2
<1> HIDE DEF s, o, out, got
<1>11. Goes(e, t, out)
  BY <1>3, <1>4, <1>5, <1>7, <1>8, <1>9, <1>10 DEF Goes, s, o
<1> QED
  BY <1>11

LEMMA StepGoes ==
  ASSUME LinkAgrees, Next
  PROVE  \E e \in Ends : \E t, out : Goes(e, t, out)
<1>1. net \in [Ends -> SUBSET Datagrams] /\ \A e \in Ends : SessionOK(ses[e]) /\ ClosedLast(ses[e])
  BY DEF LinkAgrees, LinkOK
<1>2. ASSUME NEW e \in Ends, CallSend(e) PROVE \E t, out : Goes(e, t, out)
  BY <1>2, SendGoes
<1>3. ASSUME NEW e \in Ends, NEW d \in net[e], Deliver(e, d) PROVE \E t, out : Goes(e, t, out)
  <2>1. PICK left \in {net[e], net[e] \ {d}} : Take(e, d, [net EXCEPT ![e] = left])
    BY <1>3 DEF Deliver
  <2> DEFINE netNow == [net EXCEPT ![e] = left]
  <2>2. d \in Datagrams /\ left \subseteq net[e]
    BY <1>1
  <2>3. Other(e) \in Ends /\ Other(e) # e
    BY OtherIs
  <2>4. netNow \in [Ends -> SUBSET Datagrams] /\ netNow[e] \subseteq net[e] /\ netNow[Other(e)] = net[Other(e)]
    BY <1>1, <2>2, <2>3
  <2>5. IsArriving(d) /\ d \in net[e]
    BY <2>2 DEF IsArriving
  <2>6. Take(e, d, netNow)
    BY <2>1
  <2> HIDE DEF netNow
  <2> QED
    BY <2>4, <2>5, <2>6, TakeGoes
<1>4. ASSUME NEW e \in Ends, NEW ranges \in SeqOf(SUBSET DOMAIN ses[e].inFlight \ {{}}, MaxRanges),
             DeliverNack(e, ranges)
      PROVE  \E t, out : Goes(e, t, out)
  <2> DEFINE d == [type |-> "nack", ranges |-> ranges]
  <2>1. Take(e, d, net)
    BY <1>4 DEF DeliverNack
  <2>2. IsArriving(d) /\ d.type = "nack"
    BY <1>1, <1>4, RangesType DEF IsArriving
  <2> HIDE DEF d
  <2> QED
    BY <1>1, <2>1, <2>2, TakeGoes
<1>5. ASSUME NEW e \in Ends, NEW due \in SUBSET DOMAIN ses[e].inFlight,
             NEW expired \in SUBSET DOMAIN ses[e].pending, NEW silent \in BOOLEAN, NEW ping \in BOOLEAN,
             CallTick(e, due, expired, silent, ping)
      PROVE  \E t, out : Goes(e, t, out)
  <2> DEFINE s == ses[e]
             u == Tick(s, due, expired, silent, ping)
  <2>1. Drain(e, u, net) /\ UNCHANGED <<delivered, pos>>
    BY <1>5 DEF CallTick
  <2>2. SessionOK(s) /\ ClosedLast(s)
    BY <1>1
  <2>3. SessionOK(u) /\ Quiet(s, u)
    BY <2>2, TickKeeps, TickIsQuiet
  <2>4. \A ids, cuts : SenderOK(s, ids, cuts) => SendsOn(s, ids, cuts, u, ids, cuts) /\ ClosedLast(u)
    BY <2>2, TickSends
  <2>5. \E ids, cuts : SenderOK(s, ids, cuts)
    BY DEF LinkAgrees, AgreeOn
  <2> HIDE DEF u
  <2> QED
    BY <2>1, <2>3, <2>4, <2>5, CallGoes
<1>6. ASSUME NEW e \in Ends, CallClose(e) PROVE \E t, out : Goes(e, t, out)
  <2> DEFINE s == ses[e]
             u == Close(s)
  <2>1. Drain(e, u, net) /\ UNCHANGED <<delivered, pos>>
    BY <1>6 DEF CallClose
  <2>2. SessionOK(s) /\ ClosedLast(s)
    BY <1>1
  <2>3. SessionOK(u) /\ Quiet(s, u)
    BY <2>2, CloseKeeps, CloseIsQuiet
  <2>4. \A ids, cuts : SenderOK(s, ids, cuts) => SendsOn(s, ids, cuts, u, ids, cuts) /\ ClosedLast(u)
    BY <2>2, CloseSends
  <2>5. \E ids, cuts : SenderOK(s, ids, cuts)
    BY DEF LinkAgrees, AgreeOn
  <2> HIDE DEF u
  <2> QED
    BY <2>1, <2>3, <2>4, <2>5, CallGoes
<1> QED
  BY <1>2, <1>3, <1>4, <1>5, <1>6 DEF Next

\* What a step of e does to the sessions and to the network.
LEMMA GoesIs ==
  ASSUME LinkAgrees, NEW e \in Ends, NEW t, NEW out, Goes(e, t, out)
  PROVE  LET o == Other(e)
         IN /\ o \in Ends /\ o # e /\ Other(o) = e
            /\ \A x \in Ends : x = e \/ x = o
            /\ ses'[e] = [t EXCEPT !.outbox = <<>>]
            /\ ses'[o] = ses[o]
            /\ delivered'[e] = delivered[e] \o out
            /\ delivered'[o] = delivered[o]
            /\ SessionOK(ses[e]) /\ SessionOK(ses[o]) /\ SessionOK(t)
            /\ ses[e].log \in Seq(Payload) /\ ses[o].log \in Seq(Payload) /\ t.log \in Seq(Payload)
<1> DEFINE o == Other(e)
<1>1. o \in Ends /\ o # e /\ Other(o) = e /\ \A x \in Ends : x = e \/ x = o
  BY OtherIs
<1>2. ses \in [Ends -> SessionType] /\ delivered \in [Ends -> Seq(UserPayload)]
  BY DEF LinkAgrees, LinkOK
<1>3. SessionOK(ses[e]) /\ SessionOK(ses[o])
  BY <1>1 DEF LinkAgrees, LinkOK
<1>4. /\ ses' = [ses EXCEPT ![e] = [t EXCEPT !.outbox = <<>>]]
      /\ delivered' = [delivered EXCEPT ![e] = @ \o out]
      /\ SessionOK(t)
  BY DEF Goes
<1> HIDE DEF o
<1>5. ses'[e] = [t EXCEPT !.outbox = <<>>] /\ ses'[o] = ses[o]
  BY <1>1, <1>2, <1>4
<1>6. delivered'[e] = delivered[e] \o out /\ delivered'[o] = delivered[o]
  BY <1>1, <1>2, <1>4
<1>7. ses[e].log \in Seq(Payload) /\ ses[o].log \in Seq(Payload) /\ t.log \in Seq(Payload)
  BY <1>3, <1>4 DEF SessionOK, SessionType
<1> QED
  BY <1>1, <1>3, <1>4, <1>5, <1>6, <1>7 DEF o

\* Every log only grows.
LEMMA GoesGrows ==
  ASSUME LinkAgrees, NEW e \in Ends, NEW t, NEW out, Goes(e, t, out)
  PROVE  /\ Len(ses[e].log) <= Len(t.log)
         /\ \A k \in 1 .. Len(ses[e].log) : t.log[k] = ses[e].log[k]
<1>1. PICK ids, cuts : AgreeOn(e, ids, cuts)
  BY DEF LinkAgrees
<1>2. PICK ids2, cuts2 : SendsOn(ses[e], ids, cuts, t, ids2, cuts2)
  BY <1>1 DEF Goes
<1> QED
  BY <1>2 DEF SendsOn, Grows

LEMMA FittedBefore ==
  ASSUME LinkAgrees, NEW e \in Ends, NEW t, NEW out, Goes(e, t, out), LinkOK', Fits'
  PROVE  Fits
<1> DEFINE o == Other(e)
<1>1. /\ o \in Ends /\ \A x \in Ends : x = e \/ x = o
      /\ ses'[e] = [t EXCEPT !.outbox = <<>>] /\ ses'[o] = ses[o]
      /\ ses[e].log \in Seq(Payload) /\ t.log \in Seq(Payload) /\ SessionOK(t)
  BY GoesIs
<1>2. ses'[e].log = t.log
  <2>1. \A u : u = [t EXCEPT !.outbox = <<>>] => u.log = t.log
    BY <1>1, DrainedAgrees
  <2> QED
    BY <1>1, <2>1
<1>3. Len(t.log) <= IndexSpace /\ Len(ses[o].log) <= IndexSpace
      /\ pos'[e] <= SplitSpace /\ pos'[o] <= SplitSpace
  BY <1>1, <1>2 DEF Fits
<1>4. Len(ses[e].log) <= IndexSpace
  <2>1. Len(ses[e].log) <= Len(t.log)
    BY GoesGrows
  <2>2. Len(ses[e].log) \in Nat /\ Len(t.log) \in Nat
    BY <1>1
  <2> QED
    BY <1>3, <2>1, <2>2, SpacesType
<1>5. pos[e] <= SplitSpace /\ pos[o] <= SplitSpace
  <2>1. pos[e] <= pos'[e] /\ pos'[o] = pos[o]
    BY DEF Goes
  <2>2. pos[e] \in Nat /\ pos'[e] \in Nat
    BY DEF LinkAgrees, LinkOK
  <2> QED
    BY <1>3, <2>1, <2>2, SpacesType
<1> QED
  BY <1>1, <1>3, <1>4, <1>5 DEF Fits

\* The pair that e sends in.
LEMMA SenderGoes ==
  ASSUME LinkAgrees, NEW e \in Ends, NEW t, NEW out, Goes(e, t, out), LinkOK'
  PROVE  \E ids, cuts : AgreeOn(e, ids, cuts)'
<1> DEFINE o == Other(e)
           s == ses[e]
           u == ses'[e]
<1>1. /\ o \in Ends /\ o # e
      /\ u = [t EXCEPT !.outbox = <<>>] /\ ses'[o] = ses[o]
      /\ s.log \in Seq(Payload) /\ t.log \in Seq(Payload) /\ SessionOK(t) /\ SessionOK(ses[o])
  BY GoesIs
<1>2. PICK ids0, cuts0 : AgreeOn(e, ids0, cuts0)
  BY DEF LinkAgrees
<1>3. PICK ids, cuts : SendsOn(s, ids0, cuts0, t, ids, cuts) /\ cuts <= pos'[e]
  BY <1>2 DEF Goes
<1> HIDE DEF u
<1>4. u.log = t.log /\ \A i, c : SenderOK(t, i, c) => SenderOK(u, i, c)
  BY <1>1, DrainedAgrees
<1>5. SenderOK(t, ids, cuts) /\ Grows(s.log, ids0, t.log, ids)
  BY <1>3 DEF SendsOn
<1>6. SenderOK(u, ids, cuts)
  BY <1>4, <1>5
<1>7. ASSUME NEW d \in net'[o] PROVE Genuine(u.log, ids, d)
  <2>1. CASE d \in net[o]
    <3>1. Genuine(s.log, ids0, d)
      BY <1>2, <2>1 DEF AgreeOn
    <3> HIDE DEF s
    <3>2. Genuine(t.log, ids, d)
      BY <1>1, <1>5, <3>1, GenuineGrows
    <3> QED
      BY <1>4, <3>2
  <2>2. CASE d \in Range(t.outbox)
    <3>1. t.outbox \in Seq(Datagrams)
      BY <1>1 DEF SessionOK, SessionType
    <3>2. PICK i \in 1 .. Len(t.outbox) : d = t.outbox[i]
      BY <2>2, <3>1 DEF Range
    <3> QED
      BY <1>4, <1>5, <3>2 DEF SenderOK
  <2>3. d \in net[o] \/ d \in Range(t.outbox)
    <3>1. net'[o] \subseteq net[o] \cup Range(t.outbox)
      BY DEF Goes
    <3> QED
      BY <3>1
  <2> QED
    BY <2>1, <2>2, <2>3
<1>8. ASSUME Fits' PROVE Received(ses'[o], u.log, ids)
  <2>1. Fits
    BY <1>8, FittedBefore
  <2>2. Received(ses[o], s.log, ids0)
    BY <1>2, <2>1 DEF AgreeOn
  <2> HIDE DEF s
  <2>3. Received(ses[o], t.log, ids)
    BY <1>1, <1>5, <2>2, ReceivedGrows
  <2> QED
    BY <1>1, <1>4, <2>3
<1>9. AgreeOn(e, ids, cuts)'
  <2>1. SenderOK(ses'[e], ids, cuts) /\ \A d \in net'[o] : Genuine(ses'[e].log, ids, d)
    BY <1>6, <1>7 DEF u
  <2>2. Fits' => Received(ses'[o], ses'[e].log, ids)
    BY <1>8 DEF u
  <2>3. Other(e)' = Other(e)
    BY DEF Other
  <2> QED
    BY <1>3, <2>1, <2>2, <2>3 DEF AgreeOn, SenderOK, IdsOK, Genuine, IsFragmentOf,
         Received, OrderedOK, PiecesOK, IsPieceOf, Caught, IsClosed, Those
<1> QED
  BY <1>9

\* The pair that e receives in.
LEMMA ReceiverGoes ==
  ASSUME LinkAgrees, NEW e \in Ends, NEW t, NEW out, Goes(e, t, out), LinkOK'
  PROVE  /\ \E ids, cuts : AgreeOn(Other(e), ids, cuts)'
         /\ Fits' => Behaves(ses[e], t, out, ses[Other(e)].log)
<1> DEFINE o == Other(e)
           s == ses[o]
           u == ses'[e]
<1>1. /\ o \in Ends /\ o # e /\ Other(o) = e
      /\ u = [t EXCEPT !.outbox = <<>>] /\ ses'[o] = s
      /\ s.log \in Seq(Payload) /\ SessionOK(t)
  BY GoesIs
<1>2. PICK ids, cuts : AgreeOn(o, ids, cuts)
  BY <1>1 DEF LinkAgrees
<1>3. /\ SenderOK(s, ids, cuts) /\ cuts <= pos[o]
      /\ \A d \in net[e] : Genuine(s.log, ids, d)
  BY <1>1, <1>2 DEF AgreeOn
<1>4. net'[e] \subseteq net[e] /\ pos'[o] = pos[o]
  BY DEF Goes
<1>5. ASSUME Fits' PROVE Received(t, s.log, ids) /\ Behaves(ses[e], t, out, s.log)
  <2>1. Fits
    BY <1>5, FittedBefore
  <2> QED
    BY <1>2, <2>1 DEF Goes
<1> HIDE DEF u
<1>6. \A l, i : Received(t, l, i) => Received(u, l, i)
  BY <1>1, DrainedAgrees
<1>7. AgreeOn(o, ids, cuts)'
  <2>1. SenderOK(ses'[o], ids, cuts) /\ cuts <= pos'[o]
        /\ \A d \in net'[e] : Genuine(ses'[o].log, ids, d)
    BY <1>1, <1>3, <1>4
  <2>2. Fits' => Received(ses'[e], ses'[o].log, ids)
    BY <1>1, <1>5, <1>6 DEF u
  <2>3. Other(o)' = e
    BY <1>1 DEF Other
  <2> HIDE DEF o
  <2> QED
    BY <2>1, <2>2, <2>3 DEF AgreeOn, SenderOK, IdsOK, Genuine, IsFragmentOf,
         Received, OrderedOK, PiecesOK, IsPieceOf, Caught, IsClosed, Those
<1> QED
  BY <1>5, <1>7

LEMMA HandedOverGoes ==
  ASSUME LinkAgrees, NEW e \in Ends, NEW t, NEW out, Goes(e, t, out), LinkOK', Fits'
  PROVE  \A x \in Ends : HandedOver(x)'
<1> DEFINE o == Other(e)
           s == ses[e]
           log == ses[o].log
           n == s.ordering.expected
           m == t.ordering.expected
<1>1. /\ o \in Ends /\ o # e /\ Other(o) = e /\ \A x \in Ends : x = e \/ x = o
      /\ ses'[e] = [t EXCEPT !.outbox = <<>>] /\ ses'[o] = ses[o]
      /\ delivered'[e] = delivered[e] \o out /\ delivered'[o] = delivered[o]
      /\ SessionOK(s) /\ SessionOK(ses[o]) /\ SessionOK(t)
      /\ s.log \in Seq(Payload) /\ log \in Seq(Payload) /\ t.log \in Seq(Payload)
  BY GoesIs
<1>2. Fits
  BY FittedBefore
<1>3. HandedOver(e) /\ HandedOver(o)
  BY <1>1, <1>2 DEF LinkAgrees
<1>4. Behaves(s, t, out, log)
  BY ReceiverGoes
<1>5. ses'[e].faults = t.faults /\ ses'[e].ordering = t.ordering /\ ses'[e].log = t.log
  <2>1. \A u : u = [t EXCEPT !.outbox = <<>>] =>
          u.faults = t.faults /\ u.ordering = t.ordering /\ u.log = t.log
    BY <1>1, DrainedAgrees
  <2> QED
    BY <1>1, <2>1
<1>6. n \in Nat /\ m \in Nat
  BY <1>1, ExpectedType
<1>7. \A x \in Ends : Other(x)' = Other(x)
  BY DEF Other
<1>8. HandedOver(e)'
  <2> SUFFICES ASSUME t.faults \subseteq {"expired"}
               PROVE  delivered[e] \o out = ForCaller(Released(log, 0, m))
    <3>1. ses'[e].faults = t.faults /\ delivered'[e] = delivered[e] \o out
          /\ ses'[o].log = log /\ ses'[e].ordering.expected = m
      BY <1>1, <1>5
    <3> HIDE DEF m, log
    <3> QED
      BY <1>7, <3>1 DEF HandedOver, o
  <2>1. /\ n <= m /\ m <= Len(log)
        /\ \/ t.faults = s.faults /\ out = ForCaller(Released(log, n, m))
           \/ out = <<>> /\ s.faults \subseteq t.faults /\ m = n
    BY <1>4 DEF Behaves
  <2>2. delivered[e] = ForCaller(Released(log, 0, n))
    <3>1. s.faults \subseteq {"expired"}
      BY <2>1
    <3> QED
      BY <1>3, <3>1 DEF HandedOver
  <2> HIDE DEF n, m, log, s
  <2>3. CASE out = ForCaller(Released(log, n, m))
    <3> DEFINE z == 0
    <3>1. z \in Nat /\ z <= n /\ n \in Nat /\ m \in Nat /\ n <= m /\ m <= Len(log) /\ log \in Seq(Payload)
      BY <1>1, <1>6, <2>1
    <3> HIDE DEF z, o
    <3>2. ForCaller(Released(log, z, m)) = ForCaller(Released(log, z, n)) \o ForCaller(Released(log, n, m))
      BY <3>1, ForCallerJoins
    <3> QED
      BY <2>2, <2>3, <3>2 DEF z
  <2>4. CASE out = <<>> /\ m = n
    <3>1. Released(log, 0, n) \in Seq(Payload)
      BY <1>1, <1>6, <2>1, <2>4, ReleasedIs
    <3>2. ForCaller(Released(log, 0, n)) \in Seq(UserPayload)
      BY <3>1, ForCallerType
    <3>3. delivered[e] \o <<>> = delivered[e]
      <4> DEFINE d == delivered[e]
      <4>1. d \in Seq(UserPayload)
        BY <2>2, <3>2
      <4> HIDE DEF d
      <4>2. d \o <<>> = d
        BY <4>1, ConcatEmptySeq
      <4> QED
        BY <4>2 DEF d
    <3> QED
      BY <2>2, <2>4, <3>3
  <2> QED
    BY <2>1, <2>3, <2>4
<1>9. HandedOver(o)'
  <2> DEFINE r == ses[o]
             k == r.ordering.expected
  <2> SUFFICES ASSUME r.faults \subseteq {"expired"}
               PROVE  delivered[o] = ForCaller(Released(t.log, 0, k))
    <3>1. ses'[o] = r /\ delivered'[o] = delivered[o] /\ ses'[e].log = t.log
      BY <1>1, <1>5
    <3>2. Other(o)' = e
      BY <1>1, <1>7
    <3> HIDE DEF o
    <3> QED
      BY <3>1, <3>2 DEF HandedOver
  <2>1. delivered[o] = ForCaller(Released(s.log, 0, k))
    BY <1>1, <1>3 DEF HandedOver
  <2>2. k \in Nat /\ k <= Len(s.log)
    <3>1. PICK ids, cuts : AgreeOn(e, ids, cuts)
      BY DEF LinkAgrees
    <3>2. Received(r, s.log, ids)
      BY <1>2, <3>1 DEF AgreeOn
    <3> QED
      BY <1>1, <3>2, ExpectedType DEF Received, OrderedOK
  <2>3. Len(s.log) <= Len(t.log) /\ \A i \in 1 .. Len(s.log) : t.log[i] = s.log[i]
    BY GoesGrows
  <2> HIDE DEF k, s
  <2>4. Released(t.log, 0, k) = Released(s.log, 0, k)
    <3> DEFINE z == 0
    <3>1. Len(s.log) \in Nat /\ Len(t.log) \in Nat /\ z \in Nat /\ z <= k
      BY <1>1, <2>2
    <3>2. k <= Len(t.log) /\ \A i \in 1 .. k : t.log[i] = s.log[i]
      BY <2>2, <2>3, <3>1
    <3> HIDE DEF z
    <3>3. Released(t.log, z, k) = Released(s.log, z, k)
      BY <1>1, <2>2, <3>1, <3>2, ReleasedSame, SMTT(20)
    <3> QED
      BY <3>3 DEF z
  <2> QED
    BY <2>1, <2>4
<1> QED
  BY <1>1, <1>8, <1>9

LEMMA GoesAgrees ==
  ASSUME LinkAgrees, NEW e \in Ends, NEW t, NEW out, Goes(e, t, out), LinkOK'
  PROVE  LinkAgrees'
<1> DEFINE o == Other(e)
<1>1. \A x \in Ends : x = e \/ x = o
  BY GoesIs
<1>2. (\E ids, cuts : AgreeOn(e, ids, cuts)') /\ (\E ids, cuts : AgreeOn(o, ids, cuts)')
  BY SenderGoes, ReceiverGoes
<1>3. ClosedLast(ses'[e]) /\ ClosedLast(ses'[o])
  <2>1. ses'[e] = [t EXCEPT !.outbox = <<>>] /\ ses'[o] = ses[o] /\ o \in Ends /\ SessionOK(t)
    BY GoesIs
  <2>2. ClosedLast(t)
    BY DEF Goes
  <2>3. ClosedLast(ses'[e])
    BY <2>1, <2>2, DrainedAgrees
  <2> QED
    BY <2>1, <2>3 DEF LinkAgrees
<1> HIDE DEF o
<1>4. \A x \in Ends : \E ids, cuts : AgreeOn(x, ids, cuts)'
  BY <1>1, <1>2
<1>5. \A x \in Ends : ClosedLast(ses'[x])
  BY <1>1, <1>3
<1>6. \A x \in Ends : ClosedLast(ses[x])'
  BY <1>5 DEF ClosedLast, IsClosed
<1>7. Fits' => \A x \in Ends : HandedOver(x)'
  BY HandedOverGoes
<1> QED
  BY <1>4, <1>6, <1>7 DEF LinkAgrees

LEMMA NewAgrees ==
  LET ids == [k \in Nat |-> 0]
  IN SenderOK(NewSession, ids, 0) /\ Received(NewSession, <<>>, ids) /\ ClosedLast(NewSession)
<1> DEFINE s == NewSession
           ids == [k \in Nat |-> 0]
<1>1. /\ s.log = <<>> /\ s.outbox = <<>> /\ s.nextSplit = 0 /\ s.inFlight = EmptyMap
      /\ s.pending = EmptyMap /\ s.faults = {} /\ s.ordering = NewOrdering
  BY DEF NewSession
<1>2. DOMAIN EmptyMap = {} /\ Len(<<>>) = 0 /\ 1 .. 0 = {} /\ 0 \in Nat
  BY DEF EmptyMap
<1>3. NewOrdering.expected = 0 /\ DOMAIN NewOrdering.buffered = {}
  BY DEF NewOrdering
<1>4. ids \in [Nat -> Nat]
  OBVIOUS
<1> HIDE DEF s, ids
<1>5. SenderOK(s, ids, 0)
  BY <1>1, <1>2, <1>4 DEF SenderOK, IdsOK
<1>6. Those(<<>>, 0, Answers) = 0 /\ Those(<<>>, 0, Asks) = 0
  BY ThoseNone
<1>7. Caught(s, <<>>, 0)
  BY <1>1, <1>2, <1>6 DEF Caught
<1>8. OrderedOK(s.ordering, <<>>)
  BY <1>1, <1>2, <1>3 DEF OrderedOK
<1>9. PiecesOK(s.pending, <<>>, ids)
  BY <1>1, <1>2 DEF PiecesOK
<1>10. ClosedLast(s)
  BY <1>1, <1>2 DEF ClosedLast
<1> QED
  BY <1>1, <1>3, <1>5, <1>7, <1>8, <1>9, <1>10 DEF Received, s, ids

LEMMA InitAgrees == Init => LinkAgrees
<1> SUFFICES ASSUME Init PROVE LinkAgrees
  OBVIOUS
<1>1. LinkOK
  BY InitOK
<1>2. \A e \in Ends : ses[e] = NewSession /\ net[e] = {} /\ delivered[e] = <<>> /\ pos[e] = 0
  BY DEF Init
<1>3. NewSession.log = <<>> /\ NewSession.ordering.expected = 0
  BY DEF NewSession, NewOrdering
<1> DEFINE ids == [k \in Nat |-> 0]
<1>4. SenderOK(NewSession, ids, 0) /\ Received(NewSession, <<>>, ids) /\ ClosedLast(NewSession)
  BY NewAgrees
<1> HIDE DEF ids
<1>5. ASSUME NEW o \in Ends PROVE AgreeOn(o, ids, 0)
  <2>1. Other(o) \in Ends
    BY OtherIs
  <2>2. 0 <= pos[o]
    BY <1>2
  <2> QED
    BY <1>2, <1>3, <1>4, <2>1, <2>2 DEF AgreeOn
<1>6. ASSUME NEW e \in Ends PROVE HandedOver(e)
  <2>1. Released(<<>>, 0, 0) = <<>>
    <3>1. <<>> \in Seq(Payload) /\ 0 \in Nat /\ 0 <= Len(<<>>)
      OBVIOUS
    <3> DEFINE z == 0
    <3>2. z \in Nat /\ z <= Len(<<>>)
      OBVIOUS
    <3> HIDE DEF z
    <3>3. Released(<<>>, z, z) = <<>>
      BY <3>1, <3>2, ReleasedNone
    <3> QED
      BY <3>3 DEF z
  <2>2. Other(e) \in Ends
    BY OtherIs
  <2> QED
    BY <1>2, <1>3, <2>1, <2>2, ForCallerEmpty DEF HandedOver
<1> QED
  BY <1>1, <1>2, <1>4, <1>5, <1>6 DEF LinkAgrees

LEMMA StepAgrees == LinkAgrees /\ [Next]_vars => LinkAgrees'
<1> SUFFICES ASSUME LinkAgrees, [Next]_vars PROVE LinkAgrees'
  OBVIOUS
<1>1. LinkOK'
  BY StepOK DEF LinkAgrees
<1>2. CASE Next
  <2>1. PICK e \in Ends : \E t, out : Goes(e, t, out)
    BY <1>2, StepGoes
  <2>2. PICK t, out : Goes(e, t, out)
    BY <2>1
  <2> QED
    BY <1>1, <2>2, GoesAgrees
<1>3. CASE UNCHANGED vars
  <2>1. ses' = ses /\ net' = net /\ delivered' = delivered /\ pos' = pos
    BY <1>3 DEF vars
  <2>2. Fits' = Fits /\ \A e \in Ends : (HandedOver(e)' <=> HandedOver(e)) /\ (ClosedLast(ses[e])' <=> ClosedLast(ses[e]))
    BY <2>1 DEF Fits, HandedOver, Other, ClosedLast, IsClosed
  <2>3. \A o \in Ends : \A ids, cuts : AgreeOn(o, ids, cuts)' <=> AgreeOn(o, ids, cuts)
    BY <2>1, <2>2 DEF AgreeOn, Other, SenderOK, IdsOK, Genuine, IsFragmentOf,
         Received, OrderedOK, PiecesOK, IsPieceOf, Caught, IsClosed, Those
  <2> QED
    BY <1>1, <2>2, <2>3 DEF LinkAgrees
<1> QED
  BY <1>2, <1>3

(* There are always numbers under which everything an end has in flight,   *)
(* on the network, held back or half assembled at its peer is of a payload *)
(* it logged; and until an index wraps the peer has released a prefix of   *)
(* that log.                                                               *)
THEOREM LinkAgreement == Spec => []LinkAgrees
<1>1. Init => LinkAgrees
  BY InitAgrees
<1>2. LinkAgrees /\ [Next]_vars => LinkAgrees'
  BY StepAgrees
<1> QED
  BY <1>1, <1>2, PTL DEF Spec

-----------------------------------------------------------------------------
(* receive: until an index wraps, a session that has refused nothing has   *)
(* handed its caller exactly the caller's payloads below the index it      *)
(* awaits, in order, however the network lost, repeated and reordered.     *)
THEOREM SkipsNothing == Spec => [](Fits => NothingSkipped)
<1>1. LinkAgrees => (Fits => NothingSkipped)
  <2> SUFFICES ASSUME LinkAgrees, Fits, NEW e \in Ends, ses[e].faults \subseteq {"expired"}
               PROVE  delivered[e] = ForCaller(SubSeq(ses[Other(e)].log, 1, ses[e].ordering.expected))
    BY DEF NothingSkipped
  <2>1. delivered[e] = ForCaller(Released(ses[Other(e)].log, 0, ses[e].ordering.expected))
    BY DEF LinkAgrees, HandedOver
  <2>2. \A l, n : Released(l, 0, n) = SubSeq(l, 1, n)
    <3>1. 0 + 1 = 1
      OBVIOUS
    <3> QED
      BY <3>1 DEF Released
  <2> QED
    BY <2>1, <2>2
<1> QED
  BY <1>1, LinkAgreement, PTL

(* Ordering and Reassembler: until an index wraps, a payload held back is  *)
(* the one the peer sent under that index, and the pieces of an assembly   *)
(* are all of one payload of the peer's.                                   *)
THEOREM BuffersAgree == Spec => [](Fits => BuffersMatchSent)
<1>1. LinkAgrees => (Fits => BuffersMatchSent)
  <2> SUFFICES ASSUME LinkAgrees, Fits, NEW e \in Ends
               PROVE  LET r   == ses[e]
                          log == ses[Other(e)].log
                      IN /\ \A k \in DOMAIN r.ordering.buffered :
                              k < Len(log) /\ r.ordering.buffered[k] = log[k + 1]
                         /\ \A id \in DOMAIN r.pending : \A j \in DOMAIN r.pending[id].pieces :
                              /\ r.pending[id].pieces[j] \in Range(log)
                              /\ r.pending[id].pieces[j].parts = r.pending[id].count
                              /\ r.pending[id].pieces[j]
                                   = r.pending[id].pieces[CHOOSE i \in DOMAIN r.pending[id].pieces : TRUE]
    BY DEF BuffersMatchSent
  <2> DEFINE r == ses[e]
             log == ses[Other(e)].log
  <2>1. Other(e) \in Ends
    BY OtherIs
  <2>2. PICK ids, cuts : AgreeOn(Other(e), ids, cuts)
    BY <2>1 DEF LinkAgrees
  <2>3. log \in Seq(Payload) /\ Distinct(log, ids) /\ Received(r, log, ids)
    BY <2>2, AgreeIsReceived
  <2> HIDE DEF r, log
  <2>4. \A k \in DOMAIN r.ordering.buffered : k < Len(log) /\ r.ordering.buffered[k] = log[k + 1]
    BY <2>3 DEF Received, OrderedOK
  <2>5. ASSUME NEW id \in DOMAIN r.pending, NEW j \in DOMAIN r.pending[id].pieces
        PROVE  /\ r.pending[id].pieces[j] \in Range(log)
               /\ r.pending[id].pieces[j].parts = r.pending[id].count
               /\ r.pending[id].pieces[j]
                    = r.pending[id].pieces[CHOOSE i \in DOMAIN r.pending[id].pieces : TRUE]
    <3> DEFINE pieces == r.pending[id].pieces
               count == r.pending[id].count
               i == CHOOSE x \in DOMAIN pieces : TRUE
    <3>1. i \in DOMAIN pieces
      OBVIOUS
    <3>2. \A x \in DOMAIN pieces : \E k \in 1 .. Len(log) : IsPieceOf(log, ids, id, count, pieces[x], k)
      BY <2>3 DEF Received, PiecesOK
    <3> HIDE DEF pieces, count, i
    <3>3. PICK k \in 1 .. Len(log) : IsPieceOf(log, ids, id, count, pieces[j], k)
      BY <3>2 DEF pieces
    <3>4. PICK m \in 1 .. Len(log) : IsPieceOf(log, ids, id, count, pieces[i], m)
      BY <3>1, <3>2
    <3>5. k = m
      BY <2>3, <3>3, <3>4 DEF IsPieceOf, Distinct
    <3>6. pieces[j] = log[k] /\ pieces[i] = log[k] /\ log[k].parts = count
      BY <3>3, <3>4, <3>5 DEF IsPieceOf
    <3>7. log[k] \in Range(log)
      BY <2>3, <3>3 DEF Range
    <3> QED
      BY <3>6, <3>7 DEF pieces, count, i
  <2> QED
    BY <2>4, <2>5 DEF r, log
<1> QED
  BY <1>1, LinkAgreement, PTL

(* close and handle_internal: until an index wraps, a disconnect is the    *)
(* last payload of its end, and the session that has taken it is closed.   *)
THEOREM FarewellCloses == Spec => [](Fits => DisconnectCloses)
<1>1. LinkAgrees => (Fits => DisconnectCloses)
  <2> SUFFICES ASSUME LinkAgrees, Fits, NEW e \in Ends,
                      NEW k \in 1 .. Len(ses[Other(e)].log), ses[Other(e)].log[k].kind = "disconnect"
               PROVE  /\ k = Len(ses[Other(e)].log)
                      /\ k <= ses[e].ordering.expected /\ ses[e].faults = {} => IsClosed(ses[e])
    BY DEF DisconnectCloses
  <2> DEFINE log == ses[Other(e)].log
             n == ses[e].ordering.expected
  <2>1. Other(e) \in Ends
    BY OtherIs
  <2>2. PICK ids, cuts : AgreeOn(Other(e), ids, cuts)
    BY <2>1 DEF LinkAgrees
  <2>3. FarewellIsLast(log) /\ Received(ses[e], log, ids) /\ SessionOK(ses[e])
    BY <2>2, AgreeIsReceived DEF LinkAgrees, LinkOK
  <2>4. Caught(ses[e], log, n) /\ n \in Nat
    BY <2>3, ExpectedType DEF Received
  <2>5. k \in 1 .. Len(log) /\ log[k].kind = "disconnect"
    OBVIOUS
  <2> HIDE DEF log, n
  <2>6. k = Len(log)
    BY <2>3, <2>5 DEF FarewellIsLast
  <2>7. k <= n => k \in 1 .. n
    BY <2>4, <2>5
  <2>8. k <= n /\ ses[e].faults = {} => IsClosed(ses[e])
    BY <2>4, <2>5, <2>7 DEF Caught
  <2> QED
    BY <2>6, <2>8 DEF log, n
<1> QED
  BY <1>1, LinkAgreement, PTL

(* handle_internal: until an index wraps, every request and ping released  *)
(* has been answered once, unless a refused answer surfaced as an error.   *)
THEOREM AnswersOnce == Spec => [](Fits => AnsweredOnce)
<1>1. LinkAgrees => (Fits => AnsweredOnce)
  <2> SUFFICES ASSUME LinkAgrees, Fits, NEW e \in Ends, ses[e].faults = {}
               PROVE  Those(ses[e].log, Len(ses[e].log), Answers)
                        = Those(ses[Other(e)].log, ses[e].ordering.expected, Asks)
    BY DEF AnsweredOnce, Answers, Asks
  <2>1. Other(e) \in Ends
    BY OtherIs
  <2>2. PICK ids, cuts : AgreeOn(Other(e), ids, cuts)
    BY <2>1 DEF LinkAgrees
  <2>3. Received(ses[e], ses[Other(e)].log, ids)
    BY <2>2, AgreeIsReceived
  <2> QED
    BY <2>3 DEF Received, Caught
<1> QED
  BY <1>1, LinkAgreement, PTL

\* The actions of the channel towards x, in terms of the sessions.
LEMMA ChannelsAre ==
  ASSUME NEW x \in Ends
  PROVE  LET log == ses[Other(x)].log
             log2 == ses'[Other(x)].log
             n == ses[x].ordering.expected
             m == ses'[x].ordering.expected
         IN /\ /\ log2 = log /\ m = n /\ delivered'[x] = delivered[x]
               /\ (ses'[x].faults # {}) <=> (ses[x].faults # {})
               => Channels!Rest(x)
            /\ /\ Len(log2) > Len(log) /\ SubSeq(log2, 1, Len(log)) = log
               /\ m = n /\ delivered'[x] = delivered[x]
               /\ (ses'[x].faults # {}) <=> (ses[x].faults # {})
               => Channels!Accept(x)
            /\ /\ m \in (n + 1) .. Len(log)
               /\ delivered'[x] = delivered[x] \o ForCaller(SubSeq(log, n + 1, m))
               /\ log2 = log
               /\ (ses'[x].faults # {}) <=> (ses[x].faults # {})
               => Channels!HandOver(x)
            /\ /\ ses'[x].faults # {} /\ m \in n .. Len(log)
               /\ log2 = log /\ delivered'[x] = delivered[x]
               => Channels!Lose(x)
<1>1. Other(x)' = Other(x)
  BY DEF Other
<1> DEFINE log == ses[Other(x)].log
           log2 == ses'[Other(x)].log
           n == ses[x].ordering.expected
           m == ses'[x].ordering.expected
<1>2. ASSUME log2 = log, m = n, delivered'[x] = delivered[x], (ses'[x].faults # {}) <=> (ses[x].faults # {})
      PROVE  Channels!Rest(x)
  BY <1>1, <1>2 DEF Channels!Rest
<1>3. ASSUME Len(log2) > Len(log), SubSeq(log2, 1, Len(log)) = log, m = n,
             delivered'[x] = delivered[x], (ses'[x].faults # {}) <=> (ses[x].faults # {})
      PROVE  Channels!Accept(x)
  BY <1>1, <1>3 DEF Channels!Accept
<1>4. ASSUME m \in (n + 1) .. Len(log), delivered'[x] = delivered[x] \o ForCaller(SubSeq(log, n + 1, m)),
             log2 = log, (ses'[x].faults # {}) <=> (ses[x].faults # {})
      PROVE  Channels!HandOver(x)
  BY <1>1, <1>4 DEF Channels!HandOver
<1>5. ASSUME ses'[x].faults # {}, m \in n .. Len(log), log2 = log, delivered'[x] = delivered[x]
      PROVE  Channels!Lose(x)
  BY <1>1, <1>5 DEF Channels!Lose
<1> QED
  BY <1>2, <1>3, <1>4, <1>5

LEMMA StepIsChannels ==
  ASSUME LinkAgrees, NEW e \in Ends, NEW t, NEW out, Goes(e, t, out), LinkOK', Fits'
  PROVE  Channels!Next
<1> DEFINE o == Other(e)
           s == ses[e]
           log == ses[o].log
           n == s.ordering.expected
           m == t.ordering.expected
<1>1. /\ o \in Ends /\ o # e /\ Other(o) = e /\ \A x \in Ends : x = e \/ x = o
      /\ ses'[e] = [t EXCEPT !.outbox = <<>>] /\ ses'[o] = ses[o]
      /\ delivered'[e] = delivered[e] \o out /\ delivered'[o] = delivered[o]
      /\ SessionOK(s) /\ SessionOK(t)
      /\ s.log \in Seq(Payload) /\ log \in Seq(Payload) /\ t.log \in Seq(Payload)
  BY GoesIs
<1>2. ses'[e].faults = t.faults /\ ses'[e].ordering = t.ordering /\ ses'[e].log = t.log
  <2>1. \A u : u = [t EXCEPT !.outbox = <<>>] =>
          u.faults = t.faults /\ u.ordering = t.ordering /\ u.log = t.log
    BY <1>1, DrainedAgrees
  <2> QED
    BY <1>1, <2>1
<1>3. n \in Nat /\ m \in Nat /\ Len(log) \in Nat
  BY <1>1, ExpectedType
<1>4. Channels!Rest(e) \/ Channels!HandOver(e) \/ Channels!Lose(e)
  <2>1. Behaves(s, t, out, log)
    BY ReceiverGoes
  <2>2. /\ n <= m /\ m <= Len(log)
        /\ \/ t.faults = s.faults /\ out = ForCaller(Released(log, n, m))
           \/ out = <<>> /\ t.faults # {}
    BY <2>1 DEF Behaves
  <2>3. /\ ses'[o].log = log /\ ses'[e].ordering.expected = m /\ ses'[e].faults = t.faults
        /\ delivered'[e] = delivered[e] \o out
    BY <1>1, <1>2
  <2>4. delivered[e] \o <<>> = delivered[e]
    <3> DEFINE d == delivered[e]
    <3>1. d \in Seq(UserPayload)
      BY DEF LinkAgrees, LinkOK
    <3> HIDE DEF d
    <3>2. d \o <<>> = d
      BY <3>1, ConcatEmptySeq
    <3> QED
      BY <3>2 DEF d
  <2>5. Released(log, n, m) = SubSeq(log, n + 1, m)
    BY DEF Released
  <2>6. ForCaller(Released(log, n, n)) = <<>>
    <3> HIDE DEF n, log, o
    <3>1. n <= Len(log)
      BY <1>3, <2>2
    <3> QED
      BY <1>1, <1>3, <3>1, ReleasedNone
  <2>7. n = m \/ m \in (n + 1) .. Len(log)
    <3> HIDE DEF n, m, log
    <3> QED
      BY <1>3, <2>2
  <2>8. CASE out = <<>> /\ t.faults # {}
    <3>1. m \in n .. Len(log)
      BY <1>3, <2>2
    <3>2. delivered'[e] = delivered[e]
      BY <2>3, <2>4, <2>8
    <3>3. Channels!Lose(e)
      BY <2>3, <2>8, <3>1, <3>2, ChannelsAre
    <3> QED
      BY <3>3
  <2>9. CASE t.faults = s.faults /\ out = ForCaller(Released(log, n, m)) /\ n = m
    <3>1. delivered'[e] = delivered[e]
      BY <2>3, <2>4, <2>6, <2>9
    <3>2. Channels!Rest(e)
      BY <2>3, <2>9, <3>1, ChannelsAre
    <3> QED
      BY <3>2
  <2>10. CASE /\ t.faults = s.faults /\ out = ForCaller(Released(log, n, m))
              /\ m \in (n + 1) .. Len(log)
    <3>1. delivered'[e] = delivered[e] \o ForCaller(SubSeq(log, n + 1, m))
      BY <2>3, <2>5, <2>10
    <3>2. Channels!HandOver(e)
      BY <2>3, <2>10, <3>1, ChannelsAre
    <3> QED
      BY <3>2
  <2> QED
    BY <2>2, <2>7, <2>8, <2>9, <2>10
<1>5. Channels!Rest(o) \/ Channels!Accept(o)
  <2>1. ses'[o] = ses[o] /\ delivered'[o] = delivered[o] /\ ses'[e].log = t.log /\ Other(o) = e
    BY <1>1, <1>2
  <2>2. Len(s.log) <= Len(t.log) /\ \A k \in 1 .. Len(s.log) : t.log[k] = s.log[k]
    BY GoesGrows
  <2>3. Len(s.log) \in Nat /\ Len(t.log) \in Nat
    BY <1>1
  <2>4. CASE Len(t.log) = Len(s.log)
    <3>1. t.log = s.log
      <4> DEFINE a == s.log
                 b == t.log
      <4>1. a \in Seq(Payload) /\ b \in Seq(Payload) /\ Len(a) = Len(b) /\ \A k \in 1 .. Len(a) : a[k] = b[k]
        BY <1>1, <2>2, <2>4
      <4> HIDE DEF a, b
      <4>2. a = b
        BY <4>1, SeqEqual
      <4> QED
        BY <4>2 DEF a, b
    <3>2. Channels!Rest(o)
      BY <1>1, <2>1, <3>1, ChannelsAre
    <3> QED
      BY <3>2
  <2>5. CASE Len(t.log) > Len(s.log)
    <3>1. SubSeq(t.log, 1, Len(s.log)) = s.log
      <4> DEFINE a == s.log
                 b == t.log
                 c == SubSeq(b, 1, Len(a))
      <4>1. a \in Seq(Payload) /\ b \in Seq(Payload) /\ Len(a) \in Nat /\ Len(b) \in Nat /\ Len(a) < Len(b)
            /\ \A k \in 1 .. Len(a) : b[k] = a[k]
        BY <1>1, <2>2, <2>3, <2>5
      <4> HIDE DEF a, b
      <4>2. c \in Seq(Payload) /\ Len(c) = Len(a) /\ \A k \in 1 .. Len(a) : c[k] = b[k]
        BY <4>1
      <4> HIDE DEF c
      <4>3. \A k \in 1 .. Len(a) : c[k] = a[k]
        BY <4>1, <4>2
      <4>4. c = a
        BY <4>1, <4>2, <4>3, SeqEqual
      <4> QED
        BY <4>4 DEF a, b, c
    <3>2. Channels!Accept(o)
      BY <1>1, <2>1, <2>5, <3>1, ChannelsAre
    <3> QED
      BY <3>2
  <2> QED
    BY <2>2, <2>3, <2>4, <2>5
<1> QED
  BY <1>1, <1>4, <1>5 DEF Channels!Next

(* Session implements Channel: until an index wraps, each step of the link *)
(* is, for the channel towards each end, a payload accepted, a run of      *)
(* payloads handed over in order, an admitted loss, or nothing.            *)
THEOREM ImplementsChannels == Spec /\ []Fits => IsTwoChannels
<1>1. Init => Channels!Init
  <2> SUFFICES ASSUME Init PROVE Channels!Init
    OBVIOUS
  <2>1. \A x \in Ends : Other(x) \in Ends
    BY OtherIs
  <2>2. NewSession.log = <<>> /\ NewSession.ordering.expected = 0 /\ NewSession.faults = {}
    BY DEF NewSession, NewOrdering
  <2> QED
    BY <2>1, <2>2 DEF Init, Channels!Init
<1>2. ASSUME LinkAgrees, LinkAgrees', Fits', [Next]_vars
      PROVE  [Channels!Next]_(Channels!vars)
  <2>1. CASE Next
    <3>1. PICK e \in Ends : \E t, out : Goes(e, t, out)
      BY <1>2, <2>1, StepGoes
    <3>2. PICK t, out : Goes(e, t, out)
      BY <3>1
    <3>3. LinkOK'
      BY <1>2 DEF LinkAgrees
    <3> QED
      BY <1>2, <3>2, <3>3, StepIsChannels
  <2>2. CASE UNCHANGED vars
    BY <2>2 DEF vars, Channels!vars, Other
  <2> QED
    BY <1>2, <2>1, <2>2
<1> QED
  BY <1>1, <1>2, LinkAgreement, PTL DEF Spec, Channels!Spec, IsTwoChannels
==============================================================================
